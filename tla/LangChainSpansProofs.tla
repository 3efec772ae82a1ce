------------------------- MODULE LangChainSpansProofs -------------------------
(***************************************************************************)
(* Theorems about LangChainSpans, for any runs, kinds and flows.           *)
(*                                                                         *)
(* Of a run, the invariant says how its holder, its span and the run above *)
(* it go together (RunFits).  Of a context, current or kept by a token, it *)
(* says whose layers lie in it (Sound).  A flow in which no run went       *)
(* astray is a stack: the runs that are open there are those current in    *)
(* it, and none of them was opened both before and after another           *)
(* (Stacked).                                                              *)
(***************************************************************************)
EXTENDS LangChainSpans, SequenceTheorems, WellFoundedInduction, TLAPS

LayerSet == [owner : Runs \cup {Reset}, span : BOOLEAN, suppress : Switches]
Contexts == Seq(LayerSet)
Tokens == [flow : Flows, old : Contexts]
Holders == [tokens : Seq(Tokens), children : SUBSET Runs]

Open(r) == holder[r] # <<>>
Old(r) == holder[r][1].tokens[1].old
BelowOver(r) == parent[r] # <<>> /\ state[parent[r][1]] = "over"
Orderly(f) == \A r \in astray : flow[r] # f

\* The run, its holder, and the end of its span.
HolderFits(r) ==
  /\ Open(r) => /\ holder[r] = <<holder[r][1]>>
                /\ Len(holder[r][1].tokens) \in 1..3
                /\ holder[r][1].tokens[1].flow = flow[r]
                /\ holder[r][1].children = {q \in started : parent[q] = <<r>>}
                /\ r \in started /\ (state[r] = "running" \/ r \in astray)
  /\ r \in started /\ ~Open(r) => state[r] = "over" /\ ends[r] > 0

EndFits(r) ==
  /\ r \notin started => ends[r] = 0
  /\ ends[r] \in 0..2
  /\ Open(r) /\ ends[r] > 0 => ends[r] = 1 /\ BelowOver(r)
  /\ ends[r] = 2 => BelowOver(r)
  /\ state[r] = "over" /\ r \in started => ends[r] > 0 \/ r \in astray

\* The run and the one above it.
ParentFits(r) ==
  /\ state[r] = "idle" => parent[r] = <<>> /\ r \notin started /\ r \notin astray
  /\ above[r] = <<>> \/ above[r] = <<above[r][1]>>
  /\ parent[r] # <<>> => /\ parent[r] = <<parent[r][1]>>
                         /\ parent[r][1] \in Runs /\ state[parent[r][1]] # "idle"
  /\ \A p \in started : parent[r] = <<p>> /\ r \in started /\ ~Open(p) => ends[r] > 0
  /\ r \notin started \cup astray /\ state[r] # "idle" /\ kind[r] # "retriever" =>
       kind[r] # "chain" /\ parent[r] # <<>> /\ parent[r][1] \notin started

RunTypes ==
  /\ state \in [Runs -> {"idle", "running", "over"}] /\ kind \in [Runs -> Kinds]
  /\ flow \in [Runs -> Flows] /\ holder \in [Runs -> Seq(Holders)]
  /\ parent \in [Runs -> Seq(Runs)]
  /\ above \in [Runs -> Seq(Runs)] /\ ends \in [Runs -> Nat]
  /\ started \subseteq Runs /\ failed \subseteq started
  /\ muted \subseteq Flows /\ astray \subseteq Runs

RunIInv == RunTypes /\ \A r \in Runs : HolderFits(r) /\ EndFits(r) /\ ParentFits(r)

\* Who switched instrumentation off in a context.
On(context) == {context[i].owner : i \in {j \in DOMAIN context : context[j].suppress = "on"}}

\* A context holds the layers of runs that were started, those of a model
\* with its suppression; only Reset takes a suppression back.
SoundWhen(context, begun, is) ==
  /\ Runs \cap Owners(context) \subseteq begun
  /\ \A r \in Runs \cap Owners(context) : is[r] \in LLMs => r \in On(context)
  /\ \A i \in DOMAIN context : context[i].suppress = "off" => context[i].owner = Reset

Sound(context) == SoundWhen(context, started, kind)

\* An orderly flow is a stack of the runs that are open there.
Stacked(f) ==
  \A r \in Runs : flow[r] = f =>
    /\ r \in Owners(ambient[f]) <=> Open(r)
    /\ \A s \in Runs : Open(s) /\ flow[s] = f /\ r \in Owners(Old(s)) =>
         Open(r) /\ s \notin Owners(Old(r))

ContextIInv ==
  /\ ambient \in [Flows -> Contexts]
  /\ \A f \in Flows : Sound(ambient[f])
  /\ \A r \in Runs : Open(r) => Sound(Old(r))
  /\ \A f \in Flows : Orderly(f) => Stacked(f)

IInv == RunIInv /\ ContextIInv

-----------------------------------------------------------------------------
(* Contexts. *)

\* One context on top of another.
LEMMA OnConcat ==
  ASSUME NEW x \in Contexts, NEW y \in Contexts
  PROVE  /\ x \o y \in Contexts
         /\ Owners(x \o y) = Owners(x) \cup Owners(y)
         /\ On(x \o y) = On(x) \cup On(y)
         /\ \A i \in DOMAIN (x \o y) :
              \/ \E j \in DOMAIN x : (x \o y)[i] = x[j]
              \/ \E j \in DOMAIN y : (x \o y)[i] = y[j]
<1> DEFINE z == x \o y
<1>1. /\ z \in Seq(LayerSet) /\ Len(x) \in Nat /\ Len(y) \in Nat /\ Len(z) = Len(x) + Len(y)
      /\ \A i \in 1..Len(x) + Len(y) : z[i] = IF i <= Len(x) THEN x[i] ELSE y[i - Len(x)]
  BY LenProperties, ConcatProperties DEF Contexts
<1>2. DOMAIN x = 1..Len(x) /\ DOMAIN y = 1..Len(y) /\ DOMAIN z = 1..Len(x) + Len(y)
  BY <1>1, LenProperties DEF Contexts
<1> HIDE DEF z
<1>3. \A i \in DOMAIN z : \/ \E j \in DOMAIN x : z[i] = x[j]
                          \/ \E j \in DOMAIN y : z[i] = y[j]
  <2> SUFFICES ASSUME NEW i \in DOMAIN z
               PROVE  \/ \E j \in DOMAIN x : z[i] = x[j]
                      \/ \E j \in DOMAIN y : z[i] = y[j]
    OBVIOUS
  <2>1. CASE i <= Len(x)
    BY <1>1, <1>2, <2>1
  <2>2. CASE ~(i <= Len(x))
    <3>1. i - Len(x) \in DOMAIN y /\ z[i] = y[i - Len(x)]
      BY <1>1, <1>2, <2>2
    <3> QED BY <3>1
  <2> QED BY <2>1, <2>2
<1>4. \A j \in DOMAIN x : j \in DOMAIN z /\ z[j] = x[j]
  BY <1>1, <1>2
<1>5. \A j \in DOMAIN y : j + Len(x) \in DOMAIN z /\ z[j + Len(x)] = y[j]
  BY <1>1, <1>2
<1>6. Owners(z) = Owners(x) \cup Owners(y)
  BY <1>3, <1>4, <1>5 DEF Owners
<1>7. \A c : c \in On(z) <=> c \in On(x) \cup On(y)
  BY <1>3, <1>4, <1>5 DEF On
<1>8. On(z) = On(x) \cup On(y)
  BY <1>7
<1> QED BY <1>1, <1>3, <1>6, <1>8 DEF Contexts, z

\* A context of one layer, and the empty one.
LEMMA OneLayer ==
  ASSUME NEW x \in LayerSet, NEW c, c = <<x>>
  PROVE  /\ c \in Contexts /\ Len(c) = 1 /\ Owners(c) = {x.owner}
         /\ On(c) = IF x.suppress = "on" THEN {x.owner} ELSE {}
         /\ \A i \in DOMAIN c : c[i] = x
<1>1. c \in Contexts /\ Len(c) = 1
  BY DEF Contexts
<1>2. DOMAIN c = {1} /\ c[1] = x
  OBVIOUS
<1>3. Owners(c) = {x.owner}
  BY ONLY <1>2 DEF Owners
<1>4. On(c) = IF x.suppress = "on" THEN {x.owner} ELSE {}
  BY ONLY <1>2 DEF On
<1> QED BY ONLY <1>1, <1>2, <1>3, <1>4

LEMMA NoLayer ==
  ASSUME NEW c, c = <<>>
  PROVE  /\ c \in Contexts /\ Len(c) = 0 /\ Owners(c) = {} /\ On(c) = {}
         /\ \A i \in DOMAIN c : FALSE
<1>1. c \in Contexts /\ Len(c) = 0
  BY DEF Contexts
<1>2. \A i \in DOMAIN c : FALSE
  OBVIOUS
<1>3. Owners(c) = {} /\ On(c) = {}
  BY ONLY <1>2 DEF Owners, On
<1> QED BY ONLY <1>1, <1>2, <1>3

\* The layers of a run.
LEMMA LayersFacts ==
  ASSUME NEW r \in Runs
  PROVE  /\ Layers(r) \in Contexts /\ Len(Layers(r)) \in 1..3
         /\ Owners(Layers(r)) = {r}
         /\ kind[r] \in LLMs => r \in On(Layers(r))
         /\ \A i \in DOMAIN Layers(r) : Layers(r)[i].suppress # "off"
<1> DEFINE meta == Layer(r, FALSE, "inherited")
           named == Layer(r, TRUE, "inherited")
           key == Layer(r, FALSE, "on")
           first == IF kind[r] \in {"chain", "chat"} THEN <<meta>> ELSE <<>>
           last == IF kind[r] \in LLMs THEN <<key>> ELSE <<>>
<1>1. /\ meta \in LayerSet /\ named \in LayerSet /\ key \in LayerSet
      /\ meta.owner = r /\ named.owner = r /\ key.owner = r
      /\ meta.suppress # "off" /\ named.suppress # "off" /\ key.suppress = "on"
  BY DEF Layer, LayerSet, Switches
<1>2. Layers(r) = (first \o <<named>>) \o last
  BY DEF Layers
<1> HIDE DEF meta, named, key
<1>3. /\ first \in Contexts /\ Len(first) \in 0..1 /\ Owners(first) \subseteq {r}
      /\ \A i \in DOMAIN first : first[i].suppress # "off"
  <2>1. CASE kind[r] \in {"chain", "chat"}
    <3>1. first = <<meta>>
      BY <2>1
    <3> QED BY <3>1, <1>1, OneLayer
  <2>2. CASE kind[r] \notin {"chain", "chat"}
    <3>1. first = <<>>
      BY <2>2
    <3> QED BY <3>1, NoLayer
  <2> QED BY <2>1, <2>2
<1>4. /\ last \in Contexts /\ Len(last) \in 0..1 /\ Owners(last) \subseteq {r}
      /\ \A i \in DOMAIN last : last[i].suppress # "off"
      /\ kind[r] \in LLMs => r \in On(last)
  <2>1. CASE kind[r] \in LLMs
    <3>1. last = <<key>>
      BY <2>1
    <3> QED BY <3>1, <1>1, OneLayer
  <2>2. CASE kind[r] \notin LLMs
    <3>1. last = <<>>
      BY <2>2
    <3> QED BY <3>1, <2>2, NoLayer
  <2> QED BY <2>1, <2>2
<1> DEFINE middle == <<named>>
<1>5. /\ middle \in Contexts /\ Len(middle) = 1 /\ Owners(middle) = {r}
      /\ \A i \in DOMAIN middle : middle[i].suppress # "off"
  BY <1>1, OneLayer
<1> DEFINE two == first \o middle
           three == two \o last
<1> HIDE DEF first, last, middle
<1>6. /\ two \in Contexts /\ Owners(two) = {r}
      /\ \A i \in DOMAIN two : two[i].suppress # "off"
  <2>1. /\ two \in Contexts /\ Owners(two) = Owners(first) \cup Owners(middle)
        /\ \A i \in DOMAIN two : \/ \E j \in DOMAIN first : two[i] = first[j]
                                 \/ \E j \in DOMAIN middle : two[i] = middle[j]
    BY <1>3, <1>5, OnConcat
  <2> HIDE DEF two
  <2> QED BY <2>1, <1>3, <1>5
<1>7. Len(two) \in 1..2
  <2>1. Len(two) = Len(first) + Len(middle)
    BY <1>3, <1>5, ConcatProperties DEF Contexts
  <2>2. Len(first) \in 0..1 /\ Len(middle) = 1
    BY <1>3, <1>5
  <2>3. \A a \in 0..1 : a + 1 \in 1..2
    OBVIOUS
  <2> HIDE DEF two
  <2> QED BY ONLY <2>1, <2>2, <2>3
<1> HIDE DEF two
<1>8. /\ three \in Contexts /\ Owners(three) = {r}
      /\ \A i \in DOMAIN three : three[i].suppress # "off"
      /\ kind[r] \in LLMs => r \in On(three)
  <2>1. /\ three \in Contexts /\ Owners(three) = Owners(two) \cup Owners(last)
        /\ On(three) = On(two) \cup On(last)
        /\ \A i \in DOMAIN three : \/ \E j \in DOMAIN two : three[i] = two[j]
                                   \/ \E j \in DOMAIN last : three[i] = last[j]
    BY <1>4, <1>6, OnConcat
  <2> HIDE DEF three
  <2> QED BY <2>1, <1>4, <1>6
<1>9. Len(three) \in 1..3
  <2>1. Len(three) = Len(two) + Len(last)
    BY <1>4, <1>6, ConcatProperties DEF Contexts
  <2>2. Len(last) \in 0..1
    BY <1>4
  <2>3. \A a \in 1..2, b \in 0..1 : a + b \in 1..3
    OBVIOUS
  <2> HIDE DEF three
  <2> QED BY ONLY <2>1, <2>2, <2>3, <1>7
<1> QED BY <1>2, <1>8, <1>9 DEF two, three, middle

\* What is current, or kept by a token, is a context.
LEMMA Typed ==
  ASSUME IInv
  PROVE  /\ RunTypes /\ \A f \in Flows : ambient[f] \in Contexts
         /\ \A r \in Runs : /\ Open(r) => Old(r) \in Contexts
                            /\ HolderFits(r) /\ EndFits(r) /\ ParentFits(r)
<1>1. RunTypes /\ \A r \in Runs : HolderFits(r) /\ EndFits(r) /\ ParentFits(r)
  BY DEF IInv, RunIInv
<1>2. \A f \in Flows : ambient[f] \in Contexts
  BY DEF IInv, ContextIInv
<1>3. ASSUME NEW r \in Runs, Open(r)
      PROVE  Old(r) \in Contexts
  <2>1. holder[r] \in Seq(Holders) /\ holder[r] = <<holder[r][1]>>
    BY <1>1, <1>3 DEF RunTypes, HolderFits
  <2>2. 1 \in DOMAIN holder[r]
    BY <2>1
  <2>3. holder[r][1] \in Holders
    BY <2>1, <2>2, ElementOfSeq
  <2>4. holder[r][1].tokens \in Seq(Tokens)
    BY <2>3 DEF Holders
  <2>5. Len(holder[r][1].tokens) \in 1..3
    BY <1>1, <1>3 DEF HolderFits
  <2>6. \A n \in 1..3 : 1 \in 1..n
    OBVIOUS
  <2>7. holder[r][1].tokens[1] \in Tokens
    BY <2>4, <2>5, <2>6, ElementOfSeq
  <2> QED BY <2>7 DEF Tokens, Old
<1> QED BY <1>1, <1>2, <1>3

\* A sound context stays so with more runs, with the layers of a run that
\* was started, with those of Reset.
LEMMA SoundContexts ==
  ASSUME NEW x \in Contexts, NEW begun, NEW more, begun \subseteq more,
         NEW is, SoundWhen(x, begun, is)
  PROVE  /\ SoundWhen(x, more, is)
         /\ \A y \in Contexts :
              SoundWhen(y, more, is) => SoundWhen(x \o y, more, is)
<1>1. SoundWhen(x, more, is)
  BY DEF SoundWhen
<1>2. ASSUME NEW y \in Contexts, SoundWhen(y, more, is)
      PROVE  SoundWhen(x \o y, more, is)
  <2> DEFINE z == x \o y
  <2>1. /\ Owners(z) = Owners(x) \cup Owners(y) /\ On(z) = On(x) \cup On(y)
        /\ \A i \in DOMAIN z : \/ \E j \in DOMAIN x : z[i] = x[j]
                               \/ \E j \in DOMAIN y : z[i] = y[j]
    BY OnConcat
  <2> HIDE DEF z
  <2>2. SoundWhen(z, more, is)
    BY <2>1, <1>1, <1>2 DEF SoundWhen
  <2> QED BY <2>2 DEF z
<1> QED BY <1>1, <1>2

LEMMA SoundAdditions ==
  /\ \A r \in started : r \in Runs => Sound(Layers(r))
  /\ LET off == <<Layer(Reset, FALSE, "off")>>
     IN  /\ off \in Contexts /\ Sound(off) /\ Owners(off) = {Reset}
         /\ \A x \in Contexts : Append(x, Layer(Reset, FALSE, "off")) = x \o off
<1>1. ASSUME NEW r \in started, r \in Runs
      PROVE  Sound(Layers(r))
  <2>1. /\ Owners(Layers(r)) = {r} /\ (kind[r] \in LLMs => r \in On(Layers(r)))
        /\ \A i \in DOMAIN Layers(r) : Layers(r)[i].suppress # "off"
    BY <1>1, LayersFacts
  <2> QED BY <2>1 DEF Sound, SoundWhen
<1> DEFINE layer == Layer(Reset, FALSE, "off")
           off == <<layer>>
<1>2. layer \in LayerSet /\ layer.owner = Reset /\ layer.suppress = "off"
  BY DEF Layer, LayerSet, Switches
<1> HIDE DEF layer
<1>3. off \in Contexts /\ Owners(off) = {Reset} /\ \A i \in DOMAIN off : off[i] = layer
  BY <1>2, OneLayer
<1>4. \A x \in Contexts : Append(x, layer) = x \o off
  BY <1>2, AppendIsConcat DEF Contexts
<1> HIDE DEF off
<1>5. Sound(off)
  BY <1>2, <1>3, ResetAssumption DEF Sound, SoundWhen
<1> QED BY <1>1, <1>3, <1>4, <1>5 DEF off, layer

-----------------------------------------------------------------------------
(* A run starts. *)

\* The holder of the new span of r.
Holding(r, f) ==
  [tokens |-> [i \in DOMAIN Layers(r) |->
                 [flow |-> f, old |-> ambient[f] \o SubSeq(Layers(r), 1, i - 1)]],
   children |-> {}]

LEMMA NewHolder ==
  ASSUME IInv, NEW r \in Runs, NEW f \in Flows
  PROVE  /\ Holding(r, f) \in Holders
         /\ Len(Holding(r, f).tokens) \in 1..3 /\ Holding(r, f).children = {}
         /\ Holding(r, f).tokens[1].flow = f
         /\ Holding(r, f).tokens[1].old = ambient[f]
<1> DEFINE h == Holding(r, f)
           kept(i) == ambient[f] \o SubSeq(Layers(r), 1, i - 1)
           tokens == [i \in DOMAIN Layers(r) |-> [flow |-> f, old |-> kept(i)]]
<1>6. h = [tokens |-> tokens, children |-> {}]
  BY DEF Holding
<1> HIDE DEF h
<1>1. /\ ambient[f] \in Seq(LayerSet) /\ Layers(r) \in Seq(LayerSet)
      /\ Len(Layers(r)) \in 1..3
  BY Typed, LayersFacts DEF Contexts
<1>2. DOMAIN Layers(r) = 1..Len(Layers(r)) /\ Len(Layers(r)) \in Nat
  BY <1>1, LenProperties
<1>3. ASSUME NEW i \in 1..Len(Layers(r))
      PROVE  kept(i) \in Contexts
  <2>1. \A n \in Nat : \A j \in 1..n : 1 \in Int /\ j - 1 \in Int /\ j - 1 <= n
    OBVIOUS
  <2>2. 1 \in Int /\ i - 1 \in Int /\ \A k \in 1..i - 1 : k \in 1..Len(Layers(r))
    BY <1>2
  <2>3. \A k \in 1..i - 1 : Layers(r)[k] \in LayerSet
    BY <1>1, <2>2, ElementOfSeq
  <2>4. SubSeq(Layers(r), 1, i - 1) \in Seq(LayerSet)
    BY <2>2, <2>3, SubSeqProperties
  <2> QED BY <2>4, <1>1, ConcatProperties DEF Contexts
<1>4. kept(1) = ambient[f]
  <2>1. SubSeq(Layers(r), 1, 1 - 1) = <<>>
    BY <1>1, SubSeqEmpty
  <2> QED BY <2>1, <1>1, ConcatEmptySeq
<1> HIDE DEF kept
<1>5. /\ tokens \in Seq(Tokens) /\ Len(tokens) = Len(Layers(r))
      /\ tokens[1] = [flow |-> f, old |-> kept(1)]
  <2>1. tokens \in [1..Len(Layers(r)) -> Tokens]
    BY <1>2, <1>3 DEF Tokens
  <2>2. DOMAIN tokens = 1..Len(Layers(r))
    BY <1>2
  <2>3. 1 \in DOMAIN Layers(r)
    <3>1. \A n \in 1..3 : 1 \in 1..n
      OBVIOUS
    <3> QED BY <3>1, <1>1, <1>2
  <2>4. tokens[1] = [flow |-> f, old |-> kept(1)]
    BY <2>3
  <2> HIDE DEF tokens
  <2> QED BY <2>1, <2>2, <2>4, <1>2, LenProperties
<1> HIDE DEF tokens
<1>7. h.tokens = tokens /\ h.children = {}
  BY ONLY <1>6
<1>8. h \in Holders
  BY ONLY <1>5, <1>6 DEF Holders
<1>9. tokens[1].flow = f /\ tokens[1].old = ambient[f]
  BY ONLY <1>4, <1>5
<1>10. Len(tokens) \in 1..3
  BY ONLY <1>1, <1>5
<1> QED BY ONLY <1>7, <1>8, <1>9, <1>10 DEF h

\* What the start of a run that is traced does to the holders.
Opens(r, p, f) ==
  /\ holder'[r] = <<holder'[r][1]>> /\ holder'[r][1] \in Holders
  /\ Len(holder'[r][1].tokens) \in 1..3 /\ holder'[r][1].children = {}
  /\ holder'[r][1].tokens[1].flow = f /\ holder'[r][1].tokens[1].old = ambient[f]
  /\ \A q \in Runs \ {r} : Open(q) =>
       /\ holder'[q] = <<holder'[q][1]>> /\ holder'[q][1] \in Holders
       /\ holder'[q][1].tokens = holder[q][1].tokens
       /\ holder'[q][1].children =
            IF q \in p THEN holder[q][1].children \cup {r} ELSE holder[q][1].children
  /\ \A q \in Runs \ {r} : ~Open(q) => holder'[q] = <<>>
  /\ holder' = [q \in Runs |-> holder'[q]]

LEMMA TracedStart ==
  ASSUME IInv, NEW r \in Runs, NEW p \in SUBSET (Runs \ {r}), NEW f \in Flows,
         Start(r, p, f), CreateSpan(r, p, f)
  PROVE  Opens(r, p, f)
<1> DEFINE h == Holding(r, f)
<1>1. holder' = [q \in Runs |->
                   IF q = r THEN <<h>>
                   ELSE IF q \in p /\ holder[q] # <<>>
                     THEN <<[holder[q][1] EXCEPT !.children = @ \cup {r}]>>
                   ELSE holder[q]]
  BY DEF CreateSpan, Holding
<1>2. /\ h \in Holders /\ Len(h.tokens) \in 1..3 /\ h.children = {}
      /\ h.tokens[1].flow = f /\ h.tokens[1].old = ambient[f]
  BY NewHolder
<1> HIDE DEF h
<1>3. holder'[r] = <<h>>
  BY <1>1
<1>4. ASSUME NEW q \in Runs \ {r}, Open(q)
      PROVE  /\ holder'[q] = <<holder'[q][1]>> /\ holder'[q][1] \in Holders
             /\ holder'[q][1].tokens = holder[q][1].tokens
             /\ holder'[q][1].children =
                  IF q \in p THEN holder[q][1].children \cup {r} ELSE holder[q][1].children
  <2> DEFINE old == holder[q][1]
             new == [old EXCEPT !.children = @ \cup {r}]
  <2>1. holder[q] = <<old>> /\ old \in Holders
    <3>1. holder[q] \in Seq(Holders) /\ holder[q] = <<holder[q][1]>>
      BY <1>4, Typed DEF RunTypes, HolderFits
    <3>2. 1 \in DOMAIN holder[q]
      BY <3>1
    <3> QED BY <3>1, <3>2, ElementOfSeq
  <2>2. /\ new \in Holders /\ new.tokens = old.tokens
        /\ new.children = old.children \cup {r}
    BY <2>1 DEF Holders
  <2>3. CASE q \in p
    <3>1. holder'[q] = <<new>>
      BY <1>1, <1>4, <2>3 DEF Open
    <3> HIDE DEF new
    <3>2. holder'[q][1] = new
      BY <3>1
    <3> QED BY <3>1, <3>2, <2>2, <2>3
  <2>4. CASE q \notin p
    <3>1. holder'[q] = holder[q]
      BY <1>1, <2>4
    <3> QED BY <3>1, <2>1, <2>4
  <2> QED BY <2>3, <2>4
<1>5. \A q \in Runs \ {r} : ~Open(q) => holder'[q] = <<>>
  BY <1>1 DEF Open
<1>6. holder' = [q \in Runs |-> holder'[q]]
  BY <1>1
<1>7. holder'[r][1] = h
  BY <1>3
<1> QED BY <1>2, <1>3, <1>4, <1>5, <1>6, <1>7 DEF Opens

\* One run, or none, as a sequence.
LEMMA OneOrNone ==
  \A a, b : <<a>> # <<>> /\ (<<a>> = <<b>> <=> a = b)
OBVIOUS

\* What the start of a run says of it and of the run above it.
Begins(r, p, f) ==
  /\ state[r] = "idle" /\ parent[r] = <<>> /\ r \notin started /\ r \notin astray
  /\ ends[r] = 0 /\ ~Open(r)
  /\ state'[r] = "running" /\ flow'[r] = f
  /\ \A q \in Runs \ {r} : state'[q] = state[q] /\ flow'[q] = flow[q]
                           /\ parent'[q] = parent[q]
  /\ \/ p = {} /\ parent'[r] = <<>>
     \/ \E q \in Runs \ {r} : /\ p = {q} /\ parent'[r] = <<q>>
                              /\ state[q] = "running"
  /\ \A q \in Runs : parent[q] # <<r>>
  /\ \A q \in Runs : parent[q] # <<>> => parent[q][1] # r
  /\ \A q \in p : q \in started <=> Open(q)
  /\ state' \in [Runs -> {"idle", "running", "over"}] /\ flow' \in [Runs -> Flows]
  /\ parent' \in [Runs -> Seq(Runs)]
  /\ UNCHANGED <<kind, ends, failed, muted>>

LEMMA Starts ==
  ASSUME IInv, NEW r \in Runs, NEW p \in SUBSET (Runs \ {r}), NEW f \in Flows,
         p = {} \/ \E q \in Runs \ {r} : p = {q}, Start(r, p, f)
  PROVE  Begins(r, p, f)
<1>1. RunTypes /\ \A q \in Runs : HolderFits(q) /\ EndFits(q) /\ ParentFits(q)
  BY Typed
<1>2. /\ state[r] = "idle" /\ (\A q \in p : state[q] = "running")
      /\ state' = [state EXCEPT ![r] = "running"]
      /\ flow' = [flow EXCEPT ![r] = f]
      /\ parent' = [parent EXCEPT ![r] = IF p = {} THEN <<>> ELSE <<CHOOSE q \in p : TRUE>>]
      /\ UNCHANGED <<kind, ends, failed, muted>>
  BY DEF Start
<1>3. parent[r] = <<>> /\ r \notin started /\ r \notin astray
  BY <1>1, <1>2 DEF ParentFits
<1>4. ends[r] = 0 /\ ~Open(r)
  BY <1>1, <1>3 DEF EndFits, HolderFits
<1>5. /\ state'[r] = "running" /\ flow'[r] = f
      /\ \A q \in Runs \ {r} : state'[q] = state[q] /\ flow'[q] = flow[q]
                               /\ parent'[q] = parent[q]
  BY <1>1, <1>2 DEF RunTypes
<1>6. \/ p = {} /\ parent'[r] = <<>>
      \/ \E q \in Runs \ {r} : p = {q} /\ parent'[r] = <<q>> /\ state[q] = "running"
  <2>1. CASE p = {}
    BY <1>1, <1>2, <2>1 DEF RunTypes
  <2>2. ASSUME NEW q \in Runs \ {r}, p = {q}
        PROVE  parent'[r] = <<q>> /\ state[q] = "running"
    <3>1. (CHOOSE x \in p : TRUE) = q
      BY <2>2
    <3> QED BY <1>1, <1>2, <2>2, <3>1 DEF RunTypes
  <2> QED BY <2>1, <2>2
<1>7. \A q \in Runs : parent[q] # <<>> => parent[q][1] # r
  BY <1>1, <1>2 DEF ParentFits
<1>8. \A q \in Runs : parent[q] # <<r>>
  BY <1>7
<1>9. \A q \in p : q \in started <=> Open(q)
  <2> TAKE q \in p
  <2>1. state[q] = "running" /\ q \in Runs
    BY <1>2
  <2>2. q \in started /\ ~Open(q) => state[q] = "over"
    BY <1>1, <2>1 DEF HolderFits
  <2>3. Open(q) => q \in started
    BY <1>1, <2>1 DEF HolderFits
  <2> QED BY <2>1, <2>2, <2>3
<1>10. /\ state' \in [Runs -> {"idle", "running", "over"}] /\ flow' \in [Runs -> Flows]
       /\ parent' \in [Runs -> Seq(Runs)]
  <2>1. (IF p = {} THEN <<>> ELSE <<CHOOSE q \in p : TRUE>>) \in Seq(Runs)
    <3>1. p # {} => (CHOOSE q \in p : TRUE) \in Runs
      OBVIOUS
    <3> QED BY <3>1
  <2> QED BY <1>1, <1>2, <2>1 DEF RunTypes
<1> QED BY ONLY <1>2, <1>3, <1>4, <1>5, <1>6, <1>7, <1>8, <1>9, <1>10 DEF Begins

\* The span above the new one is a run's.
LEMMA NewAbove ==
  ASSUME IInv, NEW r \in Runs, NEW p \in SUBSET Runs, NEW f \in Flows, CreateSpan(r, p, f)
  PROVE  /\ above' \in [Runs -> Seq(Runs)]
         /\ \A q \in Runs \ {r} : above'[q] = above[q]
         /\ above'[r] = <<>> \/ above'[r] = <<above'[r][1]>>
         /\ above'[r] = <<>> \/ above'[r] \in ParentSpan(p, f)
         /\ ParentSpan(p, f) # {} => above'[r] \in ParentSpan(p, f)
<1> DEFINE span == IF ParentSpan(p, f) = {} THEN <<>>
                   ELSE CHOOSE s \in ParentSpan(p, f) : TRUE
<1>1. above' = [above EXCEPT ![r] = span] /\ above \in [Runs -> Seq(Runs)]
  BY Typed DEF CreateSpan, RunTypes
<1>2. \A s \in ParentSpan(p, f) : \E q \in Runs : s = <<q>>
  BY DEF ParentSpan
<1>3. /\ span = <<>> \/ span \in ParentSpan(p, f)
      /\ ParentSpan(p, f) # {} => span \in ParentSpan(p, f)
  OBVIOUS
<1> HIDE DEF span
<1>4. span = <<>> \/ \E q \in Runs : span = <<q>>
  BY <1>2, <1>3
<1>5. span \in Seq(Runs) /\ (span = <<>> \/ span = <<span[1]>>)
  <2>1. CASE span = <<>>
    BY <2>1
  <2>2. ASSUME NEW q \in Runs, span = <<q>>
        PROVE  span \in Seq(Runs) /\ span = <<span[1]>>
    <3>1. span[1] = q
      BY ONLY <2>2
    <3> QED BY ONLY <2>2, <3>1
  <2> QED BY <1>4, <2>1, <2>2
<1>6. above'[r] = span /\ \A q \in Runs \ {r} : above'[q] = above[q]
  BY <1>1
<1>7. above' \in [Runs -> Seq(Runs)]
  BY <1>1, <1>5
<1> QED BY ONLY <1>3, <1>5, <1>6, <1>7

\* A run that is traced from its start.
LEMMA TracedKeepsRuns ==
  ASSUME IInv, NEW r \in Runs, NEW p \in SUBSET (Runs \ {r}), NEW f \in Flows,
         p = {} \/ \E q \in Runs \ {r} : p = {q}, Start(r, p, f),
         f \notin muted, CreateSpan(r, p, f)
  PROVE  RunIInv'
<1>20. Begins(r, p, f)
  BY Starts
<1>21. Opens(r, p, f)
  BY TracedStart
<1>1. RunTypes /\ \A q \in Runs : HolderFits(q) /\ EndFits(q) /\ ParentFits(q)
  BY Typed
<1>2. started' = started \cup {r} /\ astray' = astray
  BY DEF CreateSpan, Start
<1>3. Open(r)' /\ \A q \in Runs \ {r} : Open(q)' <=> Open(q)
  <2>1. /\ holder'[r] = <<holder'[r][1]>>
        /\ \A q \in Runs \ {r} : Open(q) => holder'[q] = <<holder'[q][1]>>
        /\ \A q \in Runs \ {r} : ~Open(q) => holder'[q] = <<>>
    BY <1>21 DEF Opens
  <2> QED BY <2>1, OneOrNone DEF Open
<1>4. RunTypes'
  <2>1. holder' \in [Runs -> Seq(Holders)]
    <3>1. \A x \in Holders : <<x>> \in Seq(Holders)
      OBVIOUS
    <3>4. <<>> \in Seq(Holders)
      OBVIOUS
    <3>3. ASSUME NEW q \in Runs
          PROVE  holder'[q] \in Seq(Holders)
      <4>1. \/ holder'[q] = <<>>
            \/ holder'[q] = <<holder'[q][1]>> /\ holder'[q][1] \in Holders
        BY <1>21 DEF Opens
      <4> QED BY <3>1, <3>4, <4>1
    <3>2. holder' = [q \in Runs |-> holder'[q]]
      BY <1>21 DEF Opens
    <3> QED BY <3>2, <3>3
  <2>2. above' \in [Runs -> Seq(Runs)]
    BY NewAbove
  <2> QED BY <1>1, <1>2, <2>1, <2>2, <1>20 DEF RunTypes, Begins
<1>5. ASSUME NEW q \in Runs, BelowOver(q)
      PROVE  BelowOver(q)'
  <2>1. parent[q][1] \in Runs /\ parent[q] # <<>> /\ state[parent[q][1]] = "over"
    BY <1>1, <1>5 DEF BelowOver, ParentFits
  <2>2. parent[q][1] # r /\ q # r
    BY <1>20, <2>1 DEF Begins
  <2> QED BY <1>20, <2>1, <2>2 DEF BelowOver, Begins
<1>6. HolderFits(r)'
  <2>1. {q \in started' : parent'[q] = <<r>>} = {}
    BY <1>1, <1>2, <1>20 DEF RunTypes, Begins
  <2>2. /\ holder'[r] = <<holder'[r][1]>> /\ Len(holder'[r][1].tokens) \in 1..3
        /\ holder'[r][1].tokens[1].flow = flow'[r] /\ holder'[r][1].children = {}
    BY <1>21, <1>20 DEF Opens, Begins
  <2>3. r \in started' /\ state'[r] = "running"
    BY <1>2, <1>20 DEF Begins
  <2> QED BY <1>3, <2>1, <2>2, <2>3 DEF HolderFits
<1>7. ASSUME NEW q \in Runs \ {r}
      PROVE  HolderFits(q)'
  <2>1. CASE Open(q)
    <3>1. /\ holder'[q] = <<holder'[q][1]>>
          /\ holder'[q][1].tokens = holder[q][1].tokens
          /\ holder'[q][1].children =
               IF q \in p THEN holder[q][1].children \cup {r} ELSE holder[q][1].children
      BY <2>1, <1>21 DEF Opens
    <3>2. /\ Len(holder[q][1].tokens) \in 1..3
          /\ holder[q][1].tokens[1].flow = flow[q]
          /\ holder[q][1].children = {s \in started : parent[s] = <<q>>}
          /\ q \in started /\ (state[q] = "running" \/ q \in astray)
      BY <1>1, <2>1 DEF HolderFits
    <3>3. holder'[q][1].children = {s \in started' : parent'[s] = <<q>>}
      <4>1. parent'[r] = <<q>> <=> q \in p
        <5>1. \/ p = {} /\ parent'[r] = <<>>
              \/ \E s \in Runs : p = {s} /\ parent'[r] = <<s>>
          BY <1>20 DEF Begins
        <5> QED BY <5>1, OneOrNone
      <4>2. \A s \in started : s \in Runs \ {r} /\ parent'[s] = parent[s]
        BY <1>1, <1>20 DEF RunTypes, Begins
      <4> QED BY <1>2, <3>1, <3>2, <4>1, <4>2
    <3>4. flow'[q] = flow[q] /\ state'[q] = state[q]
      BY <1>20 DEF Begins
    <3> QED BY <1>2, <1>3, <2>1, <3>1, <3>2, <3>3, <3>4 DEF HolderFits
  <2>2. CASE ~Open(q)
    <3>1. q \in started => state[q] = "over" /\ ends[q] > 0
      BY <1>1, <2>2 DEF HolderFits
    <3>2. state'[q] = state[q] /\ ends'[q] = ends[q] /\ (q \in started' <=> q \in started)
      BY <1>2, <1>20 DEF Begins
    <3> QED BY <1>3, <2>2, <3>1, <3>2 DEF HolderFits
  <2> QED BY <2>1, <2>2
<1>8. EndFits(r)'
  BY <1>2, <1>20 DEF EndFits, Begins
<1>9. ASSUME NEW q \in Runs \ {r}
      PROVE  EndFits(q)'
  <2>1. /\ state'[q] = state[q] /\ ends'[q] = ends[q] /\ (q \in started' <=> q \in started)
        /\ (Open(q)' <=> Open(q)) /\ astray' = astray
    BY <1>2, <1>3, <1>20 DEF Begins
  <2> QED BY <1>1, <1>5, <2>1 DEF EndFits
<1>10. ParentFits(r)'
  <2>1. above'[r] = <<>> \/ above'[r] = <<above'[r][1]>>
    BY NewAbove
  <2>2. parent'[r] # <<>> => /\ parent'[r] = <<parent'[r][1]>> /\ parent'[r][1] \in Runs
                             /\ state'[parent'[r][1]] # "idle"
    BY <1>20 DEF Begins
  <2>3. ASSUME NEW x \in started', parent'[r] = <<x>>
        PROVE  Open(x)'
    <3>1. x \in p /\ x \in Runs \ {r} /\ x \in started
      BY <1>2, <2>3, <1>20 DEF Begins
    <3>2. Open(x)
      BY <3>1, <1>20 DEF Begins
    <3> QED BY <1>3, <3>1, <3>2
  <2>4. r \in started' /\ state'[r] # "idle"
    BY <1>2, <1>20 DEF Begins
  <2> QED BY <2>1, <2>2, <2>3, <2>4 DEF ParentFits
<1>11. ASSUME NEW q \in Runs \ {r}
       PROVE  ParentFits(q)'
  <2>1. /\ state'[q] = state[q] /\ parent'[q] = parent[q] /\ above'[q] = above[q]
        /\ ends' = ends /\ astray' = astray /\ kind' = kind
        /\ (q \in started' <=> q \in started)
    BY <1>2, <1>20, NewAbove DEF Begins
  <2>2. parent[q] # <<>> => /\ parent[q] = <<parent[q][1]>> /\ parent[q][1] \in Runs \ {r}
                            /\ state[parent[q][1]] # "idle"
    BY <1>1, <1>20 DEF ParentFits, Begins
  <2>3. parent[q] # <<>> => state'[parent[q][1]] # "idle"
                            /\ (parent[q][1] \in started' => parent[q][1] \in started)
    BY <1>2, <2>2, <1>20 DEF Begins
  <2>4. ASSUME NEW x \in started', parent[q] = <<x>>
        PROVE  x \in started /\ (Open(x)' <=> Open(x))
    BY <1>1, <1>2, <1>3, <2>4, <1>20 DEF RunTypes, Begins
  <2> QED BY <1>1, <2>1, <2>2, <2>3, <2>4 DEF ParentFits
<1> QED BY <1>4, <1>6, <1>7, <1>8, <1>9, <1>10, <1>11 DEF RunIInv

\* A run that is not traced.
LEMMA UntracedKeepsRuns ==
  ASSUME IInv, NEW r \in Runs, NEW p \in SUBSET (Runs \ {r}), NEW f \in Flows,
         p = {} \/ \E q \in Runs \ {r} : p = {q}, Start(r, p, f),
         ~(f \notin muted /\ Traceable(r, p))
  PROVE  RunIInv'
<1>1. RunTypes /\ \A q \in Runs : HolderFits(q) /\ EndFits(q) /\ ParentFits(q)
  BY Typed
<1>2. Begins(r, p, f)
  BY Starts
<1>3. /\ UNCHANGED <<ambient, holder, above, started>>
      /\ astray' = IF f \in muted THEN astray \cup {r} ELSE astray
  BY DEF Start
<1>4. \A q \in Runs : Open(q)' <=> Open(q)
  BY <1>3 DEF Open
<1>5. RunTypes'
  BY <1>1, <1>2, <1>3 DEF RunTypes, Begins
<1>6. ASSUME NEW q \in Runs, BelowOver(q)
      PROVE  BelowOver(q)'
  <2>1. parent[q][1] \in Runs /\ parent[q] # <<>> /\ state[parent[q][1]] = "over"
    BY <1>1, <1>6 DEF BelowOver, ParentFits
  <2>2. parent[q][1] # r /\ q # r
    BY <1>2, <2>1 DEF Begins
  <2> QED BY <1>2, <2>1, <2>2 DEF BelowOver, Begins
<1>7. HolderFits(r)' /\ EndFits(r)'
  BY <1>2, <1>3, <1>4 DEF Begins, HolderFits, EndFits
<1>8. ASSUME NEW q \in Runs \ {r}
      PROVE  HolderFits(q)'
  <2>1. /\ state'[q] = state[q] /\ flow'[q] = flow[q] /\ holder' = holder
        /\ ends' = ends /\ started' = started /\ (q \in astray => q \in astray')
    BY <1>2, <1>3 DEF Begins
  <2>2. {s \in started' : parent'[s] = <<q>>} = {s \in started : parent[s] = <<q>>}
    BY <1>1, <1>2, <1>3 DEF Begins, RunTypes
  <2> QED BY <1>1, <1>4, <2>1, <2>2 DEF HolderFits
<1>9. ASSUME NEW q \in Runs \ {r}
      PROVE  EndFits(q)'
  <2>1. /\ state'[q] = state[q] /\ ends' = ends /\ started' = started
        /\ (q \in astray => q \in astray')
    BY <1>2, <1>3 DEF Begins
  <2> QED BY <1>1, <1>4, <1>6, <2>1 DEF EndFits
<1>10. ParentFits(r)'
  <2>1. above'[r] = <<>> \/ above'[r] = <<above'[r][1]>>
    BY <1>1, <1>3 DEF ParentFits
  <2>2. parent'[r] # <<>> => /\ parent'[r] = <<parent'[r][1]>> /\ parent'[r][1] \in Runs
                             /\ state'[parent'[r][1]] # "idle"
    BY <1>2 DEF Begins
  <2>3. r \notin started' /\ state'[r] # "idle" /\ kind'[r] = kind[r]
    BY <1>2, <1>3 DEF Begins
  <2>4. ASSUME r \notin astray', kind[r] # "retriever"
        PROVE  kind[r] # "chain" /\ parent'[r] # <<>> /\ parent'[r][1] \notin started
    <3>1. f \notin muted /\ ~Traceable(r, p)
      BY <1>3, <2>4
    <3>2. kind[r] # "chain" /\ \E q \in p : ~Open(q)
      BY <2>4, <3>1 DEF Traceable, Open
    <3>3. PICK q \in Runs \ {r} : p = {q} /\ parent'[r] = <<q>>
      BY <1>2, <3>2 DEF Begins
    <3>4. q \notin started
      BY <1>2, <3>2, <3>3 DEF Begins
    <3>5. parent'[r] # <<>> /\ parent'[r][1] = q
      BY ONLY <3>3
    <3> QED BY <3>2, <3>4, <3>5
  <2> QED BY <1>3, <2>1, <2>2, <2>3, <2>4 DEF ParentFits
<1>11. ASSUME NEW q \in Runs \ {r}
       PROVE  ParentFits(q)'
  <2>1. /\ state'[q] = state[q] /\ parent'[q] = parent[q] /\ above' = above
        /\ ends' = ends /\ kind' = kind /\ started' = started
        /\ (q \in astray' <=> q \in astray)
    BY <1>2, <1>3 DEF Begins
  <2>2. parent[q] # <<>> => /\ parent[q] = <<parent[q][1]>> /\ parent[q][1] \in Runs \ {r}
                            /\ state[parent[q][1]] # "idle"
    BY <1>1, <1>2 DEF ParentFits, Begins
  <2>3. parent[q] # <<>> => state'[parent[q][1]] # "idle"
    BY <1>2, <2>2 DEF Begins
  <2>4. \A x \in started : Open(x)' <=> Open(x)
    BY <1>1, <1>4 DEF RunTypes
  <2> QED BY <1>1, <2>1, <2>2, <2>3, <2>4 DEF ParentFits
<1> QED BY <1>5, <1>7, <1>8, <1>9, <1>10, <1>11 DEF RunIInv

LEMMA StartKeepsRuns ==
  ASSUME IInv, NEW r \in Runs, NEW p \in SUBSET (Runs \ {r}), NEW f \in Flows,
         p = {} \/ \E q \in Runs \ {r} : p = {q}, Start(r, p, f)
  PROVE  RunIInv'
<1>1. CASE f \notin muted /\ Traceable(r, p)
  <2>1. CreateSpan(r, p, f) /\ f \notin muted
    BY <1>1 DEF Start
  <2> QED BY <2>1, TracedKeepsRuns
<1>2. CASE ~(f \notin muted /\ Traceable(r, p))
  BY <1>2, UntracedKeepsRuns
<1> QED BY <1>1, <1>2

-----------------------------------------------------------------------------
(* A run ends. *)

\* A callback that finds instrumentation off, or no holder.
LEMMA MissedKeepsRuns ==
  ASSUME IInv, NEW r \in Runs, NEW f \in Flows, NEW how, End(r, f, how),
         f \in muted \/ holder[r] = <<>>
  PROVE  RunIInv'
<1>1. RunTypes /\ \A q \in Runs : HolderFits(q) /\ EndFits(q) /\ ParentFits(q)
  BY Typed
<1>2. /\ state[r] = "running" /\ state' = [state EXCEPT ![r] = "over"]
      /\ UNCHANGED <<ambient, holder, ends, failed, kind, parent, flow, above, started, muted>>
      /\ astray' = IF f \in muted THEN astray \cup {r} ELSE astray
  BY DEF End
<1>3. state'[r] = "over" /\ \A q \in Runs \ {r} : state'[q] = state[q]
  BY <1>1, <1>2 DEF RunTypes
<1>4. \A q \in Runs : Open(q)' <=> Open(q)
  BY <1>2 DEF Open
<1>5. RunTypes'
  BY <1>1, <1>2 DEF RunTypes
<1>6. ASSUME NEW q \in Runs
      PROVE  /\ BelowOver(q) => BelowOver(q)'
             /\ q \in astray => q \in astray'
             /\ state'[q] = "idle" <=> state[q] = "idle"
  <2>1. parent[q] # <<>> => parent[q][1] \in Runs
    BY <1>1 DEF ParentFits
  <2> QED BY <1>2, <1>3, <2>1 DEF BelowOver
<1>7. Open(r) => r \in astray'
  BY <1>2 DEF Open
<1>8. r \in started => Open(r)
  BY <1>1, <1>2 DEF HolderFits
<1>9. ASSUME NEW q \in Runs
      PROVE  HolderFits(q)'
  <2>1. q # r => state'[q] = state[q]
    BY <1>3
  <2> QED BY <1>1, <1>2, <1>4, <1>6, <1>7, <1>8, <2>1 DEF HolderFits
<1>10. ASSUME NEW q \in Runs
       PROVE  EndFits(q)'
  <2>1. q # r => state'[q] = state[q]
    BY <1>3
  <2> QED BY <1>1, <1>2, <1>4, <1>6, <1>7, <1>8, <2>1 DEF EndFits
<1>11. ASSUME NEW q \in Runs
       PROVE  ParentFits(q)'
  <2>1. parent[q] # <<>> => state'[parent[q][1]] # "idle"
    BY <1>1, <1>6 DEF ParentFits
  <2>2. q \in astray' /\ q \notin astray => state[q] # "idle"
    BY <1>2
  <2>3. \A x \in started : Open(x)' <=> Open(x)
    BY <1>1, <1>4 DEF RunTypes
  <2> QED BY <1>1, <1>2, <1>6, <2>1, <2>2, <2>3 DEF ParentFits
<1> QED BY <1>5, <1>9, <1>10, <1>11 DEF RunIInv

\* A callback that finds the holder.
LEMMA EndedKeepsRuns ==
  ASSUME IInv, NEW r \in Runs, NEW f \in Flows, NEW how, End(r, f, how),
         ~(f \in muted \/ holder[r] = <<>>)
  PROVE  RunIInv'
<1>1. RunTypes /\ \A q \in Runs : HolderFits(q) /\ EndFits(q) /\ ParentFits(q)
  BY Typed
<1>2. /\ state[r] = "running" /\ state' = [state EXCEPT ![r] = "over"]
      /\ EndSpan(r, f, how)
      /\ failed' = IF how = "error" /\ ends[r] = 0 THEN failed \cup {r} ELSE failed
      /\ UNCHANGED <<kind, parent, flow, above, started, muted>>
  BY DEF End
<1>3. /\ ends' = [q \in Runs |-> IF q \in Closed(r) THEN ends[q] + 1 ELSE ends[q]]
      /\ holder' = [holder EXCEPT ![r] = <<>>]
      /\ astray \subseteq astray' /\ astray' \subseteq astray \cup {r}
  BY <1>2 DEF EndSpan
<1>4. state'[r] = "over" /\ \A q \in Runs \ {r} : state'[q] = state[q]
  BY <1>1, <1>2 DEF RunTypes
<1>5. Open(r) /\ r \in started
  BY <1>1 DEF HolderFits, Open
<1>6. /\ ~Open(r)' /\ \A q \in Runs \ {r} : holder'[q] = holder[q] /\ (Open(q)' <=> Open(q))
  BY <1>1, <1>3 DEF Open, RunTypes
<1>7. holder[r][1].children = {q \in started : parent[q] = <<r>>}
  BY <1>1, <1>5 DEF HolderFits
<1>8. /\ r \in Closed(r)
      /\ \A q \in Runs \ {r} : q \in Closed(r) <=>
           q \in started /\ parent[q] = <<r>> /\ Open(q) /\ ends[q] = 0
  BY <1>1, <1>7 DEF Closed, Open, RunTypes
<1>9. /\ ends'[r] = ends[r] + 1
      /\ \A q \in Runs : ends'[q] = IF q \in Closed(r) THEN ends[q] + 1 ELSE ends[q]
  BY <1>3, <1>8
<1>10. RunTypes'
  <2>1. \A n \in Nat : n + 1 \in Nat
    OBVIOUS
  <2>2. ends' \in [Runs -> Nat]
    BY <1>1, <1>3, <2>1 DEF RunTypes
  <2>3. holder' \in [Runs -> Seq(Holders)]
    <3>1. <<>> \in Seq(Holders)
      OBVIOUS
    <3> QED BY <1>1, <1>3, <3>1 DEF RunTypes
  <2> QED BY <1>1, <1>2, <1>3, <1>5, <2>2, <2>3 DEF RunTypes
<1>11. ASSUME NEW q \in Runs
       PROVE  /\ BelowOver(q) => BelowOver(q)'
              /\ parent[q] = <<r>> => BelowOver(q)'
              /\ state'[q] = "idle" <=> state[q] = "idle"
  <2>1. parent[q] # <<>> => parent[q][1] \in Runs
    BY <1>1 DEF ParentFits
  <2>2. ASSUME parent[q] = <<r>>
        PROVE  parent[q] # <<>> /\ parent[q][1] = r
    BY ONLY <2>2
  <2> QED BY <1>2, <1>4, <2>1, <2>2 DEF BelowOver
<1>12. HolderFits(r)'
  <2>1. ends[r] \in Nat
    BY <1>1 DEF RunTypes
  <2>2. ends'[r] > 0
    BY <1>9, <2>1
  <2> QED BY <1>4, <1>6, <2>2 DEF HolderFits
<1>13. ASSUME NEW q \in Runs \ {r}
       PROVE  HolderFits(q)'
  <2>1. ends[q] \in Nat /\ (ends[q] > 0 => ends'[q] > 0)
    <3>1. ends[q] \in Nat
      BY <1>1 DEF RunTypes
    <3>2. ends'[q] = ends[q] \/ ends'[q] = ends[q] + 1
      BY <1>9
    <3> QED BY ONLY <3>1, <3>2
  <2>2. /\ state'[q] = state[q] /\ holder'[q] = holder[q] /\ (Open(q)' <=> Open(q))
        /\ flow' = flow /\ parent' = parent /\ started' = started
        /\ (q \in astray => q \in astray')
    BY <1>2, <1>3, <1>4, <1>6
  <2> QED BY <1>1, <2>1, <2>2 DEF HolderFits
<1>14. EndFits(r)'
  <2>1. /\ ends[r] \in 0..2 /\ (ends[r] > 0 => ends[r] = 1 /\ BelowOver(r))
    BY <1>1, <1>5 DEF EndFits
  <2>2. ends'[r] \in 1..2 /\ (ends'[r] = 2 => BelowOver(r))
    BY <1>9, <2>1
  <2> QED BY <1>2, <1>5, <1>6, <1>11, <2>2 DEF EndFits
<1>15. ASSUME NEW q \in Runs \ {r}
       PROVE  EndFits(q)'
  <2>1. CASE q \in Closed(r)
    <3>1. q \in started /\ parent[q] = <<r>> /\ Open(q) /\ ends'[q] = 1
      BY <1>8, <1>9, <2>1
    <3> QED BY <1>2, <1>11, <3>1 DEF EndFits
  <2>2. CASE q \notin Closed(r)
    <3>1. /\ state'[q] = state[q] /\ ends'[q] = ends[q] /\ (Open(q)' <=> Open(q))
          /\ started' = started /\ (q \in astray => q \in astray')
      BY <1>2, <1>3, <1>4, <1>6, <1>9, <2>2
    <3> QED BY <1>1, <1>11, <3>1 DEF EndFits
  <2> QED BY <2>1, <2>2
<1>16. ASSUME NEW q \in Runs
       PROVE  ParentFits(q)'
  <2>1. parent[q] # <<>> => state'[parent[q][1]] # "idle"
    BY <1>1, <1>11 DEF ParentFits
  <2>2. q \in astray' /\ q \notin astray => state[q] # "idle"
    BY <1>2, <1>3
  <2>3. ends[q] \in Nat /\ (ends[q] > 0 => ends'[q] > 0)
    <3>1. ends[q] \in Nat
      BY <1>1 DEF RunTypes
    <3>2. ends'[q] = ends[q] \/ ends'[q] = ends[q] + 1
      BY <1>9
    <3> QED BY ONLY <3>1, <3>2
  <2>4. ASSUME NEW p \in started, parent[q] = <<p>>, q \in started, ~Open(p)'
        PROVE  ends'[q] > 0
    <3>1. CASE p # r
      <4>1. ~Open(p)
        BY <1>1, <1>6, <2>4, <3>1 DEF RunTypes
      <4> QED BY <1>1, <2>3, <2>4, <4>1 DEF ParentFits
    <3>2. CASE p = r /\ q = r
      BY <1>9, <2>3, <3>2
    <3>3. CASE p = r /\ q # r
      <4>1. ends[q] = 0 => q \in Closed(r)
        <5>1. ~Open(q) => ends[q] > 0
          BY <1>1, <2>4 DEF HolderFits
        <5> QED BY <1>8, <2>3, <2>4, <3>3, <5>1
      <4>2. ends[q] = 0 => ends'[q] = 0 + 1
        BY <1>9, <4>1
      <4>3. ends[q] # 0 => ends[q] > 0
        BY <2>3
      <4> QED BY <2>3, <4>2, <4>3
    <3> QED BY <3>1, <3>2, <3>3
  <2> QED BY <1>1, <1>2, <1>3, <1>11, <2>1, <2>2, <2>4 DEF ParentFits
<1> QED BY <1>10, <1>12, <1>13, <1>14, <1>15, <1>16 DEF RunIInv

LEMMA EndKeepsRuns ==
  ASSUME IInv, NEW r \in Runs, NEW f \in Flows, NEW how, End(r, f, how)
  PROVE  RunIInv'
BY MissedKeepsRuns, EndedKeepsRuns

\* Nothing happens to the runs.
LEMMA OthersKeepRuns ==
  ASSUME IInv, muted' \subseteq Flows,
         UNCHANGED <<state, kind, parent, flow, holder, above, started, ends, failed, astray>>
  PROVE  RunIInv'
<1>1. RunTypes /\ \A q \in Runs : HolderFits(q) /\ EndFits(q) /\ ParentFits(q)
  BY Typed
<1>2. \A q \in Runs : (Open(q)' <=> Open(q)) /\ (BelowOver(q)' <=> BelowOver(q))
  BY DEF Open, BelowOver
<1>3. RunTypes'
  BY <1>1 DEF RunTypes
<1>4. \A q \in Runs : HolderFits(q)' /\ EndFits(q)'
  BY <1>1, <1>2 DEF HolderFits, EndFits
<1>5. \A q \in Runs : ParentFits(q)'
  <2>1. \A p \in started : Open(p)' <=> Open(p)
    BY <1>1, <1>2 DEF RunTypes
  <2> QED BY <1>1, <2>1 DEF ParentFits
<1> QED BY <1>3, <1>4, <1>5 DEF RunIInv

-----------------------------------------------------------------------------
(* What is current. *)

LEMMA TracedKeepsContexts ==
  ASSUME IInv, NEW r \in Runs, NEW p \in SUBSET (Runs \ {r}), NEW f \in Flows,
         p = {} \/ \E q \in Runs \ {r} : p = {q}, Start(r, p, f),
         f \notin muted, CreateSpan(r, p, f)
  PROVE  ContextIInv'
<1>1. /\ ambient \in [Flows -> Contexts]
      /\ \A g \in Flows : Sound(ambient[g])
      /\ \A q \in Runs : Open(q) => Sound(Old(q))
      /\ \A g \in Flows : Orderly(g) => Stacked(g)
  BY DEF IInv, ContextIInv
<1>2. Begins(r, p, f) /\ Opens(r, p, f)
  BY Starts, TracedStart
<1>3. started' = started \cup {r} /\ astray' = astray /\ kind' = kind
  BY <1>2 DEF CreateSpan, Start
<1>4. ambient' = [ambient EXCEPT ![f] = ambient[f] \o Layers(r)]
  BY DEF CreateSpan, Attach
<1>5. /\ ambient[f] \in Contexts /\ Layers(r) \in Contexts /\ Owners(Layers(r)) = {r}
      /\ ambient[f] \o Layers(r) \in Contexts
      /\ Owners(ambient[f] \o Layers(r)) = Owners(ambient[f]) \cup {r}
  BY <1>1, LayersFacts, OnConcat
<1>6. /\ ambient'[f] = ambient[f] \o Layers(r)
      /\ \A g \in Flows \ {f} : ambient'[g] = ambient[g]
      /\ ambient' \in [Flows -> Contexts]
  BY <1>1, <1>4, <1>5
<1>7. Open(r)' /\ \A q \in Runs \ {r} : Open(q)' <=> Open(q)
  <2>1. /\ holder'[r] = <<holder'[r][1]>>
        /\ \A q \in Runs \ {r} : Open(q) => holder'[q] = <<holder'[q][1]>>
        /\ \A q \in Runs \ {r} : ~Open(q) => holder'[q] = <<>>
    BY <1>2 DEF Opens
  <2> QED BY <2>1, OneOrNone DEF Open
<1>8. Old(r)' = ambient[f] /\ \A q \in Runs \ {r} : Open(q) => Old(q)' = Old(q)
  BY <1>2 DEF Opens, Old
<1>9. \A x \in Contexts : Sound(x) => SoundWhen(x, started', kind')
  BY <1>3, SoundContexts DEF Sound
<1>10. SoundWhen(Layers(r), started', kind')
  <2>1. /\ kind[r] \in LLMs => r \in On(Layers(r))
        /\ \A i \in DOMAIN Layers(r) : Layers(r)[i].suppress # "off"
    BY LayersFacts
  <2> QED BY <1>3, <1>5, <2>1 DEF SoundWhen
<1>11. ASSUME NEW g \in Flows
       PROVE  Sound(ambient[g])'
  <2>1. CASE g = f
    <3>1. SoundWhen(ambient[f] \o Layers(r), started', kind')
      BY <1>1, <1>3, <1>5, <1>10, SoundContexts DEF Sound
    <3> QED BY <1>6, <2>1, <3>1 DEF Sound
  <2>2. CASE g # f
    <3>1. SoundWhen(ambient[g], started', kind')
      BY <1>1, <1>9
    <3> QED BY <1>6, <2>2, <3>1 DEF Sound
  <2> QED BY <2>1, <2>2
<1>12. ASSUME NEW q \in Runs, Open(q)'
       PROVE  Sound(Old(q))'
  <2>1. SoundWhen(Old(q)', started', kind')
    BY <1>1, <1>5, <1>7, <1>8, <1>9, <1>12, Typed
  <2> QED BY <2>1 DEF Sound
<1>13. /\ \A g \in Flows : r \notin Owners(ambient[g])
       /\ \A q \in Runs : Open(q) => r \notin Owners(Old(q))
  BY <1>1, <1>2 DEF Begins, Sound, SoundWhen
<1>14. ASSUME NEW g \in Flows, Orderly(g)'
       PROVE  Stacked(g)'
  <2>1. Stacked(g)
    <3>1. \A s \in astray : s # r /\ flow'[s] = flow[s]
      BY <1>2, Typed DEF Begins, RunTypes
    <3> QED BY <1>1, <1>3, <1>14, <3>1 DEF Orderly
  <2>2. ASSUME NEW q \in Runs, flow'[q] = g
        PROVE  q \in Owners(ambient'[g]) <=> Open(q)'
    <3>1. CASE q = r
      BY <1>2, <1>5, <1>6, <1>7, <2>2, <3>1 DEF Begins
    <3>2. CASE q # r
      <4>1. q \in Owners(ambient[g]) <=> Open(q)
        BY <1>2, <2>1, <2>2, <3>2 DEF Begins, Stacked
      <4> QED BY <1>5, <1>6, <1>7, <3>2, <4>1
    <3> QED BY <3>1, <3>2
  <2>3. ASSUME NEW q \in Runs, flow'[q] = g,
               NEW s \in Runs, Open(s)', flow'[s] = g, q \in Owners(Old(s)')
        PROVE  Open(q)' /\ s \notin Owners(Old(q)')
    <3>1. q # r
      BY <1>7, <1>8, <1>13, <2>3
    <3>2. CASE s = r
      <4>1. g = f /\ flow[q] = f /\ q \in Owners(ambient[f])
        BY <1>2, <1>8, <2>3, <3>1, <3>2 DEF Begins
      <4>2. Open(q)
        BY <2>1, <4>1 DEF Stacked
      <4> QED BY <1>7, <1>8, <1>13, <3>1, <3>2, <4>2
    <3>3. CASE s # r
      <4>1. Open(s) /\ flow[s] = g /\ flow[q] = g /\ q \in Owners(Old(s))
        BY <1>2, <1>7, <1>8, <2>3, <3>1, <3>3 DEF Begins
      <4>2. Open(q) /\ s \notin Owners(Old(q))
        BY <2>1, <4>1 DEF Stacked
      <4> QED BY <1>7, <1>8, <3>1, <4>2
    <3> QED BY <3>2, <3>3
  <2> QED BY <2>2, <2>3 DEF Stacked
<1> QED BY <1>6, <1>11, <1>12, <1>14 DEF ContextIInv

LEMMA UntracedKeepsContexts ==
  ASSUME IInv, NEW r \in Runs, NEW p \in SUBSET (Runs \ {r}), NEW f \in Flows,
         p = {} \/ \E q \in Runs \ {r} : p = {q}, Start(r, p, f),
         ~(f \notin muted /\ Traceable(r, p))
  PROVE  ContextIInv'
<1>1. /\ ambient \in [Flows -> Contexts]
      /\ \A g \in Flows : Sound(ambient[g])
      /\ \A q \in Runs : Open(q) => Sound(Old(q))
      /\ \A g \in Flows : Orderly(g) => Stacked(g)
  BY DEF IInv, ContextIInv
<1>2. Begins(r, p, f)
  BY Starts
<1>3. /\ UNCHANGED <<ambient, holder, above, started, kind>> /\ astray \subseteq astray'
  BY DEF Start
<1>4. \A q \in Runs : (Open(q)' <=> Open(q)) /\ Old(q)' = Old(q)
  BY <1>3 DEF Open, Old
<1>5. /\ \A g \in Flows : Sound(ambient[g])'
      /\ \A q \in Runs : Open(q)' => Sound(Old(q))'
  BY <1>1, <1>3, <1>4 DEF Sound
<1>6. /\ \A g \in Flows : r \notin Owners(ambient[g])
      /\ \A q \in Runs : Open(q) => r \notin Owners(Old(q))
  BY <1>1, <1>2 DEF Begins, Sound, SoundWhen
<1>7. ASSUME NEW g \in Flows, Orderly(g)'
      PROVE  Stacked(g)'
  <2>1. Stacked(g)
    <3>1. \A s \in astray : s # r /\ flow'[s] = flow[s]
      BY <1>2, Typed DEF Begins, RunTypes
    <3> QED BY <1>1, <1>3, <1>7, <3>1 DEF Orderly
  <2>2. ASSUME NEW q \in Runs, flow'[q] = g
        PROVE  q \in Owners(ambient'[g]) <=> Open(q)'
    <3>1. CASE q = r
      BY <1>2, <1>3, <1>4, <1>6, <3>1 DEF Begins
    <3>2. CASE q # r
      BY <1>2, <1>3, <1>4, <2>1, <2>2, <3>2 DEF Begins, Stacked
    <3> QED BY <3>1, <3>2
  <2>3. ASSUME NEW q \in Runs, flow'[q] = g,
               NEW s \in Runs, Open(s)', flow'[s] = g, q \in Owners(Old(s)')
        PROVE  Open(q)' /\ s \notin Owners(Old(q)')
    <3>1. s # r /\ q # r /\ Open(s) /\ q \in Owners(Old(s))
      BY <1>2, <1>4, <1>6, <2>3 DEF Begins
    <3>2. flow[s] = g /\ flow[q] = g
      BY <1>2, <2>3, <3>1 DEF Begins
    <3> QED BY <1>4, <2>1, <3>1, <3>2 DEF Stacked
  <2> QED BY <2>2, <2>3 DEF Stacked
<1> QED BY <1>1, <1>3, <1>5, <1>7 DEF ContextIInv

LEMMA StartKeepsContexts ==
  ASSUME IInv, NEW r \in Runs, NEW p \in SUBSET (Runs \ {r}), NEW f \in Flows,
         p = {} \/ \E q \in Runs \ {r} : p = {q}, Start(r, p, f)
  PROVE  ContextIInv'
<1>1. CASE f \notin muted /\ Traceable(r, p)
  <2>1. CreateSpan(r, p, f) /\ f \notin muted
    BY <1>1 DEF Start
  <2> QED BY <2>1, TracedKeepsContexts
<1>2. CASE ~(f \notin muted /\ Traceable(r, p))
  BY <1>2, UntracedKeepsContexts
<1> QED BY <1>1, <1>2

\* Contexts and holders stay, more runs may be astray.
LEMMA SameContexts ==
  ASSUME IInv, UNCHANGED <<ambient, holder, started, kind, flow>>, astray \subseteq astray'
  PROVE  ContextIInv'
<1>1. /\ ambient \in [Flows -> Contexts]
      /\ \A g \in Flows : Sound(ambient[g])
      /\ \A q \in Runs : Open(q) => Sound(Old(q))
      /\ \A g \in Flows : Orderly(g) => Stacked(g)
  BY DEF IInv, ContextIInv
<1>2. \A q \in Runs : (Open(q)' <=> Open(q)) /\ Old(q)' = Old(q)
  BY DEF Open, Old
<1>3. /\ \A g \in Flows : Sound(ambient[g])'
      /\ \A q \in Runs : Open(q)' => Sound(Old(q))'
  BY <1>1, <1>2 DEF Sound
<1>4. ASSUME NEW g \in Flows, Orderly(g)'
      PROVE  Stacked(g)'
  <2>1. Stacked(g)
    BY <1>1, <1>4 DEF Orderly
  <2> QED BY <1>2, <2>1 DEF Stacked
<1> QED BY <1>1, <1>3, <1>4 DEF ContextIInv

\* What is current where a run ended, in its order or not.
LEMMA Puts ==
  ASSUME IInv, NEW r \in Runs, NEW f \in Flows, NEW how, End(r, f, how),
         ~(f \in muted \/ holder[r] = <<>>)
  PROVE  /\ ambient' \in [Flows -> Contexts]
         /\ \A g \in Flows : Sound(ambient'[g])
         /\ flow[r] = f => /\ Runs \cap Owners(ambient'[f]) = Runs \cap Owners(Old(r))
                           /\ \A g \in Flows \ {f} : ambient'[g] = ambient[g]
         /\ flow[r] # f =>
              \A g \in Flows : Runs \cap Owners(ambient'[g]) = Runs \cap Owners(ambient[g])
<1> DEFINE kept == IF flow[r] = f THEN [ambient EXCEPT ![f] = Old(r)] ELSE ambient
<1>1. /\ ambient \in [Flows -> Contexts] /\ \A g \in Flows : Sound(ambient[g])
      /\ Open(r) => Sound(Old(r))
  BY DEF IInv, ContextIInv
<1>2. EndSpan(r, f, how)
  BY DEF End
<1>3. Open(r) /\ holder[r][1].tokens[1].flow = flow[r] /\ Old(r) \in Contexts
  BY Typed DEF Open, HolderFits
<1>4. ambient' = IF Unpaired(r, how)
                   THEN [kept EXCEPT ![f] = Append(@, Layer(Reset, FALSE, "off"))]
                   ELSE kept
  <2>1. Restored(r, f) = kept
    BY <1>3 DEF Restored, Detached, Old
  <2> HIDE DEF kept
  <2> QED BY <1>2, <2>1 DEF EndSpan
<1>5. kept \in [Flows -> Contexts] /\ \A g \in Flows : Sound(kept[g])
  BY <1>1, <1>3
<1>6. /\ flow[r] = f => kept[f] = Old(r) /\ \A g \in Flows \ {f} : kept[g] = ambient[g]
      /\ flow[r] # f => kept = ambient
  BY <1>1
<1> HIDE DEF kept
<1>7. /\ ambient' \in [Flows -> Contexts] /\ \A g \in Flows : Sound(ambient'[g])
      /\ Runs \cap Owners(ambient'[f]) = Runs \cap Owners(kept[f])
      /\ \A g \in Flows \ {f} : ambient'[g] = kept[g]
  <2>1. CASE Unpaired(r, how)
    <3> DEFINE off == <<Layer(Reset, FALSE, "off")>>
               x == kept[f] \o off
    <3>1. /\ off \in Contexts /\ Sound(off) /\ Owners(off) = {Reset}
          /\ Append(kept[f], Layer(Reset, FALSE, "off")) = x
      BY <1>5, SoundAdditions
    <3>2. ambient' = [kept EXCEPT ![f] = x]
      <4> HIDE DEF x
      <4> QED BY <1>4, <2>1, <3>1
    <3> HIDE DEF off
    <3>3. x \in Contexts /\ Owners(x) = Owners(kept[f]) \cup {Reset}
      BY <1>5, <3>1, OnConcat
    <3>4. Sound(x)
      BY <1>5, <3>1, SoundContexts DEF Sound
    <3> HIDE DEF x
    <3>5. ambient'[f] = x /\ \A g \in Flows \ {f} : ambient'[g] = kept[g]
      BY <1>5, <3>2
    <3>6. ambient' \in [Flows -> Contexts]
      BY <1>5, <3>2, <3>3
    <3> QED BY <1>5, <3>3, <3>4, <3>5, <3>6, ResetAssumption
  <2>2. CASE ~Unpaired(r, how)
    BY <1>4, <1>5, <2>2
  <2> QED BY <2>1, <2>2
<1> QED BY <1>6, <1>7

LEMMA EndedKeepsContexts ==
  ASSUME IInv, NEW r \in Runs, NEW f \in Flows, NEW how, End(r, f, how),
         ~(f \in muted \/ holder[r] = <<>>)
  PROVE  ContextIInv'
<1>1. /\ ambient \in [Flows -> Contexts]
      /\ \A q \in Runs : Open(q) => Sound(Old(q))
      /\ \A g \in Flows : Orderly(g) => Stacked(g)
  BY DEF IInv, ContextIInv
<1>2. /\ EndSpan(r, f, how) /\ UNCHANGED <<kind, flow, started>>
  BY DEF End
<1>3. /\ holder' = [holder EXCEPT ![r] = <<>>]
      /\ astray' = IF f = flow[r] /\ ambient[f] = Old(r) \o Layers(r)
                   THEN astray ELSE astray \cup {r}
  BY <1>2 DEF EndSpan, Old
<1>4. /\ Open(r) /\ ~Open(r)'
      /\ \A q \in Runs \ {r} : (Open(q)' <=> Open(q)) /\ Old(q)' = Old(q)
  BY <1>3, Typed DEF Open, Old, RunTypes
<1>5. /\ ambient' \in [Flows -> Contexts] /\ \A g \in Flows : Sound(ambient[g])'
  BY <1>2, Puts DEF Sound
<1>6. \A q \in Runs : Open(q)' => Sound(Old(q))'
  BY <1>1, <1>2, <1>4 DEF Sound
<1>7. ASSUME NEW g \in Flows, Orderly(g)'
      PROVE  Stacked(g)'
  <2>1. Stacked(g)
    BY <1>1, <1>2, <1>3, <1>7 DEF Orderly
  <2>2. CASE g # flow[r]
    <3>1. Runs \cap Owners(ambient'[g]) = Runs \cap Owners(ambient[g])
      BY <2>2, Puts
    <3>2. \A q \in Runs : flow[q] = g => q # r
      BY <2>2
    <3> QED BY <1>2, <1>4, <2>1, <3>1, <3>2 DEF Stacked
  <2>3. CASE g = flow[r]
    <3>1. f = g /\ ambient[g] = Old(r) \o Layers(r)
      BY <1>2, <1>3, <1>7, <2>3 DEF Orderly
    <3>2. /\ Owners(ambient[g]) = Owners(Old(r)) \cup {r}
          /\ Runs \cap Owners(ambient'[g]) = Runs \cap Owners(Old(r))
      <4>1. Owners(Old(r) \o Layers(r)) = Owners(Old(r)) \cup Owners(Layers(r))
        BY <1>4, Typed, LayersFacts, OnConcat
      <4> QED BY <2>3, <3>1, <4>1, LayersFacts, Puts
    <3>3. r \notin Owners(Old(r))
      BY <1>4, <2>1, <2>3 DEF Stacked
    <3>4. ASSUME NEW q \in Runs, flow[q] = g
          PROVE  q \in Owners(ambient'[g]) <=> Open(q)'
      <4>1. CASE q = r
        BY <1>4, <3>2, <3>3, <4>1
      <4>2. CASE q # r
        BY <1>4, <2>1, <3>2, <3>4, <4>2 DEF Stacked
      <4> QED BY <4>1, <4>2
    <3>5. ASSUME NEW q \in Runs, flow[q] = g,
                 NEW s \in Runs, Open(s)', flow[s] = g, q \in Owners(Old(s)')
          PROVE  Open(q)' /\ s \notin Owners(Old(q)')
      <4>1. s # r /\ Open(s) /\ q \in Owners(Old(s))
        BY <1>4, <3>5
      <4>2. Open(q) /\ s \notin Owners(Old(q))
        BY <2>1, <3>5, <4>1 DEF Stacked
      <4>3. q # r
        <5>1. s \in Owners(Old(r))
          BY <2>1, <3>2, <3>5, <4>1 DEF Stacked
        <5> QED BY <4>2, <5>1
      <4> QED BY <1>4, <4>2, <4>3
    <3> QED BY <1>2, <3>4, <3>5 DEF Stacked
  <2> QED BY <2>2, <2>3
<1> QED BY <1>5, <1>6, <1>7 DEF ContextIInv

LEMMA EndKeepsContexts ==
  ASSUME IInv, NEW r \in Runs, NEW f \in Flows, NEW how, End(r, f, how)
  PROVE  ContextIInv'
<1>1. CASE f \in muted \/ holder[r] = <<>>
  <2>1. UNCHANGED <<ambient, holder, started, kind, flow>> /\ astray \subseteq astray'
    BY <1>1 DEF End
  <2> QED BY <2>1, SameContexts
<1>2. CASE ~(f \in muted \/ holder[r] = <<>>)
  BY <1>2, EndedKeepsContexts
<1> QED BY <1>1, <1>2

\* A context is copied to a flow in which no run began.
LEMMA CopyKeepsContexts ==
  ASSUME IInv, NEW f \in Flows, NEW g \in Flows, Copy(f, g)
  PROVE  ContextIInv'
<1>1. /\ ambient \in [Flows -> Contexts]
      /\ \A h \in Flows : Sound(ambient[h])
      /\ \A q \in Runs : Open(q) => Sound(Old(q))
      /\ \A h \in Flows : Orderly(h) => Stacked(h)
  BY DEF IInv, ContextIInv
<1>2. /\ ambient' = [ambient EXCEPT ![g] = ambient[f]]
      /\ \A r \in Runs : state[r] # "idle" => flow[r] # g
      /\ UNCHANGED <<kind, flow, holder, started, astray>>
  BY DEF Copy, Attach
<1>3. \A q \in Runs : (Open(q)' <=> Open(q)) /\ Old(q)' = Old(q)
  BY <1>2 DEF Open, Old
<1>4. /\ ambient' \in [Flows -> Contexts] /\ ambient'[g] = ambient[f]
      /\ \A h \in Flows \ {g} : ambient'[h] = ambient[h]
  BY <1>1, <1>2
<1>5. ASSUME NEW h \in Flows
      PROVE  Sound(ambient[h])'
  <2>1. Sound(ambient'[h])
    BY <1>1, <1>4
  <2> QED BY <1>2, <2>1 DEF Sound
<1>6. \A q \in Runs : Open(q)' => Sound(Old(q))'
  BY <1>1, <1>2, <1>3 DEF Sound
<1>7. ASSUME NEW h \in Flows, Orderly(h)'
      PROVE  Stacked(h)'
  <2>1. Stacked(h)
    BY <1>1, <1>2, <1>7 DEF Orderly
  <2>2. CASE h # g
    BY <1>2, <1>3, <1>4, <2>1, <2>2 DEF Stacked
  <2>3. CASE h = g
    <3>1. \A q \in Runs : flow[q] = g => q \notin started /\ ~Open(q)
      BY <1>2, Typed DEF ParentFits, HolderFits
    <3>2. \A q \in Runs : flow[q] = g => q \notin Owners(ambient[f])
      BY <1>1, <3>1 DEF Sound, SoundWhen
    <3> QED BY <1>2, <1>3, <1>4, <2>3, <3>1, <3>2 DEF Stacked
  <2> QED BY <2>2, <2>3
<1> QED BY <1>4, <1>5, <1>6, <1>7 DEF ContextIInv

-----------------------------------------------------------------------------
(* The theorems. *)

LEMMA InitIInv == Init => IInv
<1> SUFFICES ASSUME Init
             PROVE  IInv
  OBVIOUS
<1>1. /\ ambient = [f \in Flows |-> <<>>]
      /\ state = [r \in Runs |-> "idle"] /\ kind \in [Runs -> Kinds]
      /\ parent = [r \in Runs |-> <<>>]
      /\ flow = [r \in Runs |-> CHOOSE f \in Flows : TRUE]
      /\ holder = [r \in Runs |-> <<>>] /\ above = [r \in Runs |-> <<>>]
      /\ started = {} /\ ends = [r \in Runs |-> 0] /\ failed = {}
      /\ muted = {} /\ astray = {}
  BY DEF Init
<1>2. /\ <<>> \in Seq(Runs) /\ <<>> \in Seq(Holders) /\ <<>> \in Contexts
      /\ Owners(<<>>) = {} /\ \A i \in DOMAIN <<>> : FALSE
  BY NoLayer
<1>3. (CHOOSE f \in Flows : TRUE) \in Flows
  BY FlowsAssumption
<1>4. RunTypes
  BY <1>1, <1>2, <1>3 DEF RunTypes
<1>5. ASSUME NEW r \in Runs
      PROVE  HolderFits(r) /\ EndFits(r) /\ ParentFits(r)
  <2>1. /\ state[r] = "idle" /\ parent[r] = <<>> /\ holder[r] = <<>> /\ above[r] = <<>>
        /\ ends[r] = 0
    BY <1>1
  <2> QED BY <1>1, <2>1 DEF HolderFits, EndFits, ParentFits, Open, BelowOver
<1>6. \A r \in Runs : ~Open(r)
  BY <1>1 DEF Open
<1>7. \A f \in Flows : ambient[f] = <<>> /\ Sound(ambient[f])
  <2> DEFINE none == <<>>
  <2>1. Owners(none) = {} /\ \A i \in DOMAIN none : FALSE
    BY NoLayer
  <2>2. \A f \in Flows : ambient[f] = none
    BY <1>1
  <2> HIDE DEF none
  <2>3. SoundWhen(none, started, kind)
    BY <2>1 DEF SoundWhen
  <2> QED BY <2>2, <2>3 DEF Sound, none
<1>8. \A f \in Flows : Stacked(f)
  BY <1>2, <1>6, <1>7 DEF Stacked
<1>9. ContextIInv
  BY <1>1, <1>2, <1>6, <1>7, <1>8 DEF ContextIInv
<1> QED BY <1>4, <1>5, <1>9 DEF IInv, RunIInv

LEMMA NextIInv == IInv /\ [Next]_vars => IInv'
<1> SUFFICES ASSUME IInv, [Next]_vars
             PROVE  IInv'
  OBVIOUS
<1>1. ASSUME NEW r \in Runs, NEW f \in Flows, Start(r, {}, f)
      PROVE  IInv'
  BY <1>1, StartKeepsRuns, StartKeepsContexts DEF IInv
<1>2. ASSUME NEW r \in Runs, NEW f \in Flows, NEW q \in Runs \ {r}, Start(r, {q}, f)
      PROVE  IInv'
  BY <1>2, StartKeepsRuns, StartKeepsContexts DEF IInv
<1>3. ASSUME NEW r \in Runs, NEW f \in Flows, NEW how, End(r, f, how)
      PROVE  IInv'
  BY <1>3, EndKeepsRuns, EndKeepsContexts DEF IInv
<1>4. ASSUME NEW f \in Flows, NEW g \in Flows, Copy(f, g)
      PROVE  IInv'
  <2>1. muted' \subseteq Flows
    BY <1>4, Typed DEF Copy, RunTypes
  <2>2. UNCHANGED <<state, kind, parent, flow, holder, above, started, ends, failed, astray>>
    BY <1>4 DEF Copy
  <2> QED BY <1>4, <2>1, <2>2, OthersKeepRuns, CopyKeepsContexts DEF IInv
<1>5. ASSUME NEW f \in Flows, Mute(f)
      PROVE  IInv'
  <2>1. muted' \subseteq Flows
    BY <1>5, Typed DEF Mute, RunTypes
  <2>2. /\ UNCHANGED <<state, kind, parent, flow, holder, above, started, ends, failed, astray>>
        /\ UNCHANGED ambient
    BY <1>5 DEF Mute
  <2> QED BY <2>1, <2>2, OthersKeepRuns, SameContexts DEF IInv
<1>6. CASE UNCHANGED vars
  <2>1. muted' \subseteq Flows
    BY <1>6, Typed DEF vars, RunTypes
  <2>2. /\ UNCHANGED <<state, kind, parent, flow, holder, above, started, ends, failed, astray>>
        /\ UNCHANGED ambient
    BY <1>6 DEF vars
  <2> QED BY <2>1, <2>2, OthersKeepRuns, SameContexts DEF IInv
<1> QED BY <1>1, <1>2, <1>3, <1>4, <1>5, <1>6 DEF Next

\* In every reachable state the runs, their holders and spans, and the
\* contexts that are current or kept, go together.
THEOREM Invariant == Spec => []IInv
BY InitIInv, NextIInv, PTL DEF Spec

\* A span ends with its run, not after the span above it, and twice at most;
\* only retrievers, models and tools below them, have none (_end_span(),
\* get_workflow_name()).
THEOREM SpansAlwaysAccounted == Spec => []SpansAccounted
<1>1. IInv => SpansAccounted
  <2> SUFFICES ASSUME IInv
               PROVE  SpansAccounted
    OBVIOUS
  <2>1. RunTypes /\ \A q \in Runs : HolderFits(q) /\ EndFits(q) /\ ParentFits(q)
    BY Typed
  <2>2. TypeOK
    <3>1. DOMAIN ambient = Flows
      BY DEF IInv, ContextIInv
    <3>2. ASSUME NEW r \in Runs
          PROVE  /\ Len(parent[r]) <= 1 /\ Len(above[r]) <= 1 /\ Len(holder[r]) <= 1
                 /\ holder[r] # <<>> => /\ holder[r][1].children \subseteq started
                                        /\ Len(holder[r][1].tokens) \in 1..3
                                        /\ r \in started
                                        /\ state[r] = "running" \/ r \in astray
      <4>1. \A s : s = <<>> \/ s = <<s[1]>> => Len(s) <= 1
        OBVIOUS
      <4>2. /\ parent[r] = <<>> \/ parent[r] = <<parent[r][1]>>
            /\ above[r] = <<>> \/ above[r] = <<above[r][1]>>
        BY <2>1 DEF ParentFits
      <4>3. holder[r] = <<>> \/ holder[r] = <<holder[r][1]>>
        BY <2>1 DEF HolderFits, Open
      <4>4. holder[r] # <<>> => /\ holder[r][1].children \subseteq started
                                /\ Len(holder[r][1].tokens) \in 1..3
                                /\ r \in started
                                /\ state[r] = "running" \/ r \in astray
        BY <2>1 DEF HolderFits, Open
      <4> QED BY <4>1, <4>2, <4>3, <4>4
    <3> QED BY <2>1, <3>1, <3>2 DEF TypeOK, RunTypes
  <2>3. SpansEnd
    <3>1. started \subseteq Runs
      BY <2>1 DEF RunTypes
    <3>2. \A r \in started : ends[r] > 1 => ends[r] = 2
      BY <2>1, <3>1 DEF EndFits
    <3> QED BY <2>1, <3>1, <3>2 DEF SpansEnd, EndFits, ParentFits, BelowOver, Open
  <2>4. OnlyOrphansUntraced
    BY <2>1 DEF OnlyOrphansUntraced, ParentFits
  <2> QED BY <2>2, <2>3, <2>4 DEF SpansAccounted
<1> QED BY <1>1, Invariant, PTL

\* Nothing goes on under the span of a run that is over, as far as the runs
\* of the flow ended innermost first, and what a model calls is not
\* instrumented again (the detaches of _end_span(),
\* SUPPRESS_LANGUAGE_MODEL_INSTRUMENTATION_KEY).
THEOREM ContextAlwaysFollowsRuns == Spec => []ContextFollowsRuns
<1>1. IInv => ContextFollowsRuns
  <2> SUFFICES ASSUME IInv
               PROVE  ContextFollowsRuns
    OBVIOUS
  <2>1. RunTypes /\ \A q \in Runs : HolderFits(q)
    BY Typed
  <2>2. /\ \A f \in Flows : Sound(ambient[f])
        /\ \A f \in Flows : Orderly(f) => Stacked(f)
    BY DEF IInv, ContextIInv
  <2>3. NothingLeftCurrent
    <3> SUFFICES ASSUME NEW f \in Flows, Orderly(f),
                        NEW r \in Runs \cap Owners(ambient[f]), flow[r] = f
                 PROVE  state[r] = "running"
      BY DEF NothingLeftCurrent, Orderly
    <3>1. Open(r)
      BY <2>2 DEF Stacked
    <3> QED BY <2>1, <3>1 DEF HolderFits, Orderly
  <2>4. ModelSuppresses
    <3> SUFFICES ASSUME NEW r \in started, kind[r] \in LLMs, r \in Owners(ambient[flow[r]]),
                        ~Suppressed(ambient[flow[r]])
                 PROVE  Reset \in Owners(ambient[flow[r]])
      BY DEF ModelSuppresses
    <3> DEFINE context == ambient[flow[r]]
    <3>1. SoundWhen(context, started, kind)
      BY <2>1, <2>2 DEF RunTypes, Sound
    <3>2. r \in Runs
      BY <2>1 DEF RunTypes
    <3> HIDE DEF context
    <3>3. PICK i \in DOMAIN context : context[i].suppress = "on"
      BY <3>1, <3>2 DEF SoundWhen, On, context
    <3>4. PICK j \in DOMAIN context : context[j].suppress = "off"
      BY <3>3 DEF Suppressed, context
    <3> QED BY <3>1, <3>4 DEF SoundWhen, Owners, context
  <2> QED BY <2>3, <2>4 DEF ContextFollowsRuns
<1> QED BY <1>1, Invariant, PTL

\* A new span goes under the span of the run above it, and without one under
\* a span that is not over, as far as its flow is in order
\* (_create_span()).
THEOREM AlwaysUnderLivingSpan == Spec => UnderLivingSpan
<1> DEFINE Living ==
      \A r \in started' \ started :
        /\ \A p \in started : parent'[r] = <<p>> => above'[r] = <<p>>
        /\ \A x \in Runs : above'[r] = <<x>> =>
             \/ state[x] = "running" \/ flow[x] # flow'[r]
             \/ \E y \in astray : flow[y] = flow[x]
<1>1. ASSUME IInv, NEW r \in Runs, NEW p \in SUBSET (Runs \ {r}), NEW f \in Flows,
             p = {} \/ \E q \in Runs \ {r} : p = {q}, Start(r, p, f)
      PROVE  Living
  <2>1. CASE CreateSpan(r, p, f)
    <3>1. Begins(r, p, f)
      BY <1>1, Starts
    <3>2. RunTypes /\ \A q \in Runs : HolderFits(q)
      BY <1>1, Typed
    <3>3. \A q \in started' \ started : q = r
      BY <2>1 DEF CreateSpan
    <3>4. /\ above'[r] = <<>> \/ above'[r] \in ParentSpan(p, f)
          /\ ParentSpan(p, f) # {} => above'[r] \in ParentSpan(p, f)
      BY <1>1, <2>1, NewAbove
    <3>5. ASSUME NEW q \in started, parent'[r] = <<q>>
          PROVE  above'[r] = <<q>>
      <4>1. p = {q} /\ Open(q)
        <5>1. PICK s \in Runs \ {r} : p = {s} /\ parent'[r] = <<s>>
          BY <3>1, <3>5, OneOrNone DEF Begins
        <5>2. s = q
          BY <3>5, <5>1, OneOrNone
        <5> QED BY <3>1, <5>1, <5>2 DEF Begins
      <4>2. ParentSpan(p, f) = {<<q>>}
        BY <4>1 DEF ParentSpan, Open
      <4> QED BY <3>4, <4>2
    <3>6. ASSUME NEW x \in Runs, above'[r] = <<x>>, flow[x] = flow'[r], Orderly(flow[x])
          PROVE  state[x] = "running"
      <4>1. <<x>> \in ParentSpan(p, f)
        BY <3>4, <3>6, OneOrNone
      <4>2. x \in p \/ IsCurrent(x, ambient[f])
        BY <4>1, OneOrNone DEF ParentSpan
      <4>3. CASE x \in p
        BY <1>1, <4>3 DEF Start
      <4>4. CASE IsCurrent(x, ambient[f])
        <5>1. x \in Owners(ambient[f]) /\ flow[x] = f
          BY <3>1, <3>6, <4>4 DEF IsCurrent, Owners, Begins
        <5>2. Open(x)
          BY <1>1, <3>6, <5>1 DEF IInv, ContextIInv, Stacked
        <5> QED BY <3>2, <3>6, <5>2 DEF HolderFits, Orderly
      <4> QED BY <4>2, <4>3, <4>4
    <3> QED BY <3>3, <3>5, <3>6 DEF Orderly
  <2>2. CASE UNCHANGED started
    BY <2>2
  <2> QED BY <1>1, <2>1, <2>2 DEF Start
<1>2. IInv /\ [Next]_vars => Living
  <2> SUFFICES ASSUME IInv, [Next]_vars
               PROVE  Living
    OBVIOUS
  <2>1. \/ \E r \in Runs, f \in Flows :
             Start(r, {}, f) \/ \E q \in Runs \ {r} : Start(r, {q}, f)
        \/ UNCHANGED started
    BY DEF Next, End, Copy, Mute, vars
  <2>2. UNCHANGED started => Living
    OBVIOUS
  <2> HIDE DEF Living
  <2>3. ASSUME NEW r \in Runs, NEW f \in Flows, Start(r, {}, f)
        PROVE  Living
    BY <1>1, <2>3
  <2>4. ASSUME NEW r \in Runs, NEW f \in Flows, NEW q \in Runs \ {r}, Start(r, {q}, f)
        PROVE  Living
    BY <1>1, <2>4
  <2> QED BY <2>1, <2>2, <2>3, <2>4
<1>3. IInv /\ [Next]_vars => [Living]_vars
  BY <1>2
<1> QED BY <1>3, Invariant, PTL DEF Spec, UnderLivingSpan
=============================================================================
