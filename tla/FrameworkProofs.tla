--------------------------- MODULE FrameworkProofs ---------------------------
(***************************************************************************)
(* Theorems about two parts of the frameworks' instrumentations:           *)
(* DeferredFindings, for any threads, workers and requests, and            *)
(* DispatcherSpans, for any operations, kinds and flows.                   *)
(*                                                                         *)
(* That a finding is in one place, and that a recorded request has all of  *)
(* its own, rests on two more facts: a finding that is about to be made is *)
(* new (FreshInv), and what a request found on a worker is with the        *)
(* request until it is back on the loop (CarriedInv).  The depth rests on  *)
(* no request of LlamaIndex leaving twice (DepthInv).                      *)
(*                                                                         *)
(* Of an operation, the invariant says that its context carries its own    *)
(* layer last, that its token remembers a context it knows (ContextFits),  *)
(* that the chain of its parents holds no operation twice (LineageFits),   *)
(* and when its span may have ended (OpEndFits).  A flow in which no       *)
(* operation went astray is a pile: what is current, or remembered by one  *)
(* that goes on, is the context of one that goes on, and of each only one  *)
(* remembers it (Piled).  EndAllPiles shows that a chain of operations     *)
(* that end one after the other, each on top when its turn comes, leaves   *)
(* such a pile: the operations above a stream are taken off it together.   *)
(***************************************************************************)
EXTENDS DeferredFindings, DispatcherSpans, FiniteSetTheorems, SequenceTheorems,
        WellFoundedInduction, TLAPS

FreshInv ==
  \A r \in Request :
    /\ pc[r] \in {"new", "prompt", "orphan"} => <<r, "prompt">> \notin made
    /\ pc[r] \in {"new", "prompt", "orphan", "screened", "running"}
         => <<r, "completion">> \notin made

CarriedInv ==
  \A r \in Request : pc[r] = "screened" => FindingsOf(r) \subseteq carried[r]

IInv == /\ TypeOK /\ InOnePlace /\ FreshInv
        /\ CarriedInv /\ RecordedFindingsReported

-----------------------------------------------------------------------------
(* What a screening adds. *)

\* A finding that is made is the request's own, and new.
LEMMA FoundIsNew ==
  ASSUME IInv, NEW r \in Request, NEW place \in {"prompt", "completion"},
         NEW found \in MayFind(r, place), <<r, place>> \notin made
  PROVE  /\ found \subseteq Finding
         /\ found \cap made = {}
         /\ \A f \in found : f = <<r, place>> /\ f[1] = r
BY DEF MayFind, Finding, Request

-----------------------------------------------------------------------------
(* Each action keeps the invariant. *)

LEMMA ProviderPromptKeeps ==
  ASSUME IInv, NEW r \in Provider, NEW t \in AnyThread,
         NEW s \in {"recording", "dropped"}, ProviderPrompt(r, t, s)
  PROVE  IInv'
<1>0. r \in Request /\ pc[r] = "new" /\ <<r, "prompt">> \notin made
  BY DEF ProviderPrompt, IInv, FreshInv, Request
<1>1. PICK found \in MayFind(r, "prompt") :
        /\ events' = Written(r, s, found)
        /\ buffer' = [buffer EXCEPT ![t] = @ \cup Waiting(s, found)]
        /\ made' = made \cup found
  BY DEF ProviderPrompt
<1>2. /\ span' = [span EXCEPT ![r] = s]
      /\ pc' = [pc EXCEPT ![r] = "running"]
      /\ depth' = depth /\ carried' = carried
  BY DEF ProviderPrompt
<1>3. found \subseteq Finding /\ found \cap made = {}
      /\ \A f \in found : f = <<r, "prompt">> /\ f[1] = r
  BY <1>0, FoundIsNew
<1>4. TypeOK'
  BY <1>0, <1>1, <1>2, <1>3 DEF IInv, TypeOK, Written, Waiting, SpanKind
<1>5. InOnePlace'
  BY <1>0, <1>1, <1>2, <1>3 DEF IInv, TypeOK, InOnePlace, Written, Waiting
<1>6. FreshInv'
  BY <1>0, <1>1, <1>2, <1>3 DEF IInv, TypeOK, FreshInv
<1>7. CarriedInv'
  BY <1>0, <1>1, <1>2, <1>3 DEF IInv, TypeOK, CarriedInv, FindingsOf
<1>8. RecordedFindingsReported'
  BY <1>0, <1>1, <1>2, <1>3
  DEF IInv, TypeOK, FreshInv, RecordedFindingsReported, FindingsOf, Written,
      Finding
<1> QED
  BY <1>4, <1>5, <1>6, <1>7, <1>8 DEF IInv

LEMMA ScreenPromptKeeps ==
  ASSUME IInv, NEW r \in Request, NEW w \in Worker, ScreenPrompt(r, w)
  PROVE  IInv'
<1>0. pc[r] \in {"prompt", "orphan"} /\ <<r, "prompt">> \notin made
      /\ <<r, "completion">> \notin made /\ w \in AnyThread
  BY DEF ScreenPrompt, IInv, FreshInv, AnyThread
<1>1. PICK found \in MayFind(r, "prompt") :
        /\ carried' = [carried EXCEPT ![r] = buffer[w] \cup found]
        /\ made' = made \cup found
  BY DEF ScreenPrompt
<1>2. /\ buffer' = [buffer EXCEPT ![w] = {}]
      /\ pc' = [pc EXCEPT ![r] =
                  IF pc[r] = "orphan" THEN "done" ELSE "screened"]
      /\ depth' = depth /\ span' = span /\ events' = events
  BY DEF ScreenPrompt, Drained
<1>3. found \subseteq Finding /\ found \cap made = {}
      /\ \A f \in found : f = <<r, "prompt">> /\ f[1] = r
  BY <1>0, FoundIsNew
<1>4. TypeOK'
  BY <1>0, <1>1, <1>2, <1>3 DEF IInv, TypeOK
<1>5. InOnePlace'
  BY <1>0, <1>1, <1>2, <1>3 DEF IInv, TypeOK, InOnePlace
<1>6. FreshInv'
  BY <1>0, <1>1, <1>2, <1>3 DEF IInv, TypeOK, FreshInv
<1>7. CarriedInv'
  BY <1>0, <1>1, <1>2, <1>3
  DEF IInv, TypeOK, CarriedInv, FreshInv, FindingsOf, Finding
<1>8. RecordedFindingsReported'
  BY <1>0, <1>1, <1>2, <1>3
  DEF IInv, TypeOK, FreshInv, RecordedFindingsReported, FindingsOf
<1> QED
  BY <1>4, <1>5, <1>6, <1>7, <1>8 DEF IInv

\* A completion of a provider is written on its span, or waits.
LEMMA ProviderCompletionKeeps ==
  ASSUME IInv, NEW r \in Provider, NEW t \in AnyThread,
         ProviderCompletion(r, t)
  PROVE  IInv'
<1>0. r \in Request /\ pc[r] = "running" /\ <<r, "completion">> \notin made
  BY DEF ProviderCompletion, IInv, FreshInv, Request
<1>1. PICK found \in MayFind(r, "completion") :
        /\ events' = Written(r, span[r], found)
        /\ buffer' = [buffer EXCEPT ![t] = @ \cup Waiting(span[r], found)]
        /\ made' = made \cup found
  BY DEF ProviderCompletion
<1>2. /\ pc' = [pc EXCEPT ![r] = "done"]
      /\ depth' = depth /\ span' = span /\ carried' = carried
  BY DEF ProviderCompletion
<1>3. found \subseteq Finding /\ found \cap made = {}
      /\ \A f \in found : f = <<r, "completion">> /\ f[1] = r
  BY <1>0, FoundIsNew
<1>4. TypeOK'
  BY <1>0, <1>1, <1>2, <1>3 DEF IInv, TypeOK, Written, Waiting
<1>5. InOnePlace'
  BY <1>0, <1>1, <1>2, <1>3 DEF IInv, TypeOK, InOnePlace, Written, Waiting
<1>6. FreshInv'
  BY <1>0, <1>1, <1>2, <1>3 DEF IInv, TypeOK, FreshInv
<1>7. CarriedInv'
  BY <1>0, <1>1, <1>2, <1>3 DEF IInv, TypeOK, CarriedInv, FindingsOf
<1>8. RecordedFindingsReported'
  BY <1>0, <1>1, <1>2, <1>3
  DEF IInv, TypeOK, RecordedFindingsReported, FindingsOf, Written
<1> QED
  BY <1>4, <1>5, <1>6, <1>7, <1>8 DEF IInv

\* A LangChain request that runs on one thread.
LEMMA LangChainSyncKeeps ==
  ASSUME IInv, NEW r \in Request, NEW t \in Thread, NEW s \in SpanKind,
         LangChainSync(r, t, s)
  PROVE  IInv'
<1>0. pc[r] = "new" /\ <<r, "prompt">> \notin made
      /\ <<r, "completion">> \notin made
  BY DEF LangChainSync, IInv, FreshInv
<1>1. PICK p \in MayFind(r, "prompt"), c \in MayFind(r, "completion"),
           reached \in BOOLEAN :
        /\ ~reached => c = {}
        /\ events' = Written(r, s, (Kept(r, t) \cup p) \cup c)
        /\ buffer' = [buffer EXCEPT ![t] =
                        CASE s # "none" -> {}
                          [] s = "none" /\ reached -> c
                          [] s = "none" /\ ~reached -> Kept(r, t) \cup p]
        /\ made' = (made \cup p) \cup c
  BY DEF LangChainSync
<1>2. /\ span' = [span EXCEPT ![r] = s]
      /\ pc' = [pc EXCEPT ![r] = "done"]
      /\ depth' = depth /\ carried' = carried
  BY DEF LangChainSync
<1>3. /\ p \subseteq Finding /\ c \subseteq Finding
      /\ p \cap made = {} /\ c \cap made = {}
      /\ \A f \in p : f = <<r, "prompt">> /\ f[1] = r
      /\ \A f \in c : f = <<r, "completion">> /\ f[1] = r
      /\ Kept(r, t) \subseteq buffer[t] /\ t \in AnyThread
  BY <1>0, FoundIsNew DEF Kept, AnyThread
<1>4. TypeOK'
  BY <1>0, <1>1, <1>2, <1>3 DEF IInv, TypeOK, Written
<1>5. InOnePlace'
  BY <1>0, <1>1, <1>2, <1>3 DEF IInv, TypeOK, InOnePlace, Written
<1>6. FreshInv'
  BY <1>0, <1>1, <1>2, <1>3 DEF IInv, TypeOK, FreshInv
<1>7. CarriedInv'
  BY <1>0, <1>1, <1>2, <1>3 DEF IInv, TypeOK, CarriedInv, FindingsOf
<1>8. RecordedFindingsReported'
  BY <1>0, <1>1, <1>2, <1>3
  DEF IInv, TypeOK, RecordedFindingsReported, FindingsOf, FreshInv, Written,
      Finding
<1> QED
  BY <1>4, <1>5, <1>6, <1>7, <1>8 DEF IInv

\* A LlamaIndex request that runs on one thread.
LEMMA LlamaIndexSyncKeeps ==
  ASSUME IInv, NEW r \in Request, NEW t \in Thread, NEW s \in SpanKind,
         LlamaIndexSync(r, t, s)
  PROVE  IInv'
<1>0. pc[r] = "new" /\ <<r, "prompt">> \notin made
      /\ <<r, "completion">> \notin made
  BY DEF LlamaIndexSync, IInv, FreshInv
<1>1. PICK p \in MayFind(r, "prompt"), c \in MayFind(r, "completion") :
        /\ events' = Written(r, s, (Kept(r, t) \cup p) \cup c)
        /\ buffer' = [buffer EXCEPT ![t] = Waiting(s, c)]
        /\ made' = (made \cup p) \cup c
  BY DEF LlamaIndexSync
<1>2. /\ span' = [span EXCEPT ![r] = s]
      /\ pc' = [pc EXCEPT ![r] = "done"]
      /\ depth' = depth /\ carried' = carried
  BY DEF LlamaIndexSync
<1>3. /\ p \subseteq Finding /\ c \subseteq Finding
      /\ p \cap made = {} /\ c \cap made = {}
      /\ \A f \in p : f = <<r, "prompt">> /\ f[1] = r
      /\ \A f \in c : f = <<r, "completion">> /\ f[1] = r
      /\ Kept(r, t) \subseteq buffer[t] /\ t \in AnyThread
  BY <1>0, FoundIsNew DEF Kept, AnyThread
<1>4. TypeOK'
  BY <1>0, <1>1, <1>2, <1>3 DEF IInv, TypeOK, Written, Waiting
<1>5. InOnePlace'
  BY <1>0, <1>1, <1>2, <1>3 DEF IInv, TypeOK, InOnePlace, Written, Waiting
<1>6. FreshInv'
  BY <1>0, <1>1, <1>2, <1>3 DEF IInv, TypeOK, FreshInv
<1>7. CarriedInv'
  BY <1>0, <1>1, <1>2, <1>3 DEF IInv, TypeOK, CarriedInv, FindingsOf
<1>8. RecordedFindingsReported'
  BY <1>0, <1>1, <1>2, <1>3
  DEF IInv, TypeOK, RecordedFindingsReported, FindingsOf, FreshInv, Written,
      Finding
<1> QED
  BY <1>4, <1>5, <1>6, <1>7, <1>8 DEF IInv

\* A span of LlamaIndex that calls no model takes the buffer.
LEMMA OtherSpanKeeps ==
  ASSUME IInv, NEW r \in Request, NEW t \in Thread, NEW s \in SpanKind,
         OtherSpan(r, t, s)
  PROVE  IInv'
<1>0. pc[r] = "new" /\ t \in AnyThread /\ FindingsOf(r) = {}
  <2>1. pc[r] = "new" /\ t \in AnyThread
    BY DEF OtherSpan, AnyThread
  <2>2. <<r, "prompt">> \notin made /\ <<r, "completion">> \notin made
    BY <2>1 DEF IInv, FreshInv
  <2>3. \A f \in made : f \in Request \X {"prompt", "completion"}
    BY DEF IInv, TypeOK, Finding
  <2>4. \A f \in made : f[1] # r
    BY <2>2, <2>3
  <2> QED
    BY <2>1, <2>4 DEF FindingsOf
<1>1. /\ events' = Written(r, s, buffer[t])
      /\ buffer' = [buffer EXCEPT ![t] = {}]
      /\ span' = [span EXCEPT ![r] = s]
      /\ pc' = [pc EXCEPT ![r] = "done"]
      /\ depth' = depth /\ carried' = carried /\ made' = made
  BY DEF OtherSpan
<1>4. TypeOK'
  BY <1>0, <1>1 DEF IInv, TypeOK, Written
<1>5. InOnePlace'
  BY <1>0, <1>1 DEF IInv, TypeOK, InOnePlace, Written
<1>6. FreshInv'
  BY <1>0, <1>1 DEF IInv, TypeOK, FreshInv
<1>7. CarriedInv'
  BY <1>0, <1>1 DEF IInv, TypeOK, CarriedInv, FindingsOf
<1>8. RecordedFindingsReported'
  BY <1>0, <1>1 DEF IInv, TypeOK, RecordedFindingsReported, FindingsOf, Written
<1> QED
  BY <1>4, <1>5, <1>6, <1>7, <1>8 DEF IInv

\* A wrapper on the loop discards, and awaits its worker.
LEMMA EnterKeeps ==
  ASSUME IInv, NEW r \in Request, Enter(r)
  PROVE  IInv'
<1>0. pc[r] = "new" /\ Loop \in Thread /\ Loop \in AnyThread
      /\ Kept(r, Loop) \subseteq buffer[Loop]
  BY ThreadAssumption DEF Enter, AnyThread, Kept
<1>1. /\ buffer' = [buffer EXCEPT ![Loop] = Kept(r, Loop)]
      /\ depth' = Deeper(r)
      /\ pc' = [pc EXCEPT ![r] = "prompt"]
      /\ span' = span /\ carried' = carried /\ events' = events
      /\ made' = made
  BY DEF Enter
<1>4. TypeOK'
  BY <1>0, <1>1 DEF IInv, TypeOK, Deeper
<1>5. InOnePlace'
  BY <1>0, <1>1 DEF IInv, TypeOK, InOnePlace
<1>6. FreshInv'
  BY <1>0, <1>1 DEF IInv, TypeOK, FreshInv
<1>7. CarriedInv'
  BY <1>0, <1>1 DEF IInv, TypeOK, CarriedInv, FindingsOf
<1>8. RecordedFindingsReported'
  BY <1>0, <1>1 DEF IInv, TypeOK, RecordedFindingsReported, FindingsOf
<1> QED
  BY <1>4, <1>5, <1>6, <1>7, <1>8 DEF IInv

\* The span takes what its worker found, and what else the loop has.
LEMMA StartKeeps ==
  ASSUME IInv, NEW r \in Request, NEW s \in SpanKind, Start(r, s)
  PROVE  IInv'
<1>0. pc[r] = "screened" /\ Loop \in AnyThread
      /\ FindingsOf(r) \subseteq carried[r]
  BY ThreadAssumption DEF Start, AnyThread, IInv, CarriedInv
<1>1. /\ events' = Written(r, s, buffer[Loop] \cup carried[r])
      /\ buffer' = [buffer EXCEPT ![Loop] = {}]
      /\ carried' = [carried EXCEPT ![r] = {}]
      /\ span' = [span EXCEPT ![r] = s]
      /\ pc' = [pc EXCEPT ![r] = "running"]
      /\ depth' = depth /\ made' = made
  BY DEF Start
<1>4. TypeOK'
  BY <1>0, <1>1 DEF IInv, TypeOK, Written
<1>5. InOnePlace'
  BY <1>0, <1>1 DEF IInv, TypeOK, InOnePlace, Written
<1>6. FreshInv'
  BY <1>0, <1>1 DEF IInv, TypeOK, FreshInv
<1>7. CarriedInv'
  BY <1>0, <1>1 DEF IInv, TypeOK, CarriedInv, FindingsOf
<1>8. RecordedFindingsReported'
  BY <1>0, <1>1 DEF IInv, TypeOK, RecordedFindingsReported, FindingsOf, Written
<1> QED
  BY <1>4, <1>5, <1>6, <1>7, <1>8 DEF IInv

\* Without a span the findings stay on the loop's thread.
LEMMA StartSuppressedKeeps ==
  ASSUME IInv, NEW r \in Request, StartSuppressed(r)
  PROVE  IInv'
<1>0. pc[r] = "screened" /\ Loop \in AnyThread
  BY ThreadAssumption DEF StartSuppressed, AnyThread
<1>1. /\ buffer' = [buffer EXCEPT ![Loop] = @ \cup carried[r]]
      /\ carried' = [carried EXCEPT ![r] = {}]
      /\ pc' = [pc EXCEPT ![r] = "running"]
      /\ depth' = depth /\ span' = span /\ events' = events
      /\ made' = made
  BY DEF StartSuppressed
<1>4. TypeOK'
  BY <1>0, <1>1 DEF IInv, TypeOK
<1>5. InOnePlace'
  BY <1>0, <1>1 DEF IInv, TypeOK, InOnePlace
<1>6. FreshInv'
  BY <1>0, <1>1 DEF IInv, TypeOK, FreshInv
<1>7. CarriedInv'
  BY <1>0, <1>1 DEF IInv, TypeOK, CarriedInv, FindingsOf
<1>8. RecordedFindingsReported'
  BY <1>0, <1>1 DEF IInv, TypeOK, RecordedFindingsReported, FindingsOf
<1> QED
  BY <1>4, <1>5, <1>6, <1>7, <1>8 DEF IInv

\* A worker screens a completion, and drains its buffer.
LEMMA ScreenCompletionKeeps ==
  ASSUME IInv, NEW r \in Request, NEW w \in Worker, ScreenCompletion(r, w)
  PROVE  IInv'
<1>0. pc[r] = "running" /\ <<r, "completion">> \notin made /\ w \in AnyThread
  BY DEF ScreenCompletion, IInv, FreshInv, AnyThread
<1>1. PICK found \in MayFind(r, "completion") :
        /\ events' = Written(r, span[r], found)
        /\ carried' = [carried EXCEPT ![r] =
                         buffer[w] \cup Waiting(span[r], found)]
        /\ made' = made \cup found
  BY DEF ScreenCompletion
<1>2. /\ buffer' = [buffer EXCEPT ![w] = {}]
      /\ pc' = [pc EXCEPT ![r] = "answered"]
      /\ depth' = depth /\ span' = span
  BY DEF ScreenCompletion, Drained
<1>3. found \subseteq Finding /\ found \cap made = {}
      /\ \A f \in found : f = <<r, "completion">> /\ f[1] = r
  BY <1>0, FoundIsNew
<1>4. TypeOK'
  BY <1>0, <1>1, <1>2, <1>3 DEF IInv, TypeOK, Written, Waiting
<1>5. InOnePlace'
  BY <1>0, <1>1, <1>2, <1>3 DEF IInv, TypeOK, InOnePlace, Written, Waiting
<1>6. FreshInv'
  BY <1>0, <1>1, <1>2, <1>3 DEF IInv, TypeOK, FreshInv
<1>7. CarriedInv'
  BY <1>0, <1>1, <1>2, <1>3 DEF IInv, TypeOK, CarriedInv, FindingsOf
<1>8. RecordedFindingsReported'
  BY <1>0, <1>1, <1>2, <1>3
  DEF IInv, TypeOK, RecordedFindingsReported, FindingsOf, Written
<1> QED
  BY <1>4, <1>5, <1>6, <1>7, <1>8 DEF IInv

\* What a worker drained goes into the buffer of the loop's thread.
LEMMA InjectCompletionKeeps ==
  ASSUME IInv, NEW r \in Request, InjectCompletion(r)
  PROVE  IInv'
<1>0. pc[r] = "answered" /\ Loop \in AnyThread
  BY ThreadAssumption DEF InjectCompletion, AnyThread
<1>1. /\ buffer' = [buffer EXCEPT ![Loop] = @ \cup carried[r]]
      /\ carried' = [carried EXCEPT ![r] = {}]
      /\ pc' = [pc EXCEPT ![r] = "ending"]
      /\ depth' = depth /\ span' = span /\ events' = events
      /\ made' = made
  BY DEF InjectCompletion
<1>4. TypeOK'
  BY <1>0, <1>1 DEF IInv, TypeOK
<1>5. InOnePlace'
  BY <1>0, <1>1 DEF IInv, TypeOK, InOnePlace
<1>6. FreshInv'
  BY <1>0, <1>1 DEF IInv, TypeOK, FreshInv
<1>7. CarriedInv'
  BY <1>0, <1>1 DEF IInv, TypeOK, CarriedInv, FindingsOf
<1>8. RecordedFindingsReported'
  BY <1>0, <1>1 DEF IInv, TypeOK, RecordedFindingsReported, FindingsOf
<1> QED
  BY <1>4, <1>5, <1>6, <1>7, <1>8 DEF IInv

\* on_llm_end takes the buffer if the request has a span.
LEMMA LLMEndKeeps ==
  ASSUME IInv, NEW r \in Request, LLMEnd(r)
  PROVE  IInv'
<1>0. pc[r] = "ending" /\ Loop \in AnyThread
  BY ThreadAssumption DEF LLMEnd, AnyThread
<1>1. /\ events' = Written(r, span[r], buffer[Loop])
      /\ buffer' = [buffer EXCEPT ![Loop] =
                      IF span[r] = "none" THEN @ ELSE {}]
      /\ pc' = [pc EXCEPT ![r] = "done"]
      /\ depth' = depth /\ span' = span /\ carried' = carried
      /\ made' = made
  BY DEF LLMEnd
<1>4. TypeOK'
  BY <1>0, <1>1 DEF IInv, TypeOK, Written
<1>5. InOnePlace'
  BY <1>0, <1>1 DEF IInv, TypeOK, InOnePlace, Written
<1>6. FreshInv'
  BY <1>0, <1>1 DEF IInv, TypeOK, FreshInv
<1>7. CarriedInv'
  BY <1>0, <1>1 DEF IInv, TypeOK, CarriedInv, FindingsOf
<1>8. RecordedFindingsReported'
  BY <1>0, <1>1 DEF IInv, TypeOK, RecordedFindingsReported, FindingsOf, Written
<1> QED
  BY <1>4, <1>5, <1>6, <1>7, <1>8 DEF IInv

\* A completion of LlamaIndex is screened on the loop.
LEMMA EndEventKeeps ==
  ASSUME IInv, NEW r \in Request, EndEvent(r)
  PROVE  IInv'
<1>0. pc[r] = "running" /\ <<r, "completion">> \notin made
      /\ Loop \in AnyThread
  BY ThreadAssumption DEF EndEvent, IInv, FreshInv, AnyThread
<1>1. PICK found \in MayFind(r, "completion") :
        /\ events' = Written(r, span[r], found)
        /\ buffer' = [buffer EXCEPT ![Loop] = @ \cup Waiting(span[r], found)]
        /\ made' = made \cup found
  BY DEF EndEvent
<1>2. /\ pc' = [pc EXCEPT ![r] = "answered"]
      /\ depth' = depth /\ span' = span /\ carried' = carried
  BY DEF EndEvent
<1>3. found \subseteq Finding /\ found \cap made = {}
      /\ \A f \in found : f = <<r, "completion">> /\ f[1] = r
  BY <1>0, FoundIsNew
<1>4. TypeOK'
  BY <1>0, <1>1, <1>2, <1>3 DEF IInv, TypeOK, Written, Waiting
<1>5. InOnePlace'
  BY <1>0, <1>1, <1>2, <1>3 DEF IInv, TypeOK, InOnePlace, Written, Waiting
<1>6. FreshInv'
  BY <1>0, <1>1, <1>2, <1>3 DEF IInv, TypeOK, FreshInv
<1>7. CarriedInv'
  BY <1>0, <1>1, <1>2, <1>3 DEF IInv, TypeOK, CarriedInv, FindingsOf
<1>8. RecordedFindingsReported'
  BY <1>0, <1>1, <1>2, <1>3
  DEF IInv, TypeOK, RecordedFindingsReported, FindingsOf, Written
<1> QED
  BY <1>4, <1>5, <1>6, <1>7, <1>8 DEF IInv

\* Leaving a wrapper moves no finding.
LEMMA ExitKeeps ==
  ASSUME IInv, NEW r \in Request, Exit(r)
  PROVE  IInv'
<1>0. pc[r] = "answered" /\ Loop \in Thread
  BY ThreadAssumption DEF Exit
<1>1. /\ depth' = Shallower(r)
      /\ pc' = [pc EXCEPT ![r] = "done"]
      /\ buffer' = buffer /\ span' = span /\ carried' = carried
      /\ events' = events /\ made' = made
  BY DEF Exit
<1>4. TypeOK'
  BY <1>0, <1>1 DEF IInv, TypeOK, Shallower
<1>5. InOnePlace'
  BY <1>0, <1>1 DEF IInv, TypeOK, InOnePlace
<1>6. FreshInv'
  BY <1>0, <1>1 DEF IInv, TypeOK, FreshInv
<1>7. CarriedInv'
  BY <1>0, <1>1 DEF IInv, TypeOK, CarriedInv, FindingsOf
<1>8. RecordedFindingsReported'
  BY <1>0, <1>1 DEF IInv, TypeOK, RecordedFindingsReported, FindingsOf
<1> QED
  BY <1>4, <1>5, <1>6, <1>7, <1>8 DEF IInv

\* Nor does leaving it early.
LEMMA AbandonKeeps ==
  ASSUME IInv, NEW r \in Request, Abandon(r)
  PROVE  IInv'
<1>0. pc[r] \in {"prompt", "screened", "running", "answered", "ending"}
      /\ Loop \in Thread
  BY ThreadAssumption DEF Abandon
<1>1. /\ depth' = Shallower(r)
      /\ pc' = [pc EXCEPT ![r] =
                  IF pc[r] = "prompt" THEN "orphan" ELSE "done"]
      /\ buffer' = buffer /\ span' = span /\ carried' = carried
      /\ events' = events /\ made' = made
  BY DEF Abandon
<1>4. TypeOK'
  BY <1>0, <1>1 DEF IInv, TypeOK, Shallower
<1>5. InOnePlace'
  BY <1>0, <1>1 DEF IInv, TypeOK, InOnePlace
<1>6. FreshInv'
  BY <1>0, <1>1 DEF IInv, TypeOK, FreshInv
<1>7. CarriedInv'
  BY <1>0, <1>1 DEF IInv, TypeOK, CarriedInv, FindingsOf
<1>8. RecordedFindingsReported'
  BY <1>0, <1>1 DEF IInv, TypeOK, RecordedFindingsReported, FindingsOf
<1> QED
  BY <1>4, <1>5, <1>6, <1>7, <1>8 DEF IInv

-----------------------------------------------------------------------------
(* The invariant. *)

\* The invariant holds initially.
LEMMA InitInv == Init => IInv
BY DEF Init, IInv, TypeOK, InOnePlace, FreshInv, CarriedInv, FindingsOf,
       RecordedFindingsReported, SpanKind

\* Every step keeps the invariant.
LEMMA NextInv == IInv /\ [Next]_vars => IInv'
<1> SUFFICES ASSUME IInv, [Next]_vars PROVE IInv'
  OBVIOUS
<1>1. CASE UNCHANGED vars
  BY <1>1 DEF vars, IInv, TypeOK, InOnePlace, FreshInv, CarriedInv,
              FindingsOf, RecordedFindingsReported
<1>2. ASSUME NEW r \in Provider, NEW t \in AnyThread,
             \/ \E s \in {"recording", "dropped"} : ProviderPrompt(r, t, s)
             \/ ProviderCompletion(r, t)
      PROVE  IInv'
  BY <1>2, ProviderPromptKeeps, ProviderCompletionKeeps
<1>3. ASSUME NEW r \in Request, NEW t \in Thread, NEW s \in SpanKind,
             \/ LangChainSync(r, t, s)
             \/ LlamaIndexSync(r, t, s)
             \/ OtherSpan(r, t, s)
      PROVE  IInv'
  BY <1>3, LangChainSyncKeeps, LlamaIndexSyncKeeps, OtherSpanKeeps
<1>4. ASSUME NEW r \in Request, NEW w \in Worker,
             ScreenPrompt(r, w) \/ ScreenCompletion(r, w)
      PROVE  IInv'
  BY <1>4, ScreenPromptKeeps, ScreenCompletionKeeps
<1>5. ASSUME NEW r \in Request, NEW s \in SpanKind, Start(r, s)
      PROVE  IInv'
  BY <1>5, StartKeeps
<1>6. ASSUME NEW r \in Request,
             \/ Enter(r) \/ StartSuppressed(r) \/ InjectCompletion(r)
             \/ LLMEnd(r) \/ EndEvent(r) \/ Exit(r) \/ Abandon(r)
      PROVE  IInv'
  BY <1>6, EnterKeeps, StartSuppressedKeeps, InjectCompletionKeeps,
     LLMEndKeeps, EndEventKeeps, ExitKeeps, AbandonKeeps
<1> QED
  BY <1>1, <1>2, <1>3, <1>4, <1>5, <1>6 DEF Next

\* The inductive invariant holds in every reachable state.
THEOREM Invariant == Spec => []IInv
BY InitInv, NextInv, PTL DEF Spec

\* Every variable keeps its type, and only a task that awaits carries findings.
THEOREM TypeCorrect == Spec => []TypeOK
<1>1. IInv => TypeOK
  BY DEF IInv
<1> QED
  BY <1>1, Invariant, PTL

\* No buffer, task or span shares a finding with another: discard, emit,
\* drain and inject move findings, they never copy one.
THEOREM AlwaysInOnePlace == Spec => []InOnePlace
<1>1. IInv => InOnePlace
  BY DEF IInv
<1> QED
  BY <1>1, Invariant, PTL

\* A request whose span records has all its findings on it, whatever the
\* other requests of its threads do between its steps.
THEOREM RecordedAlwaysReported == Spec => []RecordedFindingsReported
<1>1. IInv => RecordedFindingsReported
  BY DEF IInv
<1> QED
  BY <1>1, Invariant, PTL
\* A LangChain request that runs on one thread ends with no finding of
\* another request on its span: its wrapper discards what it finds.
THEOREM SyncAlwaysKeepsStrangersOff == Spec => SyncKeepsStrangersOff
<1> DEFINE Kept0 == \A r \in LangChain :
                      pc[r] = "new" /\ pc'[r] = "done" => Strangers(r)' = {}
<1>1. ASSUME IInv, [Next]_vars PROVE [Kept0]_vars
  <2> SUFFICES ASSUME NEW r \in LangChain, Next,
                      pc[r] = "new", pc'[r] = "done"
               PROVE  Strangers(r)' = {}
    BY <1>1
  <2>1. /\ r \in Request /\ r \notin Provider /\ r \notin LlamaIndex
        /\ pc \in [Request -> {"new", "prompt", "orphan", "screened",
                               "running", "answered", "ending", "done"}]
        /\ events \in [Request -> SUBSET made] /\ events[r] = {}
    BY <1>1, RequestAssumption DEF IInv, TypeOK, Request
  <2>2. PICK t \in Thread, s \in SpanKind : LangChainSync(r, t, s)
    <3>1. ASSUME NEW q \in Provider, NEW t \in AnyThread,
                 \/ \E s \in {"recording", "dropped"} : ProviderPrompt(q, t, s)
                 \/ ProviderCompletion(q, t)
          PROVE  pc'[r] = pc[r]
      BY <2>1, <3>1 DEF ProviderPrompt, ProviderCompletion
    <3>2. ASSUME NEW q \in Request, NEW t \in Thread, NEW s \in SpanKind,
                 LlamaIndexSync(q, t, s) \/ OtherSpan(q, t, s)
          PROVE  pc'[r] = pc[r]
      BY <2>1, <3>2 DEF LlamaIndexSync, OtherSpan
    <3>3. ASSUME NEW q \in Request, NEW t \in Thread, NEW s \in SpanKind,
                 LangChainSync(q, t, s), q # r
          PROVE  pc'[r] = pc[r]
      BY <2>1, <3>3 DEF LangChainSync
    <3>4. ASSUME NEW q \in Request, NEW w \in Worker,
                 ScreenPrompt(q, w) \/ ScreenCompletion(q, w)
          PROVE  pc'[r] = pc[r]
      BY <2>1, <3>4 DEF ScreenPrompt, ScreenCompletion
    <3>5. ASSUME NEW q \in Request, NEW s \in SpanKind, Start(q, s)
          PROVE  pc'[r] = pc[r]
      BY <2>1, <3>5 DEF Start
    <3>6. ASSUME NEW q \in Request,
                 \/ Enter(q) \/ StartSuppressed(q) \/ InjectCompletion(q)
                 \/ LLMEnd(q) \/ EndEvent(q) \/ Exit(q) \/ Abandon(q)
          PROVE  pc'[r] # "done"
      BY <2>1, <3>6
      DEF Enter, StartSuppressed, InjectCompletion, LLMEnd, EndEvent, Exit,
          Abandon
    <3> QED
      BY <3>1, <3>2, <3>3, <3>4, <3>5, <3>6 DEF Next
  <2>3. PICK p \in MayFind(r, "prompt"), c \in MayFind(r, "completion") :
          events' = Written(r, s, ({} \cup p) \cup c)
    BY <2>2 DEF LangChainSync, Kept
  <2>4. \A f \in p \cup c : f[1] = r
    BY DEF MayFind
  <2>5. \A f \in events'[r] : f[1] = r
    BY <2>1, <2>3, <2>4 DEF Written
  <2> QED
    BY <2>5 DEF Strangers
<1> QED
  BY <1>1, Invariant, PTL DEF Spec, SyncKeepsStrangersOff

-----------------------------------------------------------------------------
(* The depth. *)

\* The requests that the depth counts.
Inside ==
  {r \in LlamaIndex : pc[r] \in {"prompt", "screened", "running", "answered"}}

\* No request of LlamaIndex waits for on_llm_end, so that none leaves twice.
DepthInv == DepthCounts /\ \A r \in LlamaIndex : pc[r] # "ending"

\* The requests inside are finitely many.
LEMMA InsideFinite == IsFiniteSet(Inside) /\ Cardinality(Inside) \in Nat
BY FiniteAssumption, FS_Subset, FS_CardinalityType DEF Inside

\* A request that comes in adds one.
LEMMA EnterCounts ==
  ASSUME TypeOK, DepthInv, NEW r \in Request, Enter(r)
  PROVE  DepthInv'
<1>1. /\ pc[r] = "new" /\ depth' = Deeper(r)
      /\ pc' = [pc EXCEPT ![r] = "prompt"]
  BY DEF Enter
<1>2. \A q \in LlamaIndex : pc'[q] # "ending"
  BY <1>1 DEF TypeOK, DepthInv, Request
<1>3. CASE r \in LlamaIndex
  <2>1. Inside' = Inside \cup {r} /\ r \notin Inside
    BY <1>1, <1>3 DEF Inside, TypeOK, Request
  <2>2. Cardinality(Inside') = Cardinality(Inside) + 1
    BY <2>1, InsideFinite, FS_AddElement
  <2>3. depth' = [depth EXCEPT ![Loop] = @ + 1] /\ Loop \in Thread
    BY <1>1, <1>3, ThreadAssumption DEF Deeper
  <2> QED
    BY <1>2, <2>2, <2>3 DEF DepthInv, DepthCounts, Inside, TypeOK
<1>4. CASE r \notin LlamaIndex
  <2>1. Inside' = Inside /\ depth' = depth
    BY <1>1, <1>4 DEF Inside, TypeOK, Request, Deeper
  <2> QED
    BY <1>2, <2>1 DEF DepthInv, DepthCounts, Inside
<1> QED
  BY <1>3, <1>4

\* A request that leaves, in order or early, takes one away.
LEMMA LeaveCounts ==
  ASSUME TypeOK, DepthInv, NEW r \in Request, Exit(r) \/ Abandon(r)
  PROVE  DepthInv'
<1>1. /\ pc[r] \in {"prompt", "screened", "running", "answered", "ending"}
      /\ depth' = Shallower(r)
      /\ \E to \in {"orphan", "done"} : pc' = [pc EXCEPT ![r] = to]
  BY DEF Exit, Abandon
<1>2. \A q \in LlamaIndex : pc'[q] # "ending"
  BY <1>1 DEF TypeOK, DepthInv, Request
<1>3. CASE r \in LlamaIndex
  <2>1. Inside' = Inside \ {r} /\ r \in Inside
    BY <1>1, <1>3 DEF Inside, TypeOK, DepthInv, Request
  <2>2. /\ Cardinality(Inside') = Cardinality(Inside) - 1
        /\ Cardinality(Inside') \in Nat
    BY <2>1, InsideFinite, FS_RemoveElement, FS_CardinalityType
  <2>3. /\ depth' = [depth EXCEPT ![Loop] = IF @ = 0 THEN 0 ELSE @ - 1]
        /\ Loop \in Thread
    BY <1>1, <1>3, ThreadAssumption DEF Shallower
  <2>4. depth[Loop] = Cardinality(Inside) /\ depth[Loop] # 0
    BY <2>2, InsideFinite DEF DepthInv, DepthCounts, Inside
  <2> QED
    BY <1>2, <2>2, <2>3, <2>4 DEF DepthInv, DepthCounts, Inside, TypeOK
<1>4. CASE r \notin LlamaIndex
  <2>1. Inside' = Inside /\ depth' = depth
    BY <1>1, <1>4 DEF Inside, TypeOK, Request, Shallower
  <2> QED
    BY <1>2, <2>1 DEF DepthInv, DepthCounts, Inside
<1> QED
  BY <1>3, <1>4

\* Every other step leaves the depth and the requests inside alone.
LEMMA OthersKeepInside ==
  ASSUME TypeOK, DepthInv, [Next]_vars,
         \A r \in Request : ~(Enter(r) \/ Exit(r) \/ Abandon(r))
  PROVE  DepthInv'
<1> SUFFICES /\ depth' = depth /\ Inside' = Inside
             /\ \A r \in LlamaIndex : pc'[r] # "ending"
  BY DEF DepthInv, DepthCounts, Inside
<1> DEFINE Count == {"prompt", "screened", "running", "answered"}
           Keeps(r, to) == /\ depth' = depth /\ pc' = [pc EXCEPT ![r] = to]
                           /\ r \in LlamaIndex => to # "ending"
                           /\ r \in LlamaIndex =>
                                (pc[r] \in Count <=> to \in Count)
<1>1. ASSUME NEW r \in Request, NEW to, Keeps(r, to)
      PROVE  /\ depth' = depth /\ Inside' = Inside
             /\ \A q \in LlamaIndex : pc'[q] # "ending"
  BY <1>1 DEF TypeOK, DepthInv, Inside, Request
<1>2. CASE UNCHANGED vars
  BY <1>2 DEF vars, DepthInv, Inside
<1>3. CASE Next
  <2> SUFFICES \E r \in Request,
                  to \in Count \cup {"orphan", "ending", "done"} : Keeps(r, to)
    BY <1>1
  <2>1. ASSUME NEW r \in Provider, NEW t \in AnyThread,
               \/ \E s \in {"recording", "dropped"} : ProviderPrompt(r, t, s)
               \/ ProviderCompletion(r, t)
        PROVE  r \in Request /\ (Keeps(r, "running") \/ Keeps(r, "done"))
    BY <2>1, RequestAssumption DEF ProviderPrompt, ProviderCompletion, Request
  <2>2. ASSUME NEW r \in Request, NEW t \in Thread, NEW s \in SpanKind,
               \/ LangChainSync(r, t, s)
               \/ LlamaIndexSync(r, t, s)
               \/ OtherSpan(r, t, s)
        PROVE  Keeps(r, "done")
    BY <2>2 DEF LangChainSync, LlamaIndexSync, OtherSpan
  <2>3. ASSUME NEW r \in Request, NEW w \in Worker, ScreenPrompt(r, w)
        PROVE  Keeps(r, "done") \/ Keeps(r, "screened")
    BY <2>3 DEF ScreenPrompt
  <2>4. ASSUME NEW r \in Request, NEW w \in Worker, ScreenCompletion(r, w)
        PROVE  Keeps(r, "answered")
    BY <2>4, RequestAssumption DEF ScreenCompletion
  <2>5. ASSUME NEW r \in Request, NEW s \in SpanKind, Start(r, s)
        PROVE  Keeps(r, "running")
    BY <2>5 DEF Start
  <2>6. ASSUME NEW r \in Request,
               \/ StartSuppressed(r) \/ InjectCompletion(r)
               \/ LLMEnd(r) \/ EndEvent(r)
        PROVE  \/ Keeps(r, "running") \/ Keeps(r, "ending")
               \/ Keeps(r, "done") \/ Keeps(r, "answered")
    BY <2>6, RequestAssumption
    DEF StartSuppressed, InjectCompletion, LLMEnd, EndEvent
  <2> HIDE DEF Keeps
  <2> QED
    BY <1>3, <2>1, <2>2, <2>3, <2>4, <2>5, <2>6 DEF Next
<1> QED
  BY <1>2, <1>3

\* The shared depth counts the requests of LlamaIndex in progress: a failure
\* or a cancellation never leaves it above zero for good, and so a later
\* outermost wrapper discards again.
THEOREM DepthAlwaysCounts == Spec => []DepthCounts
<1>1. Init => DepthInv
  <2> SUFFICES ASSUME Init PROVE DepthInv
    OBVIOUS
  <2>1. Inside = {}
    BY DEF Init, Inside, Request
  <2>2. depth[Loop] = 0 /\ \A t \in Thread : depth[t] = 0
    BY ThreadAssumption DEF Init
  <2>3. \A r \in LlamaIndex : pc[r] # "ending"
    BY DEF Init, Request
  <2> QED
    BY <2>1, <2>2, <2>3, FS_EmptySet DEF DepthInv, DepthCounts, Inside
<1>2. TypeOK /\ DepthInv /\ [Next]_vars => DepthInv'
  BY EnterCounts, LeaveCounts, OthersKeepInside
<1>3. DepthInv => DepthCounts
  BY DEF DepthInv
<1> QED
  BY <1>1, <1>2, <1>3, TypeCorrect, PTL DEF Spec

\* What threads and tasks share is accounted for, at every moment: each finding
\* has one place, and the depth counts the tasks in progress.
THEOREM SharedAlwaysAccounted == Spec => []SharedAccounted
<1>1. InOnePlace /\ DepthCounts => SharedAccounted
  BY DEF SharedAccounted
<1> QED
  BY <1>1, AlwaysInOnePlace, DepthAlwaysCounts, PTL

-----------------------------------------------------------------------------
(* The operations of the dispatcher. *)
Owned == [owner : Ops, span : {TRUE}, suppress : Switches]
OpContexts == Seq(Owned)
Marks == [flow : Flows, old : OpContexts]

Begun(o) == state[o] # "idle"
Remembered(o) == token[o][1].old

\* The context of an operation, or the empty one.
Known(x) == x = <<>> \/ \E o \in Ops : Begun(o) /\ x = context[o]

\* The operation, what it made current, and what was current before.
ContextFits(o) ==
  Begun(o) => /\ context[o] # <<>> /\ context[o][Len(context[o])].owner = o
              /\ token[o] = <<token[o][1]>> /\ token[o][1].flow = flow[o]
              /\ Known(Remembered(o))

\* The chain of its parents.
LineageFits(o) ==
  /\ ~Begun(o) => lineage[o] = <<>>
  /\ Begun(o) => /\ Len(lineage[o]) > 0 /\ lineage[o][1] = o
                 /\ \A i, j \in DOMAIN lineage[o] : lineage[o][i] = lineage[o][j] => i = j
                 /\ \A i \in DOMAIN lineage[o] : Begun(lineage[o][i])

\* Its end.
OpEndFits(o) ==
  /\ ends[o] = IF active[o] THEN 0 ELSE 1
  /\ ~Begun(o) => active[o] /\ o \notin astray
  /\ o \in streams => state[o] = "exited"
  /\ o \in waiting => active[o] \/ raised
  /\ active[o] => state[o] \in {"idle", "open", "dropped"} \/ o \in waiting
  /\ ~active[o] /\ state[o] = "open" => raised
  /\ ~active[o] /\ state[o] \in {"open", "dropped"} =>
       \E q \in streams \ {o} : ~active[q] /\ o \in Members(lineage[q])

OpTypes ==
  /\ ambient \in [Flows -> OpContexts] /\ flow \in [Ops -> Flows]
  /\ state \in [Ops -> {"idle", "open", "exited", "dropped"}] /\ kind \in [Ops -> Kinds]
  /\ lineage \in [Ops -> Seq(Ops)] /\ context \in [Ops -> OpContexts]
  /\ token \in [Ops -> Seq(Marks)]
  /\ active \in [Ops -> BOOLEAN] /\ ends \in [Ops -> Nat]
  /\ waiting \subseteq streams /\ streams \subseteq Ops
  /\ raised \in BOOLEAN /\ astray \subseteq Ops

\* o goes on in flow f.
At(o, f) == Begun(o) /\ flow[o] = f

\* In a flow in which every operation was taken off the top, a context is
\* current or remembered by one operation that goes on, and its own goes on.
Neat(f) == \A o \in astray : flow[o] # f

Piled(f) ==
  /\ \A o \in Ops : At(o, f) /\ ambient[f] = context[o] => active[o]
  /\ \A o, s \in Ops : At(o, f) /\ At(s, f) /\ active[s] /\ Remembered(s) = context[o] =>
       active[o] /\ ambient[f] # context[o]
  /\ \A o, s, t \in Ops :
       At(o, f) /\ At(s, f) /\ At(t, f) /\ active[s] /\ active[t]
       /\ Remembered(s) = context[o] /\ Remembered(t) = context[o] => s = t

OpIInv ==
  /\ OpTypes
  /\ \A o \in Ops : ContextFits(o) /\ LineageFits(o) /\ OpEndFits(o)
  /\ \A f \in Flows : Known(ambient[f])
  /\ \A f \in Flows : Neat(f) => Piled(f)

-----------------------------------------------------------------------------
(* What is current after a chain of operations. *)

\* A set of places in a chain has a last one.
LEMMA LastPlace ==
  ASSUME NEW n \in Nat, NEW S \in SUBSET (1..n), S # {}
  PROVE  \E i \in S : \A j \in S : j <= i
<1> DEFINE left == {n - i : i \in S}
<1>1. left \subseteq Nat
  OBVIOUS
<1>2. PICK k \in S : TRUE
  OBVIOUS
<1>3. n - k \in left
  BY <1>2
<1>4. PICK x \in left : \A y \in left : x <= y
  <2> DEFINE less == {ss \in Nat \X Nat : ss[1] < ss[2]}
  <2>1. IsWellFoundedOn(less, Nat)
    BY NatLessThanWellFounded DEF OpToRel
  <2>2. \A x, y \in Nat : <<y, x>> \in less <=> y < x
    OBVIOUS
  <2> HIDE DEF left, less
  <2>3. PICK x \in left : \A y \in left : <<y, x>> \notin less
    BY <1>1, <1>3, <2>1, WFMin
  <2>4. \A y \in left : ~(y < x)
    BY <1>1, <2>2, <2>3
  <2>5. \A y \in left : x <= y
    BY <1>1, <2>4
  <2> QED BY <2>5
<1>5. PICK i \in S : x = n - i
  BY <1>4
<1>6. ASSUME NEW j \in S
      PROVE  j <= i
  <2>1. n - i <= n - j
    BY <1>4, <1>5
  <2>2. i \in 1..n /\ j \in 1..n
    OBVIOUS
  <2> QED BY ONLY <2>1, <2>2, n \in Nat
<1> QED BY <1>6

LEMMA RestoredIs ==
  ASSUME NEW c \in Seq(Ops), NEW places \in SUBSET DOMAIN c, NEW f
  PROVE  LET here == {i \in places : token[c[i]][1].flow = f}
         IN  \/ here = {} /\ Restored(places, c, f) = ambient[f]
             \/ \E i \in here : /\ \A j \in here : j <= i
                                /\ Restored(places, c, f) = Remembered(c[i])
<1> DEFINE here == {i \in places : token[c[i]][1].flow = f}
           last == CHOOSE i \in here : \A j \in here : j <= i
<1>1. Restored(places, c, f) = IF here = {} THEN ambient[f] ELSE Remembered(c[last])
  BY DEF Restored, Remembered
<1>2. here \in SUBSET (1..Len(c)) /\ Len(c) \in Nat
  BY LenProperties
<1> HIDE DEF here
<1>3. here # {} => last \in here /\ \A j \in here : j <= last
  <2>1. here # {} => \E i \in here : \A j \in here : j <= i
    BY <1>2, LastPlace
  <2> QED BY <2>1
<1> HIDE DEF last
<1>4. \/ here = {} /\ Restored(places, c, f) = ambient[f]
      \/ \E i \in here : /\ \A j \in here : j <= i
                         /\ Restored(places, c, f) = Remembered(c[i])
  BY <1>1, <1>3
<1> QED BY <1>4 DEF here

\* The invariant of one operation, and of what is current.
LEMMA Fits ==
  ASSUME OpIInv
  PROVE  /\ OpTypes /\ \A f \in Flows : Known(ambient[f]) /\ (Neat(f) => Piled(f))
         /\ \A o \in Ops : ContextFits(o) /\ LineageFits(o) /\ OpEndFits(o)
BY DEF OpIInv

\* The context of an operation is its own.
LEMMA OwnContexts ==
  ASSUME OpIInv
  PROVE  \A o, q \in Ops : Begun(o) /\ Begun(q) /\ context[o] = context[q] => o = q
BY Fits DEF ContextFits

-----------------------------------------------------------------------------
(* A chain of operations ends. *)

\* The chain of a stream, or the operation alone.
Chain(c) ==
  /\ c \in Seq(Ops)
  /\ \A i, j \in DOMAIN c : c[i] = c[j] => i = j
  /\ \A i \in DOMAIN c : Begun(c[i])

\* What end() of a chain changes.
LEMMA EndAllChanges ==
  ASSUME OpIInv, NEW c, Chain(c), NEW f \in Flows, EndAll(c, f)
  PROVE  /\ \A o \in Ops : /\ active'[o] <=> active[o] /\ o \notin Members(c)
                           /\ ends'[o] = IF active'[o] THEN 0 ELSE 1
         /\ active' \in [Ops -> BOOLEAN] /\ ends' \in [Ops -> Nat]
         /\ astray \subseteq astray' /\ astray' \subseteq Ops
         /\ \A i \in Ending(c) : ~OnTop(i, c, f) => c[i] \in astray'
         /\ \A o \in astray' : o \in astray \/ Begun(o)
         /\ ambient' = [ambient EXCEPT ![f] = Restored(Ending(c), c, f)]
         /\ \/ Restored(Ending(c), c, f) = ambient[f]
            \/ \E q \in Ops : Begun(q) /\ Restored(Ending(c), c, f) = Remembered(q)
<1> DEFINE ending == {c[i] : i \in Ending(c)}
<1>1. /\ active' = [o \in Ops |-> active[o] /\ o \notin ending]
      /\ ends' = [o \in Ops |-> IF o \in ending THEN ends[o] + 1 ELSE ends[o]]
      /\ ambient' = [ambient EXCEPT ![f] = Restored(Ending(c), c, f)]
      /\ astray' = astray \cup {c[i] : i \in {i \in Ending(c) : ~OnTop(i, c, f)}}
  BY DEF EndAll, Attach
<1>2. /\ active \in [Ops -> BOOLEAN] /\ ends \in [Ops -> Nat] /\ astray \subseteq Ops
      /\ \A o \in Ops : ends[o] = IF active[o] THEN 0 ELSE 1
  BY Fits DEF OpTypes, OpEndFits
<1>3. /\ Ending(c) \subseteq DOMAIN c /\ \A i \in DOMAIN c : c[i] \in Ops /\ Begun(c[i])
  <2>1. \A i \in DOMAIN c : c[i] \in Ops
    BY LenProperties, ElementOfSeq DEF Chain
  <2> QED BY <2>1 DEF Chain, Ending
<1>4. \A o : o \in ending <=> o \in Members(c) /\ active[o]
  BY DEF Ending, Members
<1> HIDE DEF ending
<1>5. \A o \in Ops : /\ active'[o] <=> active[o] /\ o \notin Members(c)
                     /\ ends'[o] = IF active'[o] THEN 0 ELSE 1
  <2> TAKE o \in Ops
  <2>1. active'[o] <=> active[o] /\ o \notin ending
    BY <1>1
  <2>2. ends'[o] = IF o \in ending THEN ends[o] + 1 ELSE ends[o]
    BY <1>1
  <2>3. 0 + 1 = 1
    OBVIOUS
  <2> QED BY <1>2, <1>4, <2>1, <2>2, <2>3
<1>6. active' \in [Ops -> BOOLEAN] /\ ends' \in [Ops -> Nat]
  <2>1. \A o \in Ops : (active[o] /\ o \notin ending) \in BOOLEAN
    OBVIOUS
  <2>2. \A n \in Nat : n + 1 \in Nat
    OBVIOUS
  <2> QED BY <1>1, <1>2, <2>1, <2>2
<1>7. \/ Restored(Ending(c), c, f) = ambient[f]
      \/ \E q \in Ops : Begun(q) /\ Restored(Ending(c), c, f) = Remembered(q)
  <2>1. \/ Restored(Ending(c), c, f) = ambient[f]
        \/ \E i \in Ending(c) : Restored(Ending(c), c, f) = Remembered(c[i])
    BY <1>3, RestoredIs DEF Chain
  <2> QED BY <1>3, <2>1
<1>8. /\ astray \subseteq astray' /\ astray' \subseteq Ops
      /\ \A i \in Ending(c) : ~OnTop(i, c, f) => c[i] \in astray'
      /\ \A o \in astray' : o \in astray \/ Begun(o)
  BY <1>1, <1>2, <1>3
<1> QED BY <1>1, <1>5, <1>6, <1>7, <1>8

\* Where a flow stays neat the chain was taken off its top.
LEMMA EndAllPiles ==
  ASSUME OpIInv, NEW c, Chain(c), NEW f \in Flows, EndAll(c, f),
         UNCHANGED <<flow, context, token>>, \A o \in Ops : Begun(o)' <=> Begun(o),
         NEW g \in Flows, Neat(g)'
  PROVE  Piled(g)'
<1> DEFINE here == {i \in Ending(c) : token[c[i]][1].flow = f}
           R == Restored(Ending(c), c, f)
<1>1. /\ OpTypes /\ \A o \in Ops : ContextFits(o)
      /\ \A i \in DOMAIN c : c[i] \in Ops
  BY Fits, LenProperties, ElementOfSeq DEF Chain
<1>2. /\ \A o \in Ops : active'[o] <=> active[o] /\ o \notin Members(c)
      /\ astray \subseteq astray'
      /\ \A i \in Ending(c) : ~OnTop(i, c, f) => c[i] \in astray'
      /\ ambient' = [ambient EXCEPT ![f] = R]
  BY EndAllChanges
<1>3. Piled(g)
  BY <1>2, Fits DEF Neat
<1>4. /\ Ending(c) \subseteq DOMAIN c
      /\ \A i \in Ending(c) : active[c[i]] /\ Begun(c[i]) /\ c[i] \in Ops
      /\ \A o \in Ops : active[o] /\ ~active'[o] => \E i \in Ending(c) : o = c[i]
  BY <1>1, <1>2 DEF Ending, Chain, Members
<1>5. \A i \in Ending(c) : flow[c[i]] = g => OnTop(i, c, f)
  BY <1>2, <1>4 DEF Neat
<1>6. \A i \in Ending(c) : token[c[i]][1].flow = flow[c[i]]
  BY <1>1, <1>4 DEF ContextFits
<1>7. \A i \in Ending(c) : ~active'[c[i]]
  BY <1>2, <1>4 DEF Members
<1>8. \A o \in Ops : (At(o, g)' <=> At(o, g)) /\ Remembered(o)' = Remembered(o)
  BY DEF At, Remembered
<1>9. CASE g # f
  <2>1. ambient'[g] = ambient[g]
    BY <1>1, <1>2, <1>9 DEF OpTypes
  <2>2. \A o \in Ops : At(o, g) => (active'[o] <=> active[o])
    <3>1. ASSUME NEW i \in Ending(c)
          PROVE  flow[c[i]] # g
      BY <1>5, <1>6, <1>9 DEF OnTop
    <3> QED BY <1>2, <1>4, <3>1 DEF At
  <2> QED BY <1>3, <1>8, <2>1, <2>2 DEF Piled
<1>10. CASE g = f
  <2>1. ambient'[f] = R
    BY <1>1, <1>2 DEF OpTypes
  <2>2. \A i \in Ending(c) : i \in here <=> flow[c[i]] = f
    BY <1>6
  <2>3. \A o \in Ops : At(o, f) => (active'[o] <=> active[o] /\ \A i \in here : o # c[i])
    BY <1>2, <1>4, <1>7, <2>2 DEF At
  <2>4. ASSUME NEW i \in here
        PROVE  \/ context[c[i]] = ambient[f]
               \/ \E j \in here : j < i /\ context[c[i]] = Remembered(c[j])
    <3> DEFINE before == {j \in Ending(c) : j < i}
    <3>1. context[c[i]] = Restored(before, c, f)
      BY <1>5, <1>10, <2>2 DEF OnTop
    <3>2. before \in SUBSET DOMAIN c
      BY <1>4
    <3>3. \/ Restored(before, c, f) = ambient[f]
          \/ \E j \in before : /\ token[c[j]][1].flow = f
                               /\ Restored(before, c, f) = Remembered(c[j])
      <4> HIDE DEF before
      <4> QED BY <3>2, RestoredIs DEF Chain
    <3> QED BY <3>1, <3>3
  <2>5. \/ here = {} /\ R = ambient[f]
        \/ \E m \in here : (\A j \in here : j <= m) /\ R = Remembered(c[m])
    BY <1>4, RestoredIs DEF Chain
  <2>6. \A i \in here : c[i] \in Ops /\ At(c[i], f) /\ active[c[i]] /\ i \in DOMAIN c
    BY <1>4, <2>2 DEF At
  <2>7. \A i, j \in here : c[i] = c[j] => i = j
    BY <1>4 DEF Chain
  <2>8. \A i \in here : i \in Int
    BY <2>6, LenProperties DEF Chain
  <2> HIDE DEF here, R
  <2>9. CASE here = {} /\ R = ambient[f]
    <3>1. \A o \in Ops : At(o, f) => (active'[o] <=> active[o])
      BY <2>3, <2>9
    <3> QED BY <1>3, <1>8, <1>10, <2>1, <2>9, <3>1 DEF Piled
  <2>10. ASSUME NEW m \in here, \A j \in here : j <= m, R = Remembered(c[m])
         PROVE  Piled(g)'
    <3>1. ASSUME NEW o \in Ops, NEW s \in Ops, At(o, f), At(s, f), active[s],
                 Remembered(s) = context[o], active'[s] \/ s = c[m]
          PROVE  active'[o]
      <4>1. active[o] /\ ambient[f] # context[o]
        BY <1>3, <1>10, <3>1 DEF Piled
      <4>2. ASSUME NEW i \in here, o = c[i]
            PROVE  FALSE
        <5>1. PICK j \in here : j < i /\ context[o] = Remembered(c[j])
          BY <2>4, <4>1, <4>2
        <5>2. s = c[j]
          BY <1>3, <1>10, <2>6, <3>1, <5>1 DEF Piled
        <5>3. s = c[m] /\ j = m
          BY <2>3, <2>7, <3>1, <5>2
        <5>4. i <= m /\ m < i /\ i \in Int /\ m \in Int
          BY <2>8, <2>10, <5>1, <5>3
        <5> QED BY ONLY <5>4
      <4> QED BY <2>3, <3>1, <4>1, <4>2
    <3>2. ASSUME NEW o \in Ops, NEW s \in Ops, At(o, f), At(s, f), active'[s],
                 Remembered(s) = context[o]
          PROVE  R # context[o]
      <4>1. active[s] /\ s # c[m]
        BY <2>3, <3>2
      <4> QED BY <1>3, <1>10, <2>6, <2>10, <3>2, <4>1 DEF Piled
    <3>3. ASSUME NEW o \in Ops, At(o, f), R = context[o]
          PROVE  active'[o]
      BY <2>6, <2>10, <3>1, <3>3
    <3>4. \A s \in Ops : At(s, f) /\ active'[s] => active[s]
      BY <2>3
    <3> QED BY <1>3, <1>8, <1>10, <2>1, <3>1, <3>2, <3>3, <3>4 DEF Piled
  <2> QED BY <2>5, <2>9, <2>10
<1> QED BY <1>9, <1>10

\* Known contexts stay known.
LEMMA StayKnown ==
  ASSUME UNCHANGED context, \A o \in Ops : Begun(o) => Begun(o)',
         NEW x, Known(x)
  PROVE  x = <<>> \/ \E o \in Ops : Begun(o)' /\ x = context'[o]
BY DEF Known

\* What a chain leaves but for the ends of its operations.
LEMMA EndAllKeeps ==
  ASSUME OpIInv, NEW c, Chain(c), NEW f \in Flows, EndAll(c, f),
         UNCHANGED <<kind, lineage, flow, context, token>>,
         state' \in [Ops -> {"idle", "open", "exited", "dropped"}],
         \A o \in Ops : Begun(o)' <=> Begun(o),
         waiting' \subseteq streams', streams' \subseteq Ops, raised' \in BOOLEAN,
         \A o \in Ops : OpEndFits(o)'
  PROVE  OpIInv'
<1>1. /\ OpTypes /\ \A g \in Flows : Known(ambient[g])
      /\ \A o \in Ops : ContextFits(o) /\ LineageFits(o)
  BY Fits
<1> DEFINE R == Restored(Ending(c), c, f)
<1>2. /\ active' \in [Ops -> BOOLEAN] /\ ends' \in [Ops -> Nat] /\ astray' \subseteq Ops
      /\ ambient' = [ambient EXCEPT ![f] = R]
      /\ \/ R = ambient[f]
         \/ \E q \in Ops : Begun(q) /\ R = Remembered(q)
  BY EndAllChanges
<1> HIDE DEF R
<1>3. Known(R)
  BY <1>1, <1>2 DEF ContextFits
<1>4. ambient'[f] = R /\ \A g \in Flows \ {f} : ambient'[g] = ambient[g]
  BY <1>1, <1>2 DEF OpTypes
<1>5. \A g \in Flows : Known(ambient[g])'
  <2>1. \A g \in Flows : Known(ambient'[g])
    BY <1>1, <1>3, <1>4
  <2> QED BY <2>1, StayKnown DEF Known
<1>6. OpTypes'
  <2>1. R \in OpContexts
    <3>1. <<>> \in OpContexts
      BY DEF OpContexts
    <3>2. \A o \in Ops : context[o] \in OpContexts
      BY <1>1 DEF OpTypes
    <3> QED BY <1>3, <3>1, <3>2 DEF Known
  <2>2. ambient' \in [Flows -> OpContexts]
    BY <1>1, <1>2, <2>1 DEF OpTypes
  <2> QED BY <1>1, <1>2, <2>2 DEF OpTypes
<1>7. ASSUME NEW o \in Ops
      PROVE  ContextFits(o)' /\ LineageFits(o)'
  <2>1. Begun(o) => Known(Remembered(o))'
    <3>1. Remembered(o)' = Remembered(o)
      BY DEF Remembered
    <3>2. Begun(o) => Known(Remembered(o))
      BY <1>1 DEF ContextFits
    <3> QED BY <3>1, <3>2, StayKnown DEF Known
  <2>2. ContextFits(o)'
    BY <1>1, <2>1 DEF ContextFits
  <2>3. LineageFits(o)'
    <3>1. \A i \in DOMAIN lineage[o] : lineage[o][i] \in Ops
      BY <1>1, LenProperties, ElementOfSeq DEF OpTypes
    <3> QED BY <1>1, <3>1 DEF LineageFits
  <2> QED BY <2>2, <2>3
<1>8. \A g \in Flows : Neat(g)' => Piled(g)'
  BY EndAllPiles
<1> QED BY <1>5, <1>6, <1>7, <1>8 DEF OpIInv

\* Nothing is detached, and no operation of a flow that stays neat ends.
LEMMA QuietKeeps ==
  ASSUME OpIInv, UNCHANGED <<ambient, kind, lineage, flow, context, token>>,
         state' \in [Ops -> {"idle", "open", "exited", "dropped"}],
         active' \in [Ops -> BOOLEAN], ends' \in [Ops -> Nat],
         \A o \in Ops : Begun(o)' <=> Begun(o),
         waiting' \subseteq streams', streams' \subseteq Ops, raised' \in BOOLEAN,
         astray \subseteq astray', astray' \subseteq Ops,
         \A o \in Ops : active'[o] = active[o] \/ o \in astray',
         \A o \in Ops : OpEndFits(o)'
  PROVE  OpIInv'
<1>1. /\ OpTypes /\ \A g \in Flows : Known(ambient[g]) /\ (Neat(g) => Piled(g))
      /\ \A o \in Ops : ContextFits(o) /\ LineageFits(o)
  BY Fits
<1>2. OpTypes'
  BY <1>1 DEF OpTypes
<1>3. \A g \in Flows : Known(ambient[g])'
  BY <1>1, StayKnown DEF Known
<1>4. \A o \in Ops : Remembered(o)' = Remembered(o)
  BY DEF Remembered
<1>5. ASSUME NEW o \in Ops
      PROVE  ContextFits(o)' /\ LineageFits(o)'
  <2>1. Begun(o) => Known(Remembered(o))'
    <3>1. Begun(o) => Known(Remembered(o))
      BY <1>1 DEF ContextFits
    <3> QED BY <1>4, <3>1, StayKnown DEF Known
  <2>2. ContextFits(o)'
    BY <1>1, <2>1 DEF ContextFits
  <2>3. LineageFits(o)'
    <3>1. \A i \in DOMAIN lineage[o] : lineage[o][i] \in Ops
      BY <1>1, LenProperties, ElementOfSeq DEF OpTypes
    <3> QED BY <1>1, <3>1 DEF LineageFits
  <2> QED BY <2>2, <2>3
<1>6. ASSUME NEW g \in Flows, Neat(g)'
      PROVE  Piled(g)'
  <2>1. Piled(g)
    BY <1>1, <1>6 DEF Neat
  <2>2. \A o \in Ops : At(o, g)' <=> At(o, g)
    BY DEF At
  <2>3. \A o \in Ops : At(o, g) => active'[o] = active[o]
    BY <1>6 DEF At, Neat
  <2> QED BY <1>4, <2>1, <2>2, <2>3 DEF Piled
<1> QED BY <1>2, <1>3, <1>5, <1>6 DEF OpIInv

-----------------------------------------------------------------------------
(* The steps. *)

\* A span that ended early did so with a stream that has ended.
LEMMA EarlyStays ==
  ASSUME UNCHANGED lineage, streams \subseteq streams',
         \A q \in streams : active'[q] => active[q],
         NEW o, \E q \in streams \ {o} : ~active[q] /\ o \in Members(lineage[q])
  PROVE  \E q \in streams' \ {o} : ~active'[q] /\ o \in Members(lineage'[q])
OBVIOUS

LEMMA ExitSpanKeeps ==
  ASSUME OpIInv, NEW o \in Ops, NEW f \in Flows, ExitSpan(o, f)
  PROVE  OpIInv'
<1>1. OpTypes /\ \A q \in Ops : ContextFits(q) /\ LineageFits(q) /\ OpEndFits(q)
  BY Fits
<1>2. /\ state[o] = "open" /\ state' = [state EXCEPT ![o] = "exited"]
      /\ UNCHANGED <<kind, lineage, flow, context, token, streams, waiting, raised>>
      /\ IF kind[o] = "workflow" THEN EndAttached(o) ELSE EndAll(<<o>>, f)
  BY DEF ExitSpan
<1>3. /\ state'[o] = "exited" /\ \A q \in Ops \ {o} : state'[q] = state[q]
      /\ state' \in [Ops -> {"idle", "open", "exited", "dropped"}]
      /\ \A q \in Ops : Begun(q)' <=> Begun(q)
  BY <1>1, <1>2 DEF OpTypes, Begun
<1>4. /\ waiting' \subseteq streams' /\ streams' \subseteq Ops /\ raised' \in BOOLEAN
      /\ o \notin streams /\ o \notin waiting
  BY <1>1, <1>2 DEF OpTypes, OpEndFits
<1>5. ASSUME ~active'[o], \A q \in Ops : ends'[q] = IF active'[q] THEN 0 ELSE 1,
             \A q \in Ops \ {o} : active'[q] <=> active[q],
             astray' \subseteq astray \cup {o}
      PROVE  \A q \in Ops : OpEndFits(q)'
  <2> SUFFICES ASSUME NEW q \in Ops
               PROVE  OpEndFits(q)'
    OBVIOUS
  <2>1. CASE q = o
    BY <1>2, <1>3, <1>4, <1>5, <2>1 DEF OpEndFits, Begun
  <2>2. CASE q # o
    <3>1. OpEndFits(q) /\ state'[q] = state[q] /\ (active'[q] <=> active[q])
      BY <1>1, <1>3, <1>5, <2>2
    <3>2. \A s \in streams : active'[s] => active[s]
      BY <1>1, <1>5 DEF OpTypes
    <3>3. ~active[q] /\ state[q] \in {"open", "dropped"} =>
            \E s \in streams' \ {q} : ~active'[s] /\ q \in Members(lineage'[s])
      BY <1>2, <3>1, <3>2, EarlyStays DEF OpEndFits
    <3>4. ends'[q] = IF active'[q] THEN 0 ELSE 1
      BY <1>5
    <3>5. ~Begun(q)' => active'[q] /\ q \notin astray'
      BY <1>3, <1>5, <2>2, <3>1 DEF OpEndFits
    <3> QED BY <1>2, <3>1, <3>3, <3>4, <3>5 DEF OpEndFits
  <2> QED BY <2>1, <2>2
<1>6. CASE kind[o] = "workflow"
  <2>1. /\ active' = [active EXCEPT ![o] = FALSE]
        /\ ends' = [ends EXCEPT ![o] = IF active[o] THEN @ + 1 ELSE @]
        /\ astray' = IF active[o] THEN astray \cup {o} ELSE astray
        /\ UNCHANGED ambient
    BY <1>2, <1>6 DEF EndAttached
  <2>2. /\ ~active'[o] /\ \A q \in Ops \ {o} : active'[q] = active[q]
        /\ active' \in [Ops -> BOOLEAN]
    BY <1>1, <2>1 DEF OpTypes
  <2>3. \A q \in Ops : ends[q] = IF active[q] THEN 0 ELSE 1
    BY <1>1 DEF OpEndFits
  <2>4. \A q \in Ops : ends'[q] = IF active'[q] THEN 0 ELSE 1
    <3>1. ends'[o] = IF active[o] THEN ends[o] + 1 ELSE ends[o]
      BY <1>1, <2>1 DEF OpTypes
    <3>2. ends'[o] = 1
      <4>1. 0 + 1 = 1
        OBVIOUS
      <4> QED BY <2>3, <3>1, <4>1
    <3>3. \A q \in Ops \ {o} : ends'[q] = ends[q]
      BY <1>1, <2>1 DEF OpTypes
    <3> QED BY <2>2, <2>3, <3>2, <3>3
  <2>5. ends' \in [Ops -> Nat]
    <3>1. \A n \in Nat : n + 1 \in Nat
      OBVIOUS
    <3>2. (IF active[o] THEN ends[o] + 1 ELSE ends[o]) \in Nat
      BY <1>1, <3>1 DEF OpTypes
    <3> QED BY <1>1, <2>1, <3>2 DEF OpTypes
  <2>6. /\ astray \subseteq astray' /\ astray' \subseteq astray \cup {o}
        /\ astray' \subseteq Ops
        /\ \A q \in Ops : active'[q] = active[q] \/ q \in astray'
    BY <1>1, <2>1, <2>2 DEF OpTypes
  <2>7. \A q \in Ops : OpEndFits(q)'
    BY <1>5, <2>2, <2>4, <2>6
  <2> QED BY <1>2, <1>3, <1>4, <2>1, <2>2, <2>5, <2>6, <2>7, QuietKeeps
<1>7. CASE kind[o] # "workflow"
  <2> DEFINE c == <<o>>
  <2>1. EndAll(c, f)
    BY <1>2, <1>7
  <2>2. c \in Seq(Ops) /\ DOMAIN c = {1} /\ c[1] = o
    OBVIOUS
  <2> HIDE DEF c
  <2>3. Chain(c) /\ Members(c) = {o}
    BY <1>2, <2>2 DEF Chain, Members, Begun
  <2>4. /\ \A q \in Ops : /\ active'[q] <=> active[q] /\ q \notin Members(c)
                          /\ ends'[q] = IF active'[q] THEN 0 ELSE 1
        /\ astray \subseteq astray'
    BY <2>1, <2>3, EndAllChanges
  <2>5. astray' \subseteq astray \cup {o}
    BY <2>1, <2>2 DEF EndAll, Ending
  <2>6. \A q \in Ops : OpEndFits(q)'
    BY <1>5, <2>3, <2>4, <2>5
  <2> QED BY <1>2, <1>3, <1>4, <2>1, <2>3, <2>6, EndAllKeeps
<1> QED BY <1>6, <1>7

LEMMA StreamEndKeeps ==
  ASSUME OpIInv, NEW o \in Ops, NEW f \in Flows, StreamEndEvent(o, f)
  PROVE  OpIInv'
<1>1. OpTypes /\ \A q \in Ops : ContextFits(q) /\ LineageFits(q) /\ OpEndFits(q)
  BY Fits
<1> DEFINE c == lineage[o]
<1>2. /\ o \in waiting /\ o \in streams /\ EndAll(c, f)
      /\ waiting' = waiting \ Popped(o)
      /\ raised' = (raised \/ \E q \in Members(c) : q \notin waiting)
      /\ UNCHANGED <<state, kind, lineage, flow, context, token, streams>>
  BY DEF StreamEndEvent
<1>3. Begun(o) /\ state[o] = "exited"
  BY <1>1, <1>2 DEF OpEndFits, Begun
<1>4. /\ Chain(c) /\ o \in Members(c)
      /\ \A q \in Members(c) : q \in Ops /\ Begun(q)
  <2>1. /\ c \in Seq(Ops) /\ Len(c) > 0 /\ c[1] = o
        /\ \A i, j \in DOMAIN c : c[i] = c[j] => i = j
        /\ \A i \in DOMAIN c : Begun(c[i])
    BY <1>1, <1>3 DEF LineageFits, OpTypes
  <2> HIDE DEF c
  <2>2. Len(c) \in Nat /\ DOMAIN c = 1..Len(c) /\ \A i \in DOMAIN c : c[i] \in Ops
    BY <2>1, LenProperties, ElementOfSeq
  <2>3. 1 \in DOMAIN c
    BY <2>1, <2>2
  <2> QED BY <2>1, <2>2, <2>3 DEF Chain, Members
<1>5. /\ \A q \in Ops : /\ active'[q] <=> active[q] /\ q \notin Members(c)
                        /\ ends'[q] = IF active'[q] THEN 0 ELSE 1
      /\ \A q \in astray' : q \in astray \/ Begun(q)
  BY <1>2, <1>4, EndAllChanges
<1>6. Popped(o) \subseteq Members(c) /\ (raised' \/ Members(c) \subseteq Popped(o))
  <2>1. Popped(o) \subseteq Members(c)
    BY DEF Popped, Members
  <2>2. ASSUME ~raised', NEW q \in Members(c)
        PROVE  q \in Popped(o)
    <3>1. \A s \in Members(c) : s \in waiting
      BY <1>2, <2>2
    <3>2. PICK i \in DOMAIN c : q = c[i]
      BY DEF Members
    <3>3. \A j \in 1..i : j \in DOMAIN c
      <4>1. DOMAIN c = 1..Len(c) /\ Len(c) \in Nat
        BY <1>4, LenProperties DEF Chain
      <4> HIDE DEF c
      <4> QED BY <4>1
    <3>4. \A j \in 1..i : c[j] \in waiting
      BY <3>1, <3>3 DEF Members
    <3> QED BY <3>2, <3>4 DEF Popped
  <2> QED BY <2>1, <2>2
<1> HIDE DEF c
<1>7. raised => raised'
  BY <1>2
<1>8. ASSUME NEW q \in Ops
      PROVE  OpEndFits(q)'
  <2>1. OpEndFits(q) /\ state' = state /\ streams' = streams
    BY <1>1, <1>2
  <2>2. \A s \in streams : active'[s] => active[s]
    BY <1>1, <1>5 DEF OpTypes
  <2>3. ~active'[q] /\ state[q] \in {"open", "dropped"} =>
          \E s \in streams' \ {q} : ~active'[s] /\ q \in Members(lineage'[s])
    <3>1. CASE ~active[q]
      BY <1>2, <2>1, <2>2, <3>1, EarlyStays DEF OpEndFits
    <3>2. CASE active[q] /\ ~active'[q] /\ state[q] \in {"open", "dropped"}
      <4>1. q \in Members(c) /\ q # o
        BY <1>3, <1>5, <3>2
      <4>2. ~active'[o] /\ o \in streams' /\ lineage'[o] = c
        BY <1>2, <1>4, <1>5 DEF c
      <4> QED BY <4>1, <4>2
    <3> QED BY <3>1, <3>2
  <2>4. ends'[q] = IF active'[q] THEN 0 ELSE 1
    BY <1>5
  <2>5. ~Begun(q)' => active'[q] /\ q \notin astray'
    BY <1>4, <1>5, <2>1 DEF OpEndFits, Begun
  <2>6. q \in waiting' => active'[q] \/ raised'
    BY <1>2, <1>5, <1>6, <1>7, <2>1 DEF OpEndFits
  <2>7. active'[q] => state[q] \in {"idle", "open", "dropped"} \/ q \in waiting'
    BY <1>2, <1>5, <1>6, <2>1 DEF OpEndFits
  <2>8. ~active'[q] /\ state[q] = "open" => raised'
    <3>1. CASE ~active[q]
      BY <1>7, <2>1, <3>1 DEF OpEndFits
    <3>2. CASE active[q] /\ ~active'[q] /\ state[q] = "open"
      <4>1. q \in Members(c) /\ q \notin waiting
        BY <1>1, <1>5, <2>1, <3>2 DEF OpEndFits, OpTypes
      <4> QED BY <1>2, <4>1
    <3> QED BY <3>1, <3>2
  <2> QED BY <2>1, <2>3, <2>4, <2>5, <2>6, <2>7, <2>8 DEF OpEndFits
<1>9. /\ waiting' \subseteq streams' /\ streams' \subseteq Ops /\ raised' \in BOOLEAN
      /\ state' \in [Ops -> {"idle", "open", "exited", "dropped"}]
      /\ \A q \in Ops : Begun(q)' <=> Begun(q)
  BY <1>1, <1>2 DEF OpTypes, Begun
<1> QED BY <1>2, <1>4, <1>8, <1>9, EndAllKeeps

LEMMA ExitStreamingKeeps ==
  ASSUME OpIInv, NEW o \in Ops, ExitStreaming(o)
  PROVE  OpIInv'
<1>1. OpTypes /\ \A q \in Ops : OpEndFits(q)
  BY Fits
<1>2. /\ state[o] = "open" /\ state' = [state EXCEPT ![o] = "exited"]
      /\ streams' = streams \cup {o} /\ waiting' = waiting \cup {o}
      /\ UNCHANGED <<ambient, kind, lineage, flow, context, token, active, ends,
                     raised, astray>>
  BY DEF ExitStreaming
<1>3. /\ state'[o] = "exited" /\ \A q \in Ops \ {o} : state'[q] = state[q]
      /\ state' \in [Ops -> {"idle", "open", "exited", "dropped"}]
      /\ \A q \in Ops : Begun(q)' <=> Begun(q)
  BY <1>1, <1>2 DEF OpTypes, Begun
<1>4. ASSUME NEW q \in Ops
      PROVE  OpEndFits(q)'
  <2>1. CASE q = o
    BY <1>1, <1>2, <1>3, <2>1 DEF OpEndFits, Begun
  <2>2. CASE q # o
    <3>1. OpEndFits(q) /\ state'[q] = state[q]
      BY <1>1, <1>3, <2>2
    <3>2. ~active[q] /\ state[q] \in {"open", "dropped"} =>
            \E s \in streams' \ {q} : ~active'[s] /\ q \in Members(lineage'[s])
      BY <1>2, <3>1, EarlyStays DEF OpEndFits
    <3> QED BY <1>2, <1>3, <2>2, <3>1, <3>2 DEF OpEndFits
  <2> QED BY <2>1, <2>2
<1>5. /\ active' \in [Ops -> BOOLEAN] /\ ends' \in [Ops -> Nat]
      /\ waiting' \subseteq streams' /\ streams' \subseteq Ops /\ raised' \in BOOLEAN
      /\ astray \subseteq astray' /\ astray' \subseteq Ops
      /\ \A q \in Ops : active'[q] = active[q] \/ q \in astray'
  BY <1>1, <1>2 DEF OpTypes
<1> QED BY <1>2, <1>3, <1>4, <1>5, QuietKeeps

LEMMA DropSpanKeeps ==
  ASSUME OpIInv, NEW o \in Ops, DropSpan(o)
  PROVE  OpIInv'
<1>1. OpTypes /\ \A q \in Ops : OpEndFits(q)
  BY Fits
<1>2. /\ state[o] = "open" /\ state' = [state EXCEPT ![o] = "dropped"]
      /\ astray' = IF active[o] THEN astray \cup {o} ELSE astray
      /\ UNCHANGED <<ambient, kind, lineage, flow, context, token, active, ends,
                     streams, waiting, raised>>
  BY DEF DropSpan
<1>3. /\ state'[o] = "dropped" /\ \A q \in Ops \ {o} : state'[q] = state[q]
      /\ state' \in [Ops -> {"idle", "open", "exited", "dropped"}]
      /\ \A q \in Ops : Begun(q)' <=> Begun(q)
  BY <1>1, <1>2 DEF OpTypes, Begun
<1>4. ASSUME NEW q \in Ops
      PROVE  OpEndFits(q)'
  <2>1. OpEndFits(q)
    BY <1>1
  <2>2. CASE q = o
    BY <1>2, <1>3, <2>1, <2>2 DEF OpEndFits, Begun
  <2>3. CASE q # o
    BY <1>2, <1>3, <2>1, <2>3 DEF OpEndFits
  <2> QED BY <2>2, <2>3
<1>5. /\ active' \in [Ops -> BOOLEAN] /\ ends' \in [Ops -> Nat]
      /\ waiting' \subseteq streams' /\ streams' \subseteq Ops /\ raised' \in BOOLEAN
      /\ astray \subseteq astray' /\ astray' \subseteq Ops
      /\ \A q \in Ops : active'[q] = active[q] \/ q \in astray'
  BY <1>1, <1>2 DEF OpTypes
<1> QED BY <1>2, <1>3, <1>4, <1>5, QuietKeeps

\* What new_span() adds: a context that no one knows yet, and a chain.
NewSpanAdds(o, f) ==
  /\ OpTypes'
  /\ Begun(o)' /\ \A q \in Ops \ {o} : Begun(q)' <=> Begun(q)
  /\ \A q \in Ops \ {o} : /\ state'[q] = state[q] /\ flow'[q] = flow[q]
                          /\ lineage'[q] = lineage[q] /\ context'[q] = context[q]
                          /\ token'[q] = token[q]
  /\ state'[o] = "open" /\ flow'[o] = f
  /\ token'[o] = <<token'[o][1]>> /\ token'[o][1].flow = f
  /\ token'[o][1].old = ambient[f]
  /\ ambient'[f] = context'[o] /\ \A g \in Flows \ {f} : ambient'[g] = ambient[g]
  /\ context'[o] # <<>> /\ context'[o][Len(context'[o])].owner = o
  /\ LineageFits(o)'

\* The chain of a new operation: itself, and the chain of an open one.
LEMMA AbovePlus ==
  ASSUME OpIInv, NEW o \in Ops, ~Begun(o), NEW p, p = <<>> \/ p[1] \in Ops,
         NEW c, c = <<o>> \o Above(p)
  PROVE  /\ c \in Seq(Ops) /\ Len(c) > 0 /\ c[1] = o
         /\ \A i, j \in DOMAIN c : c[i] = c[j] => i = j
         /\ \A i \in DOMAIN c : c[i] = o \/ Begun(c[i])
         /\ Above(p) = <<>> \/ Above(p)[1] \in Ops
<1> DEFINE a == Above(p)
           one == <<o>>
<1>1. /\ a \in Seq(Ops)
      /\ \A i, j \in DOMAIN a : a[i] = a[j] => i = j
      /\ \A i \in DOMAIN a : Begun(a[i])
      /\ a = <<>> \/ a[1] \in Ops
  <2>1. OpTypes /\ \A q \in Ops : LineageFits(q)
    BY Fits
  <2>2. CASE p # <<>> /\ state[p[1]] = "open"
    <3>1. a = lineage[p[1]] /\ Begun(p[1]) /\ p[1] \in Ops
      BY <2>2 DEF Above, Begun
    <3> HIDE DEF a
    <3>2. PICK q \in Ops : a = lineage[q] /\ Begun(q)
      BY <3>1
    <3>3. a \in Seq(Ops) /\ LineageFits(q)
      BY <2>1, <3>2 DEF OpTypes
    <3> QED BY <3>2, <3>3 DEF LineageFits
  <2>3. CASE ~(p # <<>> /\ state[p[1]] = "open")
    <3>1. a = <<>>
      BY <2>3 DEF Above
    <3> HIDE DEF a
    <3> QED BY <3>1
  <2> QED BY <2>2, <2>3
<1>2. one \in Seq(Ops) /\ Len(one) = 1 /\ one[1] = o
  OBVIOUS
<1>3. c = one \o a
  OBVIOUS
<1> HIDE DEF a, one
<1>4. /\ c \in Seq(Ops) /\ Len(c) = 1 + Len(a) /\ Len(a) \in Nat
      /\ \A i \in 1..(1 + Len(a)) : c[i] = IF i <= 1 THEN one[i] ELSE a[i - 1]
  <2>1. /\ c \in Seq(Ops) /\ Len(c) = Len(one) + Len(a) /\ Len(a) \in Nat
        /\ \A i \in 1..(Len(one) + Len(a)) :
             c[i] = IF i <= Len(one) THEN one[i] ELSE a[i - Len(one)]
    <3>1. /\ c \in Seq(Ops) /\ Len(c) = Len(one) + Len(a)
          /\ \A i \in 1..(Len(one) + Len(a)) :
               c[i] = IF i <= Len(one) THEN one[i] ELSE a[i - Len(one)]
      BY ONLY <1>1, <1>2, <1>3, ConcatProperties
    <3> QED BY <1>1, <3>1, LenProperties
  <2> QED BY <1>2, <2>1
<1>5. DOMAIN a = 1..Len(a) /\ DOMAIN c = 1..(1 + Len(a))
  BY <1>1, <1>4, LenProperties
<1>6. Len(c) > 0 /\ 1 \in DOMAIN c /\ c[1] = o
  <2>1. 1 \in 1..(1 + Len(a)) /\ 1 + Len(a) > 0
    BY <1>4
  <2> QED BY <1>2, <1>4, <1>5, <2>1
<1>7. \A i \in DOMAIN c : i # 1 => i - 1 \in DOMAIN a /\ c[i] = a[i - 1]
  <2> TAKE i \in DOMAIN c
  <2>1. i # 1 => i - 1 \in 1..Len(a) /\ ~(i <= 1)
    BY <1>4, <1>5
  <2> QED BY <1>4, <1>5, <2>1
<1>8. ASSUME NEW i \in DOMAIN c, NEW j \in DOMAIN c, c[i] = c[j]
      PROVE  i = j
  <2>1. i = 1 <=> j = 1
    BY <1>1, <1>6, <1>7, <1>8
  <2>2. CASE i # 1
    <3>1. i - 1 = j - 1
      BY <1>1, <1>7, <1>8, <2>1, <2>2
    <3>2. i \in Int /\ j \in Int
      BY <1>5
    <3> QED BY ONLY <3>1, <3>2
  <2> QED BY <2>1, <2>2
<1>9. \A i \in DOMAIN c : c[i] = o \/ Begun(c[i])
  BY <1>1, <1>6, <1>7
<1> QED BY <1>1, <1>4, <1>6, <1>8, <1>9 DEF a

LEMMA NewSpanChanges ==
  ASSUME OpIInv, NEW o \in Ops, NEW f \in Flows, NEW p, p = <<>> \/ p[1] \in Ops,
         NewSpan(o, p, f)
  PROVE  NewSpanAdds(o, f)
<1>1. OpTypes
  BY Fits
<1>2. /\ state[o] = "idle" /\ state' = [state EXCEPT ![o] = "open"]
      /\ flow' = [flow EXCEPT ![o] = f]
      /\ lineage' = [lineage EXCEPT ![o] = <<o>> \o Above(p)]
      /\ context' = [context EXCEPT ![o] = Append(Base(Above(p), f), OwnLayer(o))]
      /\ ambient' = [ambient EXCEPT ![f] = context'[o]]
      /\ token' = [token EXCEPT ![o] = <<Token(f)>>]
      /\ UNCHANGED <<kind, active, ends, streams, waiting, raised, astray>>
  BY DEF NewSpan, Attach
<1>3. ~Begun(o)
  BY <1>2 DEF Begun
<1> DEFINE c == <<o>> \o Above(p)
<1>4. /\ c \in Seq(Ops) /\ Len(c) > 0 /\ c[1] = o
      /\ \A i, j \in DOMAIN c : c[i] = c[j] => i = j
      /\ \A i \in DOMAIN c : c[i] = o \/ Begun(c[i])
      /\ Above(p) = <<>> \/ Above(p)[1] \in Ops
  BY <1>3, AbovePlus
<1> DEFINE base == Base(Above(p), f)
           layer == OwnLayer(o)
           mark == Token(f)
           one == <<mark>>
<1>5. base \in OpContexts
  BY <1>1, <1>4 DEF Base, OpTypes
<1>6. layer \in Owned /\ layer.owner = o
  BY DEF OwnLayer, Layer, Owned, Switches
<1>7. mark \in Marks /\ mark.flow = f /\ mark.old = ambient[f]
  BY <1>1 DEF Token, Marks, OpTypes
<1> DEFINE new == Append(base, layer)
<1>8. state' = [state EXCEPT ![o] = "open"] /\ flow' = [flow EXCEPT ![o] = f]
  BY <1>2
<1>9. /\ lineage' = [lineage EXCEPT ![o] = c] /\ context' = [context EXCEPT ![o] = new]
      /\ token' = [token EXCEPT ![o] = one]
  BY <1>2
<1> HIDE DEF c, base, layer, mark
<1>10. one \in Seq(Marks) /\ one = <<one[1]>> /\ one[1] = mark
  BY <1>7
<1>11. new \in OpContexts /\ new # <<>> /\ new[Len(new)].owner = o
  BY <1>5, <1>6, AppendProperties DEF OpContexts
<1> HIDE DEF new, one
<1>12. context'[o] = new /\ lineage'[o] = c /\ token'[o] = one
  BY <1>1, <1>9 DEF OpTypes
<1>13. OpTypes'
  <2>1. /\ state' \in [Ops -> {"idle", "open", "exited", "dropped"}]
        /\ flow' \in [Ops -> Flows]
    BY <1>1, <1>8 DEF OpTypes
  <2>2. /\ lineage' \in [Ops -> Seq(Ops)] /\ context' \in [Ops -> OpContexts]
        /\ token' \in [Ops -> Seq(Marks)]
    BY <1>1, <1>4, <1>9, <1>10, <1>11 DEF OpTypes
  <2>3. ambient' \in [Flows -> OpContexts]
    BY <1>1, <1>2, <1>11, <1>12 DEF OpTypes
  <2> QED BY <1>1, <1>2, <2>1, <2>2, <2>3 DEF OpTypes
<1>14. \A q \in Ops \ {o} : /\ state'[q] = state[q] /\ flow'[q] = flow[q]
                            /\ lineage'[q] = lineage[q] /\ context'[q] = context[q]
                            /\ token'[q] = token[q]
  BY <1>1, <1>8, <1>9 DEF OpTypes
<1>15. /\ state'[o] = "open" /\ flow'[o] = f
       /\ ambient'[f] = context'[o] /\ \A g \in Flows \ {f} : ambient'[g] = ambient[g]
  BY <1>1, <1>2, <1>8 DEF OpTypes
<1>16. Begun(o)' /\ \A q \in Ops \ {o} : Begun(q)' <=> Begun(q)
  BY <1>14, <1>15 DEF Begun
<1>17. /\ context'[o] # <<>> /\ context'[o][Len(context'[o])].owner = o
       /\ token'[o] = <<token'[o][1]>> /\ token'[o][1].flow = f
       /\ token'[o][1].old = ambient[f]
  BY <1>7, <1>10, <1>11, <1>12
<1>18. LineageFits(o)'
  <2>1. \A i \in DOMAIN c : c[i] \in Ops
    BY <1>4, LenProperties, ElementOfSeq
  <2>2. \A q \in Ops : q = o \/ Begun(q) => state'[q] # "idle"
    BY <1>16 DEF Begun
  <2>3. \A i \in DOMAIN c : state'[c[i]] # "idle"
    BY <1>4, <2>1, <2>2
  <2> QED BY <1>4, <1>12, <1>15, <2>3 DEF LineageFits, Begun
<1> QED BY <1>13, <1>14, <1>15, <1>16, <1>17, <1>18 DEF NewSpanAdds

LEMMA NewSpanKeeps ==
  ASSUME OpIInv, NEW o \in Ops, NEW f \in Flows, NEW p, p = <<>> \/ p[1] \in Ops,
         NewSpan(o, p, f)
  PROVE  OpIInv'
<1>1. NewSpanAdds(o, f)
  BY NewSpanChanges
<1>2. /\ OpTypes /\ \A g \in Flows : Known(ambient[g]) /\ (Neat(g) => Piled(g))
      /\ \A q \in Ops : ContextFits(q) /\ LineageFits(q) /\ OpEndFits(q)
  BY Fits
<1>3. ~Begun(o) /\ UNCHANGED <<kind, active, ends, streams, waiting, raised, astray>>
  BY DEF NewSpan, Begun
<1>4. \A q \in Ops \ {o} : /\ Begun(q)' <=> Begun(q)
                           /\ state'[q] = state[q] /\ flow'[q] = flow[q]
                           /\ lineage'[q] = lineage[q] /\ context'[q] = context[q]
                           /\ token'[q] = token[q]
  BY <1>1 DEF NewSpanAdds
<1>5. /\ OpTypes' /\ Begun(o)' /\ LineageFits(o)' /\ state'[o] = "open"
      /\ flow'[o] = f /\ Remembered(o)' = ambient[f]
      /\ ambient'[f] = context'[o] /\ \A g \in Flows \ {f} : ambient'[g] = ambient[g]
  BY <1>1 DEF NewSpanAdds, Remembered
<1>6. ASSUME NEW x, Known(x)
      PROVE  /\ x = <<>> \/ \E q \in Ops : Begun(q)' /\ x = context'[q]
             /\ x # context'[o]
  <2>1. \A q \in Ops : Begun(q) => q # o
    BY <1>3
  <2>2. \A q \in Ops : Begun(q) => context'[q] = context[q] /\ Begun(q)'
    BY <1>4, <2>1
  <2>3. context'[o] # <<>> /\ context'[o][Len(context'[o])].owner = o
    BY <1>1 DEF NewSpanAdds
  <2>4. \A q \in Ops : Begun(q) => context[q] # context'[o]
    BY <1>2, <2>1, <2>3 DEF ContextFits
  <2> QED BY <1>6, <2>2, <2>3, <2>4 DEF Known
<1>7. ASSUME NEW q \in Ops
      PROVE  ContextFits(q)' /\ LineageFits(q)'
  <2>1. CASE q = o
    <3>1. Known(Remembered(o))'
      BY <1>2, <1>5, <1>6 DEF Known
    <3>2. ContextFits(o)'
      BY <1>1, <3>1 DEF NewSpanAdds, ContextFits
    <3> QED BY <1>5, <2>1, <3>2
  <2>2. CASE q # o
    <3>1. Remembered(q)' = Remembered(q)
      BY <1>4, <2>2 DEF Remembered
    <3>2. Begun(q) => Known(Remembered(q))'
      <4>1. Begun(q) => Known(Remembered(q))
        BY <1>2 DEF ContextFits
      <4> QED BY <1>6, <3>1, <4>1 DEF Known
    <3>3. ContextFits(q)'
      BY <1>2, <1>4, <2>2, <3>2 DEF ContextFits
    <3>4. LineageFits(q)'
      <4>1. \A i \in DOMAIN lineage[q] : Begun(q) => state'[lineage[q][i]] # "idle"
        <5>1. \A i \in DOMAIN lineage[q] : lineage[q][i] \in Ops
          BY <1>2, LenProperties, ElementOfSeq DEF OpTypes
        <5>2. \A s \in Ops : Begun(s) => state'[s] # "idle"
          BY <1>4, <1>3 DEF Begun
        <5> QED BY <1>2, <5>1, <5>2 DEF LineageFits
      <4> QED BY <1>2, <1>4, <2>2, <4>1 DEF LineageFits, Begun
    <3> QED BY <3>3, <3>4
  <2> QED BY <2>1, <2>2
<1>8. ASSUME NEW q \in Ops
      PROVE  OpEndFits(q)'
  <2>1. OpEndFits(q) /\ OpEndFits(o)
    BY <1>2
  <2>2. CASE q = o
    <3>1. state[o] = "idle"
      BY <1>3 DEF Begun
    <3>2. active[o] /\ ends[o] = 0 /\ o \notin streams /\ o \notin waiting
      BY <1>2, <1>3, <2>1, <3>1 DEF OpEndFits, OpTypes
    <3> QED BY <1>3, <1>5, <2>2, <3>2 DEF OpEndFits
  <2>3. CASE q # o
    <3>1. \A s \in streams : s \in Ops /\ s # o
      BY <1>2, <1>3 DEF OpTypes, OpEndFits, Begun
    <3>2. ~active[q] /\ state[q] \in {"open", "dropped"} =>
            \E s \in streams' \ {q} : ~active'[s] /\ q \in Members(lineage'[s])
      <4>1. ASSUME NEW s \in streams \ {q}, ~active[s], q \in Members(lineage[s])
            PROVE  s \in streams' \ {q} /\ ~active'[s] /\ q \in Members(lineage'[s])
        BY <1>3, <1>4, <3>1, <4>1
      <4> QED BY <2>1, <4>1 DEF OpEndFits
    <3>3. state'[q] = state[q] /\ (Begun(q)' <=> Begun(q))
      BY <1>4, <2>3
    <3> QED BY <1>3, <2>1, <3>2, <3>3 DEF OpEndFits
  <2> QED BY <2>2, <2>3
<1>9. \A g \in Flows : Known(ambient[g])'
  <2>1. \A g \in Flows \ {f} : Known(ambient[g])'
    BY <1>2, <1>5, <1>6 DEF Known
  <2>2. Known(ambient[f])'
    BY <1>5 DEF Known
  <2> QED BY <2>1, <2>2
<1>10. ASSUME NEW g \in Flows, Neat(g)'
       PROVE  Piled(g)'
  <2>1. \A q \in Ops : At(q, g)' <=> At(q, g) \/ (q = o /\ g = f)
    BY <1>3, <1>4, <1>5 DEF At
  <2>2. Piled(g)
    <3>1. o \notin astray
      BY <1>2, <1>3 DEF OpEndFits
    <3>2. \A q \in astray : q \in Ops \ {o}
      BY <1>2, <3>1 DEF OpTypes
    <3>3. Neat(g)
      BY <1>3, <1>4, <1>10, <3>2 DEF Neat
    <3> QED BY <1>2, <3>3
  <2>3. \A q \in Ops : At(q, g) => /\ q # o /\ context'[q] = context[q]
                                   /\ Remembered(q)' = Remembered(q)
                                   /\ context'[q] # context'[o]
                                   /\ Remembered(q) # context'[o]
    <3> SUFFICES ASSUME NEW q \in Ops, At(q, g)
                 PROVE  /\ q # o /\ context'[q] = context[q]
                        /\ Remembered(q)' = Remembered(q)
                        /\ context'[q] # context'[o] /\ Remembered(q) # context'[o]
      OBVIOUS
    <3>1. q # o /\ Begun(q)
      BY <1>3 DEF At
    <3>2. context'[q] = context[q] /\ Remembered(q)' = Remembered(q)
      BY <1>4, <3>1 DEF Remembered
    <3>3. Known(context[q]) /\ Known(Remembered(q))
      BY <1>2, <3>1 DEF Known, ContextFits
    <3> QED BY <1>6, <3>1, <3>2, <3>3
  <2>4. active' = active
    BY <1>3
  <2>5. CASE g # f
    <3>1. ambient'[g] = ambient[g]
      BY <1>5, <2>5
    <3> QED BY <2>1, <2>2, <2>3, <2>4, <2>5, <3>1 DEF Piled
  <2>6. CASE g = f
    <3>1. /\ active[o] /\ Remembered(o)' = ambient[f] /\ ambient'[f] = context'[o]
          /\ ambient[f] # context'[o]
      BY <1>2, <1>3, <1>5, <1>6 DEF OpEndFits
    <3>2. ASSUME NEW q \in Ops, NEW s \in Ops, At(q, g)', At(s, g)', active[s],
                 Remembered(s)' = context'[q]
          PROVE  /\ active[q] /\ q # o /\ At(q, g)
                 /\ IF s = o THEN ambient[f] = context[q]
                    ELSE /\ At(s, g) /\ Remembered(s) = context[q]
                         /\ ambient[f] # context[q]
      BY <2>1, <2>2, <2>3, <2>6, <3>1, <3>2 DEF Piled
    <3>3. ASSUME NEW q \in Ops, At(q, g)', ambient'[f] = context'[q]
          PROVE  q = o
      BY <2>1, <2>3, <3>1, <3>3
    <3>4. ASSUME NEW q \in Ops, NEW s \in Ops, NEW t \in Ops,
                 At(q, g)', At(s, g)', At(t, g)', active[s], active[t],
                 Remembered(s)' = context'[q], Remembered(t)' = context'[q]
          PROVE  s = t
      <4>1. s = o <=> t = o
        BY <3>2, <3>4
      <4> QED BY <2>2, <3>2, <3>4, <4>1 DEF Piled
    <3> QED BY <2>4, <2>6, <3>1, <3>2, <3>3, <3>4 DEF Piled
  <2> QED BY <2>5, <2>6
<1> QED BY <1>5, <1>7, <1>8, <1>9, <1>10 DEF OpIInv

\* A flow that starts in a copy holds no operation yet.
LEMMA CopyKeeps ==
  ASSUME OpIInv, NEW f \in Flows, NEW g \in Flows, Copy(f, g)
  PROVE  OpIInv'
<1>1. /\ OpTypes /\ \A h \in Flows : Known(ambient[h]) /\ (Neat(h) => Piled(h))
      /\ \A q \in Ops : ContextFits(q) /\ LineageFits(q) /\ OpEndFits(q)
  BY Fits
<1>2. /\ \A o \in Ops : Begun(o) => flow[o] # g
      /\ ambient' = [ambient EXCEPT ![g] = ambient[f]]
      /\ UNCHANGED <<state, kind, lineage, flow, context, token, active, ends,
                     streams, waiting, raised, astray>>
  BY DEF Copy, Attach, Begun
<1>3. ambient'[g] = ambient[f] /\ \A h \in Flows \ {g} : ambient'[h] = ambient[h]
  BY <1>1, <1>2 DEF OpTypes
<1>4. OpTypes'
  BY <1>1, <1>2 DEF OpTypes
<1>5. \A h \in Flows : Known(ambient[h])'
  <2>1. \A h \in Flows : Known(ambient'[h])
    BY <1>1, <1>3
  <2> QED BY <1>2, <2>1 DEF Known, Begun
<1>6. \A q \in Ops : ContextFits(q)' /\ LineageFits(q)' /\ OpEndFits(q)'
  BY <1>1, <1>2 DEF ContextFits, LineageFits, OpEndFits, Begun, Known, Remembered, Members
<1>7. ASSUME NEW h \in Flows, Neat(h)'
      PROVE  Piled(h)'
  <2>1. /\ \A q \in Ops : At(q, h)' <=> At(q, h)
        /\ \A q \in Ops : Remembered(q)' = Remembered(q)
    BY <1>2 DEF At, Begun, Remembered
  <2>2. CASE h = g
    BY <1>2, <2>1, <2>2 DEF Piled, At
  <2>3. CASE h # g
    <3>1. Piled(h)
      BY <1>1, <1>2, <1>7 DEF Neat
    <3> QED BY <1>2, <1>3, <2>1, <2>3, <3>1 DEF Piled
  <2> QED BY <2>2, <2>3
<1> QED BY <1>4, <1>5, <1>6, <1>7 DEF OpIInv

-----------------------------------------------------------------------------
(* The invariant of the dispatcher. *)

LEMMA InitOpIInv == DispatcherInit => OpIInv
<1> SUFFICES ASSUME DispatcherInit
             PROVE  OpIInv
  OBVIOUS
<1> DEFINE none == <<>>
<1>1. /\ none \in OpContexts /\ none \in Seq(Ops) /\ none \in Seq(Marks)
      /\ 0 \in Nat
  BY DEF OpContexts
<1>2. (CHOOSE f \in Flows : TRUE) \in Flows
  BY FlowsAssumption
<1>3. /\ ambient = [f \in Flows |-> none]
      /\ state = [o \in Ops |-> "idle"] /\ kind \in [Ops -> Kinds]
      /\ lineage = [o \in Ops |-> none]
      /\ flow = [o \in Ops |-> CHOOSE f \in Flows : TRUE]
      /\ context = [o \in Ops |-> none] /\ token = [o \in Ops |-> none]
      /\ active = [o \in Ops |-> TRUE] /\ ends = [o \in Ops |-> 0]
      /\ streams = {} /\ waiting = {} /\ raised = FALSE /\ astray = {}
  BY DEF DispatcherInit
<1>4. \A f \in Flows : Known(ambient[f])
  BY <1>3 DEF Known
<1>5. \A o \in Ops : lineage[o] = <<>>
  BY <1>3
<1> HIDE DEF none
<1>6. OpTypes
  BY <1>1, <1>2, <1>3 DEF OpTypes
<1>7. \A o \in Ops : ~Begun(o)
  BY <1>3 DEF Begun
<1>8. \A o \in Ops : ContextFits(o) /\ LineageFits(o) /\ OpEndFits(o)
  <2> SUFFICES ASSUME NEW o \in Ops
               PROVE  ContextFits(o) /\ LineageFits(o) /\ OpEndFits(o)
    OBVIOUS
  <2>1. ContextFits(o) /\ LineageFits(o)
    BY <1>5, <1>7 DEF ContextFits, LineageFits
  <2>2. active[o] /\ ends[o] = 0 /\ state[o] = "idle"
    BY <1>3
  <2>3. OpEndFits(o)
    BY <1>3, <2>2 DEF OpEndFits
  <2> QED BY <2>1, <2>3
<1>9. \A f \in Flows : Piled(f)
  BY <1>7 DEF Piled, At
<1> QED BY <1>4, <1>6, <1>8, <1>9 DEF OpIInv

LEMMA NextOpIInv == OpIInv /\ [DispatcherNext]_dispatcherVars => OpIInv'
<1> SUFFICES ASSUME OpIInv, [DispatcherNext]_dispatcherVars
             PROVE  OpIInv'
  OBVIOUS
<1>1. CASE UNCHANGED dispatcherVars
  <2>1. /\ OpTypes /\ \A g \in Flows : Known(ambient[g]) /\ (Neat(g) => Piled(g))
        /\ \A o \in Ops : ContextFits(o) /\ LineageFits(o) /\ OpEndFits(o)
    BY Fits
  <2>2. OpTypes' /\ \A g \in Flows : Known(ambient[g])'
    BY <1>1, <2>1 DEF dispatcherVars, OpTypes, Known, Begun
  <2>3. \A o \in Ops : ContextFits(o)' /\ LineageFits(o)' /\ OpEndFits(o)'
    BY <1>1, <2>1
    DEF dispatcherVars, ContextFits, LineageFits, OpEndFits, Begun, Known, Remembered,
        Members
  <2>4. \A g \in Flows : Neat(g)' => Piled(g)'
    BY <1>1, <2>1 DEF dispatcherVars, Neat, Piled, At, Begun, Remembered
  <2> QED BY <2>2, <2>3, <2>4 DEF OpIInv
<1>2. ASSUME NEW o \in Ops, NEW f \in Flows, NewSpan(o, <<>>, f)
      PROVE  OpIInv'
  <2> DEFINE p == <<>>
  <2>1. NewSpan(o, p, f) /\ p = <<>>
    BY <1>2
  <2> HIDE DEF p
  <2> QED BY <2>1, NewSpanKeeps
<1>3. ASSUME NEW o \in Ops, NEW f \in Flows, NEW q \in Ops, NewSpan(o, <<q>>, f)
      PROVE  OpIInv'
  <2> DEFINE p == <<q>>
  <2>1. NewSpan(o, p, f) /\ p[1] \in Ops
    BY <1>3
  <2> HIDE DEF p
  <2> QED BY <2>1, NewSpanKeeps
<1>4. ASSUME NEW o \in Ops, NEW f \in Flows, ExitSpan(o, f) \/ StreamEndEvent(o, f)
      PROVE  OpIInv'
  BY <1>4, ExitSpanKeeps, StreamEndKeeps
<1>5. ASSUME NEW o \in Ops, ExitStreaming(o) \/ DropSpan(o)
      PROVE  OpIInv'
  BY <1>5, ExitStreamingKeeps, DropSpanKeeps
<1>6. ASSUME NEW f \in Flows, NEW g \in Flows, Copy(f, g)
      PROVE  OpIInv'
  BY <1>6, CopyKeeps
<1> QED BY <1>1, <1>2, <1>3, <1>4, <1>5, <1>6 DEF DispatcherNext

\* Holders, contexts and spans of the operations always go together, and a
\* flow in which none went astray is a pile of those that go on.
THEOREM OpInvariant == DispatcherSpec => []OpIInv
BY InitOpIInv, NextOpIInv, PTL DEF DispatcherSpec

-----------------------------------------------------------------------------
(* What follows from it. *)

\* A span ends with its operation or with a stream below it, once, whatever
\* becomes of the operations above: end() of SpanHolder and process_event().
THEOREM OpSpansAlwaysAccounted == DispatcherSpec => []SpansAccounted
<1>1. OpIInv => SpansAccounted
  <2> SUFFICES ASSUME OpIInv
               PROVE  SpansAccounted
    OBVIOUS
  <2>1. OpTypes /\ \A o \in Ops : ContextFits(o) /\ OpEndFits(o)
    BY Fits
  <2>2. DispatcherTypeOK
    <3>1. \A o \in Ops : state[o] # "idle" => Len(token[o]) = 1
      <4>1. \A o \in Ops : state[o] # "idle" => token[o] = <<token[o][1]>>
        BY <2>1 DEF ContextFits, Begun
      <4>2. \A x : Len(<<x>>) = 1
        OBVIOUS
      <4> QED BY <4>1, <4>2
    <3>2. ends \in [Ops -> 0..1]
      <4>1. \A o \in Ops : ends[o] \in 0..1
        BY <2>1 DEF OpEndFits
      <4> QED BY <2>1, <4>1 DEF OpTypes
    <3> QED BY <2>1, <3>1, <3>2 DEF OpTypes, DispatcherTypeOK
  <2>3. SpansEnd /\ EarlyEnds
    BY <2>1 DEF OpEndFits, SpansEnd, EarlyEnds
  <2>4. WaitingAgrees
    BY <2>1 DEF OpTypes, OpEndFits, WaitingAgrees
  <2> QED BY <2>2, <2>3, <2>4 DEF SpansAccounted
<1> QED BY <1>1, OpInvariant, PTL

\* The last layer of a context of the dispatcher names the current span.
LEMMA CurrentIsLast ==
  ASSUME NEW c \in OpContexts, NEW o, IsCurrent(o, c)
  PROVE  c # <<>> /\ c[Len(c)].owner = o
<1>1. PICK i \in DOMAIN c : /\ c[i].owner = o /\ c[i].span
                            /\ \A j \in DOMAIN c : j > i => ~c[j].span
  BY DEF IsCurrent
<1>2. DOMAIN c = 1..Len(c) /\ Len(c) \in Nat /\ \A j \in DOMAIN c : c[j] \in Owned
  BY LenProperties, ElementOfSeq DEF OpContexts
<1>3. \A j \in DOMAIN c : c[j].span
  BY <1>2 DEF Owned
<1>4. Len(c) \in DOMAIN c
  <2>1. i \in 1..Len(c) /\ Len(c) \in Nat
    BY <1>1, <1>2
  <2>2. Len(c) \in 1..Len(c)
    BY ONLY <2>1
  <2> QED BY <1>2, <2>2
<1>5. ~(Len(c) > i)
  BY <1>1, <1>3, <1>4
<1>6. i = Len(c)
  <2>1. i \in 1..Len(c) /\ Len(c) \in Nat
    BY <1>1, <1>2
  <2> QED BY ONLY <1>5, <2>1
<1>7. c # <<>>
  <2>1. Len(c) # 0
    BY <1>2, <1>4
  <2> QED BY <2>1
<1> QED BY <1>1, <1>6, <1>7

\* In a flow where every operation was taken off the top the switch that the
\* SDKs read (SUPPRESS_LANGUAGE_MODEL_INSTRUMENTATION_KEY, set in new_span()) is
\* that of an operation that goes on: the detach of SpanHolder.end().
THEOREM CurrentAlwaysActive == DispatcherSpec => []CurrentIsActive
<1>1. OpIInv => CurrentIsActive
  <2> SUFFICES ASSUME OpIInv, NEW f \in Flows, \A o \in astray : flow[o] # f,
                      NEW o \in Ops, IsCurrent(o, ambient[f]), flow[o] = f
               PROVE  active[o]
    BY DEF CurrentIsActive
  <2>1. /\ ambient[f] \in OpContexts /\ Known(ambient[f]) /\ Piled(f)
        /\ \A q \in Ops : ContextFits(q)
    BY Fits DEF OpTypes, Neat
  <2>2. ambient[f] # <<>> /\ ambient[f][Len(ambient[f])].owner = o
    BY <2>1, CurrentIsLast
  <2>3. PICK q \in Ops : Begun(q) /\ ambient[f] = context[q]
    BY <2>1, <2>2 DEF Known
  <2>4. q = o
    BY <2>1, <2>2, <2>3 DEF ContextFits
  <2> QED BY <2>1, <2>3, <2>4 DEF Piled, At
<1> QED BY <1>1, OpInvariant, PTL
=============================================================================
