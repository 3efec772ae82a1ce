------------------------------- MODULE SdkProofs -------------------------------
(***************************************************************************)
(* Theorems about two parts that have to do with the SDKs.                 *)
(*                                                                         *)
(* SdkInit, for any calls with any arguments.  What a call has attached is *)
(* accounted for by where the call is: it was not refused, could make its  *)
(* exporters, and came past the wrapper of the traces (LiveInv); a wrapper *)
(* that a call has come past has an instance (BehindInv).                  *)
(*                                                                         *)
(* OpenAIObjects, for any calls, users, responses, runs and threads and    *)
(* any bounds.  Each of its four parts has an invariant of its own, which  *)
(* a step of the part keeps and a step of another part does not disturb.   *)
(***************************************************************************)
EXTENDS SdkInit, OpenAIObjects, FiniteSetTheorems, SequenceTheorems, TLAPS

-----------------------------------------------------------------------------
(* SdkInit. *)

Wrapping == {"check", "claim", "fill"} \X Signal

\* The wrapper of signal t is asked for after that of signal s.
Later(s, t) == \/ s = "traces" /\ t # "traces"
               \/ s = "metrics" /\ t = "logs"

\* Where a call is that has come past the wrapper of signal s.
Behind(s) == {AtSafety, AtReturned}
               \cup {"check", "claim", "fill"} \X {t \in Signal : Later(s, t)}

\* The call goes to the tracer SDK.
Traced(c) ==
  /\ args[c].enabled /\ env.tracing /\ ~Refused(args[c])
  /\ \A s \in Makes(args[c]) : Creatable(args[c].endpoint[s])

StageInv ==
  \A c \in Call :
    /\ pc[c] = AtMake => ~Refused(args[c])
    /\ pc[c] \in Wrapping => Traced(c)
    /\ runtime = c => pc[c] = AtReturned

BehindInv ==
  \A c \in Call : \A s \in Signal :
    /\ pc[c] = <<"fill", s>> => instance[s] # Nobody
    /\ pc[c] \in Behind(s) /\ args[c].enabled /\ env.tracing /\ Wanted(args[c], s)
         => instance[s] # Nobody

FillInv ==
  \A s \in Signal : instance[s] # Nobody /\ live[s] = {} =>
    \E c \in Call : pc[c] = <<"fill", s>> \/ (pc[c] = AtRaised /\ env.foreign)

LiveInv ==
  \A s \in Signal : \A c \in live[s] : pc[c] \in Behind("traces") /\ Traced(c)

IInv == TypeOK /\ StageInv /\ BehindInv /\ FillInv /\ LiveInv

-----------------------------------------------------------------------------
(* Facts about the stages. *)

LEMMA Afters ==
  /\ After("traces") = <<"check", "metrics">>
  /\ After("metrics") = <<"check", "logs">>
  /\ After("logs") = AtSafety
BY Zenon DEF After

LEMMA TracesWanted == ASSUME NEW a PROVE Wanted(a, "traces") = TRUE
BY Zenon DEF Wanted

\* After a wrapper comes the next one, or the safety runtime.
LEMMA AfterIsBehind ==
  ASSUME NEW s \in Signal
  PROVE  /\ After(s) \in Wrapping \cup {AtSafety}
         /\ After(s) \in Behind("traces")
         /\ \A t \in Signal : After(s) \in Behind(t) =>
              t = s \/ \A k \in {"check", "claim", "fill"} : <<k, s>> \in Behind(t)
         /\ After(s) \notin {AtIdle, AtMake, AtRaised, AtReturned}
         /\ \A t \in Signal : After(s) # <<"fill", t>>
<1>1. CASE s = "traces"
  BY <1>1, Afters DEF Wrapping, Behind, Later, Signal, AtIdle, AtSafety, AtReturned, AtRaised,
     AtMake
<1>2. CASE s = "metrics"
  BY <1>2, Afters DEF Wrapping, Behind, Later, Signal, AtIdle, AtSafety, AtReturned, AtRaised,
     AtMake
<1>3. CASE s = "logs"
  BY <1>3, Afters DEF Wrapping, Behind, Later, Signal, AtIdle, AtSafety, AtReturned, AtRaised,
     AtMake
<1> QED BY <1>1, <1>2, <1>3 DEF Signal

LEMMA StagesDiffer ==
  ASSUME NEW s \in Signal, NEW k \in {"check", "claim", "fill"}
  PROVE  /\ <<k, s>> \notin {AtIdle, AtMake, AtSafety, AtRaised, AtReturned}
         /\ <<k, s>> \in Wrapping
         /\ \A t \in Signal : <<k, s>> = <<"fill", t>> => k = "fill" /\ s = t
         /\ \A t \in Signal : <<k, s>> \in Behind(t) =>
              \A j \in {"check", "claim", "fill"} : <<j, s>> \in Behind(t)
         /\ <<k, "traces">> \notin Behind(s)
BY DEF Wrapping, Behind, Later, Signal, AtIdle, AtSafety, AtReturned, AtRaised, AtMake

LEMMA OwnStagesDiffer ==
  /\ {AtIdle, AtMake, AtSafety, AtRaised, AtReturned} \cap Wrapping = {}
  /\ AtIdle \notin {AtMake, AtSafety, AtRaised, AtReturned}
  /\ AtMake \notin {AtSafety, AtRaised, AtReturned}
  /\ AtSafety \notin {AtRaised, AtReturned} /\ AtRaised # AtReturned
  /\ \A s \in Signal : /\ {AtIdle, AtMake, AtRaised} \cap Behind(s) = {}
                       /\ {AtSafety, AtReturned} \subseteq Behind(s)
                       /\ Behind(s) \subseteq Behind("traces")
BY DEF Wrapping, Behind, Later, Signal, AtIdle, AtSafety, AtReturned, AtRaised, AtMake

-----------------------------------------------------------------------------
(* The initial states, and each action. *)

\* What a call's arguments decide stays decided.
LEMMA SameEnv ==
  ASSUME env' = env, args' = args
  PROVE  \A c : /\ Refused(args[c])' <=> Refused(args[c])
                /\ Makes(args[c])' = Makes(args[c])
<1>1. \A s : On(s)' <=> On(s) BY DEF On
<1>2. \A c : Checked(args[c])' = Checked(args[c]) BY <1>1 DEF Checked
<1>3. \A c : Makes(args[c])' = Makes(args[c]) BY <1>1 DEF Makes
<1> QED BY <1>2, <1>3 DEF Refused

LEMMA SameWanted ==
  ASSUME env' = env, args' = args, NEW c, NEW s \in Signal
  PROVE  Wanted(args[c], s)' <=> Wanted(args[c], s)
<1>1. Makes(args[c])' = Makes(args[c]) BY SameEnv
<1> QED BY Zenon, <1>1 DEF Wanted

LEMMA SameTraced ==
  ASSUME env' = env, args' = args, NEW c
  PROVE  Traced(c)' <=> Traced(c)
BY SameEnv DEF Traced

LEMMA InitHolds == ASSUME Init PROVE IInv
<1>1. TypeOK
  BY NobodyAssumption, ArgsAssumption DEF Init, TypeOK
<1>2. \A c \in Call : pc[c] = AtIdle
  BY DEF Init
<1>3. StageInv
  BY <1>2, OwnStagesDiffer, NobodyAssumption DEF StageInv, Init
<1>4. BehindInv
  BY <1>2, OwnStagesDiffer, StagesDiffer DEF BehindInv
<1>5. FillInv /\ LiveInv
  BY DEF FillInv, LiveInv, Init
<1> QED BY <1>1, <1>3, <1>4, <1>5 DEF IInv

\* A step that moves one call on, as all do: what is left to show of each.
LEMMA MoveKeeps ==
  ASSUME IInv, NEW c \in Call, TypeOK',
         \A d \in Call \ {c} : pc'[d] = pc[d],
         env' = env, args' = args,
         \/ runtime' = runtime
         \/ runtime' = c /\ pc'[c] = AtReturned,
         pc[c] \notin {AtReturned, AtRaised},
         pc'[c] = AtMake => ~Refused(args[c]),
         pc'[c] \in Wrapping => Traced(c),
         \A s \in Signal :
           /\ \/ instance'[s] = instance[s]
              \/ instance'[s] # Nobody /\ pc'[c] = <<"fill", s>>
           /\ live'[s] \subseteq live[s] \cup {c}
           /\ live[s] # {} => live'[s] # {}
           /\ c \in live'[s] => pc'[c] \in Behind("traces") /\ Traced(c)
           /\ pc'[c] \in Behind(s) /\ args[c].enabled /\ env.tracing
              /\ Wanted(args[c], s) => instance'[s] # Nobody
           /\ pc'[c] = <<"fill", s>> => instance'[s] # Nobody
           /\ pc[c] = <<"fill", s>> =>
                live'[s] # {} \/ (pc'[c] = AtRaised /\ env.foreign)
  PROVE  IInv'
<1>1. StageInv'
  <2> SUFFICES ASSUME NEW d \in Call
               PROVE  /\ pc'[d] = AtMake => ~Refused(args[d])'
                      /\ pc'[d] \in Wrapping => Traced(d)'
                      /\ runtime' = d => pc'[d] = AtReturned
    BY DEF StageInv, Wrapping, Signal
  <2>1. (Refused(args[d])' <=> Refused(args[d])) /\ (Traced(d)' <=> Traced(d))
    BY SameEnv, SameTraced
  <2> QED BY <2>1 DEF IInv, StageInv
<1>2. BehindInv'
  <2>1. ASSUME NEW d \in Call, NEW s \in Signal, pc'[d] = <<"fill", s>>
        PROVE  instance'[s] # Nobody
    BY <2>1 DEF IInv, BehindInv
  <2>2. ASSUME NEW d \in Call, NEW s \in Signal, pc'[d] \in Behind(s),
               args[d].enabled, env.tracing, Wanted(args[d], s)'
        PROVE  instance'[s] # Nobody
    <3>1. Wanted(args[d], s) BY <2>2, SameWanted
    <3> QED BY <2>2, <3>1 DEF IInv, BehindInv
  <2> QED BY <2>1, <2>2 DEF BehindInv, Behind, Later, Signal
<1>3. FillInv'
  <2> SUFFICES ASSUME NEW s \in Signal, instance'[s] # Nobody, live'[s] = {}
               PROVE  \E d \in Call : pc'[d] = <<"fill", s>>
                                     \/ (pc'[d] = AtRaised /\ env.foreign)
    BY DEF FillInv, Signal
  <2>1. CASE pc'[c] = <<"fill", s>> BY <2>1
  <2>2. CASE instance'[s] = instance[s]
    <3>1. PICK d \in Call : pc[d] = <<"fill", s>> \/ (pc[d] = AtRaised /\ env.foreign)
      BY <2>2 DEF IInv, FillInv
    <3> QED BY <3>1
  <2> QED BY <2>1, <2>2
<1>4. LiveInv'
  <2> SUFFICES ASSUME NEW s \in Signal, NEW d \in live'[s]
               PROVE  pc'[d] \in Behind("traces") /\ Traced(d)'
    BY DEF LiveInv, Signal, Behind
  <2>1. d \in Call BY DEF TypeOK
  <2>2. Traced(d)' <=> Traced(d) BY SameTraced
  <2> QED BY <2>1, <2>2 DEF IInv, LiveInv
<1> QED BY <1>1, <1>2, <1>3, <1>4 DEF IInv

\* A call has attached nothing before it came past the traces.
LEMMA NotYet ==
  ASSUME IInv, NEW c \in Call, pc[c] \in {AtIdle, AtMake, AtRaised, <<"fill", "traces">>}
  PROVE  \A s \in Signal : c \notin live[s]
<1>1. "traces" \in Signal BY DEF Signal
<1>2. <<"fill", "traces">> \notin Behind("traces")
  BY <1>1, StagesDiffer
<1>3. pc[c] \notin Behind("traces")
  BY <1>1, <1>2, OwnStagesDiffer
<1> QED BY <1>3 DEF IInv, LiveInv

LEMMA RefuseKeeps == ASSUME IInv, NEW c \in Call, Refuse(c) PROVE IInv'
<1>1. \A s \in Signal : c \notin live[s]
  BY NotYet DEF Refuse, Goto
<1>2. pc[c] = AtIdle /\ pc'[c] = AtRaised /\ \A d \in Call \ {c} : pc'[d] = pc[d]
  BY DEF Refuse, Goto, IInv, TypeOK
<1>3. TypeOK'
  BY DEF Refuse, Goto, IInv, TypeOK
<1>4. \A s \in Signal : /\ AtRaised \notin Behind(s)
                        /\ <<"fill", s>> \notin {AtIdle, AtRaised}
  BY OwnStagesDiffer, StagesDiffer
<1> QED BY <1>1, <1>2, <1>3, <1>4, MoveKeeps, OwnStagesDiffer DEF Refuse

LEMMA BeginKeeps == ASSUME IInv, NEW c \in Call, Begin(c) PROVE IInv'
<1>1. \A s \in Signal : c \notin live[s]
  BY NotYet DEF Begin, Goto
<1>2. pc[c] = AtIdle /\ pc'[c] = AtMake /\ \A d \in Call \ {c} : pc'[d] = pc[d]
  BY DEF Begin, Goto, IInv, TypeOK
<1>3. TypeOK'
  BY DEF Begin, Goto, IInv, TypeOK, Args
<1>4. \A s \in Signal : /\ AtMake \notin Behind(s)
                        /\ <<"fill", s>> \notin {AtIdle, AtMake}
  BY OwnStagesDiffer, StagesDiffer
<1> QED BY <1>1, <1>2, <1>3, <1>4, MoveKeeps, OwnStagesDiffer DEF Begin

LEMMA MakeFailsKeeps == ASSUME IInv, NEW c \in Call, MakeFails(c) PROVE IInv'
<1>1. \A s \in Signal : c \notin live[s]
  BY NotYet DEF MakeFails, Goto
<1>2. pc[c] = AtMake /\ pc'[c] = AtRaised /\ \A d \in Call \ {c} : pc'[d] = pc[d]
  BY DEF MakeFails, Goto, IInv, TypeOK
<1>3. TypeOK'
  BY DEF MakeFails, Goto, IInv, TypeOK, Makes
<1>4. \A s \in Signal : /\ AtRaised \notin Behind(s)
                        /\ <<"fill", s>> \notin {AtMake, AtRaised}
  BY OwnStagesDiffer, StagesDiffer
<1> QED BY <1>1, <1>2, <1>3, <1>4, MoveKeeps, OwnStagesDiffer DEF MakeFails

LEMMA MakeKeeps == ASSUME IInv, NEW c \in Call, Make(c) PROVE IInv'
<1> DEFINE traced == args[c].enabled /\ env.tracing
<1>1. \A s \in Signal : c \notin live[s]
  BY NotYet DEF Make, Goto
<1>2. /\ pc[c] = AtMake /\ \A d \in Call \ {c} : pc'[d] = pc[d]
      /\ pc'[c] = IF traced THEN <<"check", "traces">> ELSE AtSafety
  BY DEF Make, Goto, IInv, TypeOK
<1>3. <<"check", "traces">> \in Wrapping
      /\ \A s \in Signal : <<"check", "traces">> \notin Behind(s)
      /\ <<"check", "traces">> # AtMake
  BY StagesDiffer DEF Signal, Behind, Later, AtSafety, AtReturned, AtMake, Wrapping
<1>4. TypeOK'
  BY <1>3 DEF Make, Goto, IInv, TypeOK, Makes, Args, Wrapping
<1>5. \A s \in Signal : <<"fill", s>> \notin {AtMake, AtSafety, <<"check", "traces">>}
  BY StagesDiffer DEF Signal
<1>6. ~Refused(args[c]) /\ (traced => Traced(c))
  BY <1>2 DEF Make, IInv, StageInv, Traced
<1> HIDE DEF traced
<1>7. traced <=> args[c].enabled /\ env.tracing
  BY DEF traced
<1> QED BY <1>1, <1>2, <1>3, <1>4, <1>5, <1>6, <1>7, MoveKeeps, OwnStagesDiffer DEF Make

\* Before it leaves the wrapper of s, a call has come past the earlier ones.
LEMMA SameStage ==
  ASSUME IInv, NEW c \in Call, NEW s \in Signal, NEW k \in {"check", "claim", "fill"},
         pc[c] = <<k, s>>
  PROVE  /\ Traced(c)
         /\ pc[c] \notin {AtReturned, AtRaised, AtMake}
         /\ \A t \in Signal : c \in live[t] =>
              \A j \in {"check", "claim", "fill"} : <<j, s>> \in Behind("traces")
         /\ \A t \in Signal : \A j \in {"check", "claim", "fill"} :
              <<j, s>> \in Behind(t) /\ Wanted(args[c], t) => instance[t] # Nobody
<1>0. <<k, s>> \in Wrapping /\ <<k, s>> \notin {AtReturned, AtRaised, AtMake}
  BY StagesDiffer
<1>1. Traced(c) /\ pc[c] \notin {AtReturned, AtRaised, AtMake}
  BY <1>0 DEF IInv, StageInv
<1>2. "traces" \in Signal BY DEF Signal
<1>3. \A t \in Signal : c \in live[t] => <<k, s>> \in Behind("traces")
  BY DEF IInv, LiveInv
<1>4. \A t \in Signal : \A i, j \in {"check", "claim", "fill"} :
        <<i, s>> \in Behind(t) => <<j, s>> \in Behind(t)
  BY StagesDiffer
<1>5. \A t \in Signal : <<k, s>> \in Behind(t) /\ Wanted(args[c], t) => instance[t] # Nobody
  BY <1>1 DEF IInv, BehindInv, Traced
<1>6. \A t \in Signal : c \in live[t] =>
        \A j \in {"check", "claim", "fill"} : <<j, s>> \in Behind("traces")
  BY <1>2, <1>3, <1>4
<1>7. ASSUME NEW t \in Signal, NEW j \in {"check", "claim", "fill"},
             <<j, s>> \in Behind(t), Wanted(args[c], t)
      PROVE  instance[t] # Nobody
  BY <1>4, <1>5, <1>7
<1> QED BY <1>1, <1>6, <1>7

LEMMA PassKeeps ==
  ASSUME IInv, NEW c \in Call, NEW s \in Signal, Pass(c, s) PROVE IInv'
<1>1. /\ pc[c] = <<"check", s>> /\ pc'[c] = After(s)
      /\ \A d \in Call \ {c} : pc'[d] = pc[d]
  BY DEF Pass, Goto, IInv, TypeOK
<1>2. TypeOK'
  BY AfterIsBehind DEF Pass, Goto, IInv, TypeOK, Wrapping
<1>3. \A t \in Signal : pc'[c] \in Behind(t) /\ Wanted(args[c], t) => instance[t] # Nobody
  BY <1>1, SameStage, AfterIsBehind DEF Pass
<1>4. \A t \in Signal : pc[c] # <<"fill", t>> /\ pc'[c] # <<"fill", t>>
  BY <1>1, StagesDiffer, AfterIsBehind
<1> QED BY <1>1, <1>2, <1>3, <1>4, SameStage, AfterIsBehind, MoveKeeps DEF Pass

LEMMA CheckKeeps ==
  ASSUME IInv, NEW c \in Call, NEW s \in Signal, Check(c, s) PROVE IInv'
<1>1. /\ pc[c] = <<"check", s>> /\ pc'[c] = <<"claim", s>>
      /\ \A d \in Call \ {c} : pc'[d] = pc[d]
  BY DEF Check, Goto, IInv, TypeOK
<1>2. TypeOK'
  BY DEF Check, Goto, IInv, TypeOK
<1>3. \A t \in Signal : pc'[c] \in Behind(t) /\ Wanted(args[c], t) => instance[t] # Nobody
  <2>1. ASSUME NEW t \in Signal, <<"claim", s>> \in Behind(t), Wanted(args[c], t)
        PROVE  instance[t] # Nobody
    BY <1>1, <2>1, SameStage
  <2> QED BY <1>1, <2>1
<1>4. \A t \in Signal : c \in live[t] => <<"claim", s>> \in Behind("traces")
  BY <1>1, SameStage
<1>5. Traced(c) /\ pc'[c] # AtMake /\ pc[c] \notin {AtReturned, AtRaised}
      /\ \A t \in Signal : pc[c] # <<"fill", t>> /\ pc'[c] # <<"fill", t>>
  BY <1>1, SameStage, StagesDiffer
<1> QED BY <1>1, <1>2, <1>3, <1>4, <1>5, MoveKeeps DEF Check

LEMMA ClaimKeeps ==
  ASSUME IInv, NEW c \in Call, NEW s \in Signal, Claim(c, s) PROVE IInv'
<1>1. /\ pc[c] = <<"claim", s>> /\ pc'[c] = <<"fill", s>>
      /\ \A d \in Call \ {c} : pc'[d] = pc[d]
      /\ \A t \in Signal : instance'[t] = IF t = s THEN c ELSE instance[t]
  BY DEF Claim, Goto, IInv, TypeOK
<1>2. TypeOK'
  BY DEF Claim, Goto, IInv, TypeOK
<1>3. c # Nobody
  BY NobodyAssumption
<1>4. \A t \in Signal : pc'[c] \in Behind(t) /\ Wanted(args[c], t) => instance'[t] # Nobody
  <2>1. ASSUME NEW t \in Signal, <<"fill", s>> \in Behind(t), Wanted(args[c], t)
        PROVE  instance[t] # Nobody
    BY <1>1, <2>1, SameStage
  <2> QED BY <1>1, <1>3, <2>1
<1>5. \A t \in Signal : c \in live[t] => <<"fill", s>> \in Behind("traces")
  BY <1>1, SameStage
<1>6. Traced(c) /\ pc'[c] # AtMake /\ pc[c] \notin {AtReturned, AtRaised}
      /\ \A t \in Signal : pc[c] # <<"fill", t>> /\ (pc'[c] = <<"fill", t>> => t = s)
  BY <1>1, SameStage, StagesDiffer
<1> QED BY <1>1, <1>2, <1>3, <1>4, <1>5, <1>6, MoveKeeps DEF Claim

LEMMA FillFailsKeeps == ASSUME IInv, NEW c \in Call, FillFails(c) PROVE IInv'
<1>1. \A s \in Signal : c \notin live[s]
  BY NotYet DEF FillFails, Goto
<1>2. /\ pc[c] = <<"fill", "traces">> /\ pc'[c] = AtRaised
      /\ \A d \in Call \ {c} : pc'[d] = pc[d]
  BY DEF FillFails, Goto, IInv, TypeOK
<1>3. TypeOK'
  BY DEF FillFails, Goto, IInv, TypeOK
<1>4. \A s \in Signal : AtRaised \notin Behind(s) /\ AtRaised # <<"fill", s>>
  BY OwnStagesDiffer, StagesDiffer
<1>5. pc[c] \notin {AtReturned, AtRaised}
  BY <1>2, SameStage DEF Signal
<1> QED BY <1>1, <1>2, <1>3, <1>4, <1>5, MoveKeeps, OwnStagesDiffer DEF FillFails

LEMMA FillKeeps ==
  ASSUME IInv, NEW c \in Call, NEW s \in Signal, Fill(c, s) PROVE IInv'
<1>1. /\ pc[c] = <<"fill", s>> /\ pc'[c] = After(s)
      /\ \A d \in Call \ {c} : pc'[d] = pc[d]
      /\ \A t \in Signal : live'[t] = IF t = s THEN Attached(s, c) ELSE live[t]
  BY DEF Fill, Goto, IInv, TypeOK
<1>2. Attached(s, c) \subseteq live[s] \cup {c} /\ Attached(s, c) # {}
  <2>1. CASE s = "traces" BY Zenon, <2>1 DEF Attached
  <2>2. CASE s = "metrics" BY Zenon, <2>2 DEF Attached
  <2>3. CASE s = "logs" BY Zenon, <2>3 DEF Attached
  <2> QED BY <2>1, <2>2, <2>3 DEF Signal
<1>3. TypeOK'
  <2>1. live' \in [Signal -> SUBSET Call]
    BY <1>2 DEF Fill, IInv, TypeOK
  <2> QED BY <2>1, AfterIsBehind DEF Fill, Goto, IInv, TypeOK, Wrapping
<1>4. instance[s] # Nobody
  BY <1>1 DEF IInv, BehindInv
<1>5. \A t \in Signal : pc'[c] \in Behind(t) /\ Wanted(args[c], t) => instance[t] # Nobody
  BY <1>1, <1>4, SameStage, AfterIsBehind
<1>6. /\ Traced(c) /\ pc'[c] # AtMake /\ pc[c] \notin {AtReturned, AtRaised}
      /\ \A t \in Signal : /\ pc[c] = <<"fill", t>> => t = s
                           /\ pc'[c] # <<"fill", t>>
  BY <1>1, SameStage, StagesDiffer, AfterIsBehind
<1>7. pc'[c] \in Behind("traces")
  BY <1>1, AfterIsBehind
<1>8. \A t \in Signal : /\ live'[t] \subseteq live[t] \cup {c}
                        /\ live[t] # {} \/ t = s => live'[t] # {}
  BY <1>1, <1>2
<1>9. env' = env /\ args' = args /\ instance' = instance /\ runtime' = runtime
  BY DEF Fill
<1>10. \A d \in Call \ {c} : pc'[d] = pc[d]
  BY <1>1
<1>11. \A t \in Signal :
         /\ instance'[t] = instance[t]
         /\ live'[t] \subseteq live[t] \cup {c}
         /\ live[t] # {} => live'[t] # {}
         /\ pc'[c] \in Behind("traces") /\ Traced(c)
         /\ pc'[c] \in Behind(t) /\ args[c].enabled /\ env.tracing
            /\ Wanted(args[c], t) => instance'[t] # Nobody
         /\ pc'[c] # <<"fill", t>>
         /\ pc[c] = <<"fill", t>> => live'[t] # {}
  BY <1>5, <1>6, <1>7, <1>8, <1>9
<1> QED BY <1>3, <1>6, <1>9, <1>10, <1>11, MoveKeeps

LEMMA SafetyKeeps == ASSUME IInv, NEW c \in Call, Safety(c) PROVE IInv'
<1>1. /\ pc[c] = AtSafety /\ pc'[c] = AtReturned
      /\ \A d \in Call \ {c} : pc'[d] = pc[d]
  BY DEF Safety, Goto, IInv, TypeOK
<1>2. TypeOK'
  BY DEF Safety, Goto, IInv, TypeOK
<1>3. \A s \in Signal : /\ AtSafety \in Behind(s) /\ AtReturned \in Behind("traces")
                        /\ AtSafety # <<"fill", s>> /\ AtReturned # <<"fill", s>>
  BY OwnStagesDiffer, StagesDiffer DEF Signal
<1>4. \A s \in Signal : args[c].enabled /\ env.tracing /\ Wanted(args[c], s)
        => instance[s] # Nobody
  BY <1>1, <1>3 DEF IInv, BehindInv
<1>5. \A s \in Signal : c \in live[s] => Traced(c)
  BY DEF IInv, LiveInv
<1> QED BY <1>1, <1>2, <1>3, <1>4, <1>5, MoveKeeps, OwnStagesDiffer DEF Safety

LEMMA StutterKeeps == ASSUME IInv, UNCHANGED vars PROVE IInv'
<1>1. env' = env /\ args' = args /\ pc' = pc /\ instance' = instance /\ live' = live
      /\ runtime' = runtime
  BY DEF vars
<1>2. TypeOK'
  BY DEF IInv, TypeOK, vars
<1>3. \A c \in Call : (Refused(args[c])' <=> Refused(args[c])) /\ (Traced(c)' <=> Traced(c))
  BY <1>1, SameEnv, SameTraced
<1>4. \A c \in Call : \A s \in Signal : Wanted(args[c], s)' <=> Wanted(args[c], s)
  BY <1>1, SameWanted
<1>5. StageInv'
  BY <1>1, <1>3 DEF IInv, StageInv, Wrapping, Signal
<1>6. BehindInv'
  BY <1>1, <1>4 DEF IInv, BehindInv, Behind, Later, Signal
<1>7. FillInv'
  BY <1>1 DEF IInv, FillInv, Signal
<1>8. LiveInv'
  BY <1>1, <1>3 DEF IInv, TypeOK, LiveInv, Behind, Later, Signal
<1> QED BY <1>2, <1>5, <1>6, <1>7, <1>8 DEF IInv

-----------------------------------------------------------------------------
(* The theorems. *)

\* Where the calls of init() are decides what they have attached, claimed and
\* come past, whatever their arguments, and however they interleave.
THEOREM Invariant == Spec => []IInv
<1>1. Init => IInv
  BY InitHolds
<1>2. IInv /\ [Next]_vars => IInv'
  <2> SUFFICES ASSUME IInv, [Next]_vars PROVE IInv'
    OBVIOUS
  <2>1. CASE UNCHANGED vars
    BY <2>1, StutterKeeps
  <2>2. CASE Next
    <3>1. PICK c \in Call :
            \/ Refuse(c) \/ Begin(c) \/ MakeFails(c) \/ Make(c) \/ FillFails(c) \/ Safety(c)
            \/ \E s \in Signal : Pass(c, s) \/ Check(c, s) \/ Claim(c, s) \/ Fill(c, s)
      BY <2>2 DEF Next
    <3>2. CASE Refuse(c) BY <3>2, RefuseKeeps
    <3>3. CASE Begin(c) BY <3>3, BeginKeeps
    <3>4. CASE MakeFails(c) BY <3>4, MakeFailsKeeps
    <3>5. CASE Make(c) BY <3>5, MakeKeeps
    <3>6. CASE FillFails(c) BY <3>6, FillFailsKeeps
    <3>7. CASE Safety(c) BY <3>7, SafetyKeeps
    <3>8. ASSUME NEW s \in Signal, Pass(c, s) PROVE IInv' BY <3>8, PassKeeps
    <3>9. ASSUME NEW s \in Signal, Check(c, s) PROVE IInv' BY <3>9, CheckKeeps
    <3>10. ASSUME NEW s \in Signal, Claim(c, s) PROVE IInv' BY <3>10, ClaimKeeps
    <3>11. ASSUME NEW s \in Signal, Fill(c, s) PROVE IInv' BY <3>11, FillKeeps
    <3> QED BY <3>1, <3>2, <3>3, <3>4, <3>5, <3>6, <3>7, <3>8, <3>9, <3>10, <3>11
  <2> QED BY <2>1, <2>2
<1> QED BY <1>1, <1>2, PTL DEF Spec

\* A call whose exporter receives a signal was checked for it.
LEMMA CheckedBefore ==
  ASSUME NEW a, NEW s \in Makes(a), ~Refused(a), a.enabled, env.tracing,
         ~({"exporter", "processors"} \subseteq a.given), Managed(a.endpoint[s])
  PROVE  Headers(a, s).auth # "none"
<1>1. s \in Checked(a)
  BY DEF Makes, Checked
<1> QED BY <1>1 DEF Refused

\* The headers of a signal carry the metadata to managed endpoints only, and
\* the authorization that was given for the signal.
LEMMA HeadersTell ==
  ASSUME NEW a, NEW s \in Signal
  PROVE  /\ Headers(a, s).metadata = Managed(a.endpoint[s])
         /\ a.headers[s] = "auth" => Headers(a, s).auth = s
BY DEF Headers, TraceHeaders, Inherited, WithMetadata, Authorized, Given, Managed, Signal

\* No exporter that init() makes sends to an endpoint it may not send to, or to
\* a managed one without authorization, or with another signal's
\* (_validate_default_export_auth(), _resolve_signal_headers()).
THEOREM ExportsAlwaysGuarded == Spec => []ExportsGuarded
<1>1. IInv => ExportsGuarded
  <2> SUFFICES ASSUME IInv, NEW s \in Signal, NEW c \in live[s], s \in Makes(args[c])
               PROVE  LET e == args[c].endpoint[s]  h == Headers(args[c], s)
                      IN  /\ Creatable(e)
                          /\ Managed(e) /\ ~({"exporter", "processors"} \subseteq args[c].given)
                               => h.auth # "none"
                          /\ h.metadata => Managed(e)
                          /\ args[c].headers[s] = "auth" => h.auth = s
    BY DEF ExportsGuarded
  <2>1. Traced(c) BY DEF IInv, LiveInv
  <2>2. Creatable(args[c].endpoint[s]) BY <2>1 DEF Traced
  <2>3. Managed(args[c].endpoint[s]) /\ ~({"exporter", "processors"} \subseteq args[c].given)
          => Headers(args[c], s).auth # "none"
    BY <2>1, CheckedBefore DEF Traced
  <2> QED BY <2>2, <2>3, HeadersTell
<1> QED BY <1>1, Invariant, PTL

\* What the calls leave behind agrees, however they interleave and wherever one
\* raises (Traceloop.init(), the wrappers' __new__()).
THEOREM PipelinesAlwaysAgree == Spec => []PipelinesAgree
<1>1. IInv => PipelinesAgree
  <2> SUFFICES ASSUME IInv PROVE PipelinesAgree OBVIOUS
  <2>1. \A s \in Signal : "traces" \in Signal /\ AtReturned \in Behind(s)
                            /\ AtRaised \notin Behind("traces")
    BY OwnStagesDiffer DEF Signal
  <2>2. \A c \in Call : \A s \in Signal :
          pc[c] = AtReturned /\ args[c].enabled /\ env.tracing /\ Wanted(args[c], s)
            => instance[s] # Nobody
    BY <2>1 DEF IInv, BehindInv
  <2>3. \A s \in Signal : live[s] # {} => instance["traces"] # Nobody
    <3> SUFFICES ASSUME NEW s \in Signal, NEW c \in live[s] PROVE instance["traces"] # Nobody
      OBVIOUS
    <3>1. c \in Call BY DEF IInv, TypeOK
    <3>2. pc[c] \in Behind("traces") /\ Traced(c) BY DEF IInv, LiveInv
    <3>3. Wanted(args[c], "traces") BY TracesWanted
    <3> QED BY <2>1, <3>1, <3>2, <3>3 DEF IInv, BehindInv, Traced
  <2>4. \A c \in Call : ~args[c].enabled \/ ~env.tracing \/ pc[c] = AtRaised =>
          \A s \in Signal : c \notin live[s]
    BY <2>1 DEF IInv, LiveInv, Traced
  <2>5. \A c \in Call : pc[c] = AtRaised => runtime # c
    BY OwnStagesDiffer DEF IInv, StageInv
  <2> QED BY <2>2, <2>3, <2>4, <2>5 DEF IInv, FillInv, PipelinesAgree
<1> QED BY <1>1, Invariant, PTL

-----------------------------------------------------------------------------
(* Sequences. *)

\* What a session hands out and what it keeps make up what it had.
LEMMA CutInTwo ==
  ASSUME NEW S, NEW w \in Seq(S), NEW k \in 0..Len(w)
  PROVE  /\ SubSeq(w, 1, Len(w) - k) \in Seq(S)
         /\ SubSeq(w, Len(w) - k + 1, Len(w)) \in Seq(S)
         /\ SubSeq(w, 1, Len(w) - k) \o SubSeq(w, Len(w) - k + 1, Len(w)) = w
<1>1. Len(w) \in Nat /\ \A i \in 1..Len(w) : w[i] \in S
  BY LenProperties, ElementOfSeq
<1>2. /\ 1 \in 1..Len(w) + 1 /\ Len(w) - k \in 1 - 1 .. Len(w)
      /\ Len(w) \in (Len(w) - k)..Len(w)
      /\ Len(w) - k \in Int /\ Len(w) - k + 1 \in Int /\ Len(w) \in Int /\ 1 \in Int
      /\ \A i \in 1 .. Len(w) - k : i \in 1..Len(w)
      /\ \A i \in Len(w) - k + 1 .. Len(w) : i \in 1..Len(w)
  BY <1>1
<1>3. SubSeq(w, 1, Len(w) - k) \in Seq(S)
  BY <1>1, <1>2, SubSeqProperties
<1>4. SubSeq(w, Len(w) - k + 1, Len(w)) \in Seq(S)
  BY <1>1, <1>2, SubSeqProperties
<1>5. SubSeq(w, 1, Len(w) - k) \o SubSeq(w, Len(w) - k + 1, Len(w)) = w
  BY <1>1, <1>2, ConcatAdjacentSubSeq, SubSeqFull
<1> QED BY <1>3, <1>4, <1>5

LEMMA AppendBehind ==
  ASSUME NEW S, NEW a \in Seq(S), NEW b \in Seq(S), NEW x \in S
  PROVE  a \o Append(b, x) = Append(a \o b, x)
OBVIOUS

\* Handing a part out does not change what there is in all.
LEMMA CutBehind ==
  ASSUME NEW S, NEW a \in Seq(S), NEW b \in Seq(S), NEW x \in S,
         NEW k \in 0..Len(Append(b, x))
  PROVE  LET w == Append(b, x)
         IN  (a \o SubSeq(w, 1, Len(w) - k)) \o SubSeq(w, Len(w) - k + 1, Len(w))
               = Append(a \o b, x)
<1> DEFINE w == Append(b, x)
<1>1. w \in Seq(S) /\ k \in 0..Len(w) /\ a \o w = Append(a \o b, x)
  BY AppendBehind
<1> HIDE DEF w
<1> DEFINE u == SubSeq(w, 1, Len(w) - k)
           v == SubSeq(w, Len(w) - k + 1, Len(w))
<1>2. u \in Seq(S) /\ v \in Seq(S) /\ u \o v = w
  BY <1>1, CutInTwo
<1> HIDE DEF u, v
<1>3. (a \o u) \o v = a \o (u \o v)
  <2>1. a \in Seq(S) /\ u \in Seq(S) /\ v \in Seq(S)
    BY <1>2
  <2> QED BY ONLY <2>1
<1>4. (a \o u) \o v = Append(a \o b, x)
  BY <1>1, <1>2, <1>3
<1> QED BY <1>4 DEF u, v, w

-----------------------------------------------------------------------------
(* A streamed run of the Assistants API. *)

Live == stage \in {"events", "text"}

\* The first text of message m, as far as n pieces of it were sent.
TextOf(m, n) == [k \in 1..n |-> <<m, 1, k>>]

\* How far the run has come: nothing is shown of a message that has not
\* begun, and none of its text is held back between two texts.
Progress ==
  /\ text_index <= message /\ (block > 0 => text_index < message)
  /\ \A m \in 1..MaxMessages : m > message => shown[m] = <<>> /\ finals[m] = <<>>
  /\ (stage = "text" => block > 0)
  /\ (stage \in {"calling", "events"} => streamHolding = <<>>)
  /\ (stage = "calling" => block = 0)
  /\ (stage \in {"calling", "events"} /\ block = 0 => streamAccumulated = <<>>)

\* What is shown of the message in progress: its first text, once it is done,
\* is what the session has handed out, which before is all that was sent.
InMessage ==
  Live /\ block > 0 =>
    /\ finals[message] = <<>>
    /\ (stage = "events" \/ block > 1) => Len(shown[message]) > 0
    /\ (stage = "text" /\ block = 1) => shown[message] = <<>>
    /\ (stage = "events" /\ block = 1) => shown[message] = <<streamAccumulated>>
    /\ (stage = "events" /\ block = 1) => sent > 0
    /\ block = 1 => streamAccumulated \o streamHolding = TextOf(message, sent)

EventsInv ==
  /\ AssistantEvents!TypeOK /\ AssistantEvents!StreamAccounted
  /\ Progress /\ InMessage
  /\ AssistantEvents!ShownWhole /\ AssistantEvents!MessageAsShown

LEMMA EventsInit == AssistantEvents!Init => EventsInv
<1> SUFFICES ASSUME AssistantEvents!Init PROVE EventsInv
  OBVIOUS
<1> USE ObjectsAssumption DEF AssistantEvents!Init, AssistantEvents!Messages
<1>1. AssistantEvents!TypeOK
  <2>1. \A S : <<>> \in Seq(S)
    OBVIOUS
  <2>2. /\ shown \in [AssistantEvents!Messages -> Seq(Seq(AssistantEvents!Pieces))]
        /\ finals \in [AssistantEvents!Messages ->
                         Seq(Seq(AssistantEvents!Pieces) \cup {AssistantEvents!Raw})]
        /\ streamHolding \in Seq(AssistantEvents!Pieces)
        /\ streamAccumulated \in Seq(AssistantEvents!Pieces)
    BY <2>1
  <2>3. streamSpan \in [ended : 0..1, status : {"unset", "error"}]
    OBVIOUS
  <2>4. /\ stage = "calling" /\ usage = FALSE
        /\ message = 0 /\ block = 0 /\ sent = 0 /\ text_index = 0 /\ steps = 0
    BY Zenon
  <2>5. 0 \in 0..MaxMessages /\ 0 \in 0..MaxBlocks /\ 0 \in 0..MaxPieces
    BY ONLY ObjectsAssumption
  <2> HIDE DEF AssistantEvents!Init, AssistantEvents!Messages
  <2> QED BY ONLY <2>2, <2>3, <2>4, <2>5, Zenon DEF AssistantEvents!TypeOK
<1>2. AssistantEvents!StreamAccounted
  BY DEF AssistantEvents!StreamAccounted
<1>3. Progress /\ InMessage
  BY DEF Progress, InMessage, Live
<1>4. AssistantEvents!ShownWhole /\ AssistantEvents!MessageAsShown
  BY DEF AssistantEvents!ShownWhole, AssistantEvents!MessageAsShown
<1> QED BY <1>1, <1>2, <1>3, <1>4 DEF EventsInv

\* An invariant of the texts stays when they do not change and the run stays
\* where it is, or leaves off.
LEMMA EventsStay ==
  ASSUME EventsInv, UNCHANGED AssistantEvents!texts,
         \/ stage' = stage \/ stage' \notin {"calling", "events", "text"}
         \/ stage = "calling" /\ stage' = "events",
         AssistantEvents!TypeOK', AssistantEvents!StreamAccounted'
  PROVE  EventsInv'
<1> USE DEF EventsInv, AssistantEvents!texts
<1>1. Progress'
  BY DEF Progress
<1>2. InMessage'
  BY DEF InMessage, Live, Progress
<1>3. AssistantEvents!ShownWhole'
  BY DEF AssistantEvents!ShownWhole, Progress
<1>4. AssistantEvents!MessageAsShown'
  BY DEF AssistantEvents!MessageAsShown
<1> QED BY <1>1, <1>2, <1>3, <1>4

\* The steps that leave the texts alone.
EventsQuiet ==
  \/ AssistantEvents!NoHandler \/ AssistantEvents!Call
  \/ AssistantEvents!RunStepDone \/ AssistantEvents!Break
  \/ AssistantEvents!OnException \/ AssistantEvents!Exhausted \/ AssistantEvents!OnEnd

LEMMA EventsKept ==
  ASSUME EventsInv, EventsQuiet
  PROVE  EventsInv'
<1> USE ObjectsAssumption DEF AssistantEvents!Raises
<1>1. CASE AssistantEvents!NoHandler
  <2> USE <1>1 DEF AssistantEvents!NoHandler, AssistantEvents!texts
  <2>1. AssistantEvents!TypeOK'
    BY DEF EventsInv, AssistantEvents!TypeOK, AssistantEvents!StreamAccounted
  <2>2. AssistantEvents!StreamAccounted'
    BY DEF EventsInv, AssistantEvents!TypeOK, AssistantEvents!StreamAccounted
  <2> QED BY <2>1, <2>2, EventsStay
<1>2. CASE AssistantEvents!Call
  <2> USE <1>2 DEF AssistantEvents!Call, AssistantEvents!texts
  <2>1. AssistantEvents!TypeOK'
    BY DEF EventsInv, AssistantEvents!TypeOK, AssistantEvents!StreamAccounted
  <2>2. AssistantEvents!StreamAccounted'
    BY DEF EventsInv, AssistantEvents!TypeOK, AssistantEvents!StreamAccounted
  <2> QED BY <2>1, <2>2, EventsStay
<1>3. CASE AssistantEvents!RunStepDone
  <2> USE <1>3 DEF AssistantEvents!RunStepDone, AssistantEvents!texts
  <2>1. AssistantEvents!TypeOK'
    BY DEF EventsInv, AssistantEvents!TypeOK, AssistantEvents!StreamAccounted
  <2>2. AssistantEvents!StreamAccounted'
    BY DEF EventsInv, AssistantEvents!TypeOK, AssistantEvents!StreamAccounted
  <2> QED BY <2>1, <2>2, EventsStay
<1>4. CASE AssistantEvents!Break
  <2> USE <1>4 DEF AssistantEvents!Break, AssistantEvents!texts
  <2>1. AssistantEvents!TypeOK'
    BY DEF EventsInv, AssistantEvents!TypeOK, AssistantEvents!StreamAccounted
  <2>2. AssistantEvents!StreamAccounted'
    BY DEF EventsInv, AssistantEvents!TypeOK, AssistantEvents!StreamAccounted
  <2> QED BY <2>1, <2>2, EventsStay
<1>5. CASE AssistantEvents!OnException
  <2> USE <1>5 DEF AssistantEvents!OnException, AssistantEvents!texts
  <2>1. AssistantEvents!TypeOK'
    BY DEF EventsInv, AssistantEvents!TypeOK, AssistantEvents!StreamAccounted
  <2>2. AssistantEvents!StreamAccounted'
    BY DEF EventsInv, AssistantEvents!TypeOK, AssistantEvents!StreamAccounted
  <2> QED BY <2>1, <2>2, EventsStay
<1>6. CASE AssistantEvents!Exhausted
  <2> USE <1>6 DEF AssistantEvents!Exhausted, AssistantEvents!texts
  <2>1. AssistantEvents!TypeOK'
    BY DEF EventsInv, AssistantEvents!TypeOK, AssistantEvents!StreamAccounted
  <2>2. AssistantEvents!StreamAccounted'
    BY DEF EventsInv, AssistantEvents!TypeOK, AssistantEvents!StreamAccounted
  <2> QED BY <2>1, <2>2, EventsStay
<1>7. CASE AssistantEvents!OnEnd
  <2> USE <1>7 DEF AssistantEvents!OnEnd, AssistantEvents!texts
  <2>1. AssistantEvents!TypeOK'
    BY DEF EventsInv, AssistantEvents!TypeOK, AssistantEvents!StreamAccounted
  <2>2. AssistantEvents!StreamAccounted'
    BY DEF EventsInv, AssistantEvents!TypeOK, AssistantEvents!StreamAccounted
  <2> QED BY <2>1, <2>2, EventsStay
<1> QED BY <1>1, <1>2, <1>3, <1>4, <1>5, <1>6, <1>7 DEF EventsQuiet

LEMMA TextCreatedKeeps ==
  ASSUME EventsInv, AssistantEvents!TextCreated
  PROVE  EventsInv'
<1> USE ObjectsAssumption DEF AssistantEvents!TextCreated, AssistantEvents!Raises
<1>1. AssistantEvents!TypeOK'
  <2>1. AssistantEvents!TypeOK
    BY DEF EventsInv
  <2>2. /\ message \in 0..MaxMessages /\ block \in 0..MaxBlocks
        /\ MaxMessages \in Nat /\ MaxBlocks \in Nat \ {0} /\ MaxPieces \in Nat
    BY <2>1 DEF AssistantEvents!TypeOK
  <2>3. /\ message' \in 0..MaxMessages /\ block' \in 0..MaxBlocks
        /\ 0 \in 0..MaxPieces
    BY <2>2
  <2> QED BY <2>1, <2>3 DEF AssistantEvents!TypeOK
<1>2. AssistantEvents!StreamAccounted'
  BY DEF EventsInv, AssistantEvents!StreamAccounted
<1>3. Progress'
  BY DEF EventsInv, AssistantEvents!TypeOK, Progress
<1>4. InMessage'
  <2>1. CASE block = 0 /\ message' = message + 1 /\ block' = 1
    <3>1. /\ shown[message'] = <<>> /\ finals[message'] = <<>>
          /\ streamAccumulated = <<>> /\ streamHolding = <<>>
      BY <2>1 DEF EventsInv, AssistantEvents!TypeOK, Progress
    <3>2. <<>> \o <<>> = TextOf(message', 0)
      BY DEF TextOf
    <3> QED BY <2>1, <3>1, <3>2 DEF InMessage, Live
  <2>2. CASE block' = block + 1 /\ message' = message /\ block > 0
    BY <2>2 DEF EventsInv, InMessage, Live, AssistantEvents!TypeOK
  <2> QED BY <2>1, <2>2 DEF EventsInv, AssistantEvents!TypeOK
<1>5. AssistantEvents!ShownWhole'
  BY DEF EventsInv, AssistantEvents!ShownWhole
<1>6. AssistantEvents!MessageAsShown'
  BY DEF EventsInv, AssistantEvents!MessageAsShown
<1> QED BY <1>1, <1>2, <1>3, <1>4, <1>5, <1>6 DEF EventsInv

LEMMA TextDeltaKeeps ==
  ASSUME EventsInv, AssistantEvents!TextDelta
  PROVE  EventsInv'
<1> DEFINE P == AssistantEvents!Pieces
           x == <<message, block, sent + 1>>
<1> USE ObjectsAssumption
<1>1. x \in P
  <2>1. /\ message \in 0..MaxMessages /\ block \in 0..MaxBlocks /\ sent \in 0..MaxPieces
        /\ text_index \in 0..MaxMessages /\ block > 0 /\ text_index < message
        /\ sent < MaxPieces /\ MaxMessages \in Nat /\ MaxBlocks \in Nat /\ MaxPieces \in Nat
    BY DEF EventsInv, Progress, AssistantEvents!TypeOK, AssistantEvents!TextDelta
  <2>2. message \in 1..MaxMessages /\ block \in 1..MaxBlocks /\ sent + 1 \in 1..MaxPieces
    BY ONLY <2>1
  <2> QED BY <2>2 DEF AssistantEvents!Pieces, AssistantEvents!Messages
<1>2. /\ streamAccumulated \in Seq(P) /\ streamHolding \in Seq(P)
      /\ Append(streamHolding, x) \in Seq(P)
  BY <1>1 DEF EventsInv, AssistantEvents!TypeOK
<1> HIDE DEF P
<1>3. PICK kept \in 0..Len(Append(streamHolding, x)) :
        LET whole == Append(streamHolding, x)
        IN /\ streamHolding' = SubSeq(whole, Len(whole) - kept + 1, Len(whole))
           /\ streamAccumulated' = streamAccumulated \o SubSeq(whole, 1, Len(whole) - kept)
  BY DEF AssistantEvents!TextDelta
<1> HIDE DEF x
<1>4. streamHolding' \in Seq(P) /\ streamAccumulated' \in Seq(P)
  BY <1>2, <1>3, CutInTwo
<1>5. streamAccumulated' \o streamHolding' = Append(streamAccumulated \o streamHolding, x)
  BY <1>1, <1>2, <1>3, CutBehind
<1>6. /\ stage = "text" /\ sent < MaxPieces /\ sent' = sent + 1 /\ stage' \in {"text", "exception"}
      /\ UNCHANGED <<message, block, text_index, shown, finals, steps, usage, streamSpan>>
  BY DEF AssistantEvents!TextDelta, AssistantEvents!Raises
<1>7. AssistantEvents!TypeOK'
  BY <1>4, <1>6 DEF EventsInv, AssistantEvents!TypeOK, P
<1>8. AssistantEvents!StreamAccounted'
  BY <1>6 DEF EventsInv, AssistantEvents!StreamAccounted
<1>9. Progress'
  BY <1>6 DEF EventsInv, AssistantEvents!TypeOK, Progress
<1>10. InMessage'
  <2>1. TextOf(message, sent + 1) = Append(TextOf(message, sent), <<message, 1, sent + 1>>)
    BY DEF TextOf, EventsInv, AssistantEvents!TypeOK
  <2> QED BY <1>5, <1>6, <2>1 DEF EventsInv, InMessage, Live, x
<1>11. AssistantEvents!ShownWhole'
  BY <1>6 DEF EventsInv, AssistantEvents!ShownWhole
<1>12. AssistantEvents!MessageAsShown'
  BY <1>6 DEF EventsInv, AssistantEvents!MessageAsShown
<1> QED BY <1>7, <1>8, <1>9, <1>10, <1>11, <1>12 DEF EventsInv

LEMMA TextDoneKeeps ==
  ASSUME EventsInv, AssistantEvents!TextDone
  PROVE  EventsInv'
<1> DEFINE P == AssistantEvents!Pieces
           text == streamAccumulated \o streamHolding
<1> USE ObjectsAssumption
<1>1. /\ message \in AssistantEvents!Messages /\ text \in Seq(P)
      /\ shown \in [AssistantEvents!Messages -> Seq(Seq(P))]
  BY DEF EventsInv, Progress, AssistantEvents!TypeOK, AssistantEvents!TextDone,
         AssistantEvents!Messages
<1>2. /\ stage = "text" /\ sent > 0 /\ stage' \in {"events", "exception"}
      /\ streamHolding' = <<>> /\ streamAccumulated' = text
      /\ shown' = [shown EXCEPT ![message] = Append(@, text)]
      /\ UNCHANGED <<message, block, sent, text_index, finals, steps, usage, streamSpan>>
  BY DEF AssistantEvents!TextDone, AssistantEvents!Raises, AssistantEvents!Flushed
<1> HIDE DEF P, text
<1>3. /\ shown' \in [AssistantEvents!Messages -> Seq(Seq(P))]
      /\ shown'[message] = Append(shown[message], text)
      /\ \A m \in AssistantEvents!Messages \ {message} : shown'[m] = shown[m]
      /\ Len(shown'[message]) > 0 /\ shown[message] \in Seq(Seq(P))
  BY <1>1, <1>2
<1>4. AssistantEvents!TypeOK'
  BY <1>1, <1>2, <1>3 DEF EventsInv, AssistantEvents!TypeOK, P
<1>5. AssistantEvents!StreamAccounted'
  BY <1>2 DEF EventsInv, AssistantEvents!StreamAccounted
<1>6. Progress'
  <2>1. \A m \in 1..MaxMessages : m > message => shown'[m] = <<>> /\ finals'[m] = <<>>
    BY <1>2, <1>3 DEF EventsInv, Progress, AssistantEvents!TypeOK, AssistantEvents!Messages
  <2> QED BY <1>2, <2>1 DEF EventsInv, Progress
<1>7. block = 1 => shown'[message] = <<text>> /\ text = TextOf(message, sent)
  BY <1>2, <1>3 DEF EventsInv, InMessage, Live, text
<1>8. block = 1 => text \o <<>> = TextOf(message, sent)
  BY <1>1, <1>7
<1>9. block \in Nat /\ (block > 0 => finals[message] = <<>>) /\ block > 0
  BY <1>2 DEF EventsInv, InMessage, Live, AssistantEvents!TypeOK, Progress
<1>10. InMessage'
  BY <1>2, <1>3, <1>7, <1>8, <1>9 DEF InMessage, Live
<1>11. AssistantEvents!ShownWhole'
  <2>1. ASSUME NEW m \in AssistantEvents!Messages, Len(shown'[m]) > 0
        PROVE  LET told == shown'[m][1]
               IN  /\ Len(told) > 0 /\ told = [n \in 1..Len(told) |-> <<m, 1, n>>]
                   /\ (m = message /\ block = 1 /\ stage' = "events") => Len(told) = sent
    <3>1. CASE m # message
      BY <1>3, <2>1, <3>1 DEF EventsInv, AssistantEvents!ShownWhole
    <3>2. CASE m = message /\ block = 1
      <4>1. sent \in Nat /\ Len(text) = sent
        BY <1>7, <3>2 DEF TextOf, EventsInv, AssistantEvents!TypeOK
      <4>2. text = TextOf(message, sent) /\ shown'[m][1] = text
        BY <1>7, <3>2
      <4>3. TextOf(message, sent) = [n \in 1..sent |-> <<message, 1, n>>]
        BY DEF TextOf
      <4> QED BY <1>2, <3>2, <4>1, <4>2, <4>3
    <3>3. CASE m = message /\ block # 1
      <4>1. Len(shown[message]) > 0
        BY <1>2, <1>9, <3>3 DEF EventsInv, InMessage, Live
      <4>2. shown'[message][1] = shown[message][1]
        BY <1>1, <1>3, <4>1
      <4> QED BY <4>1, <4>2, <3>3, <1>1 DEF EventsInv, AssistantEvents!ShownWhole
    <3> QED BY <3>1, <3>2, <3>3
  <2> QED BY <2>1, <1>2 DEF AssistantEvents!ShownWhole
<1>12. AssistantEvents!MessageAsShown'
  BY <1>2, <1>3, <1>9 DEF EventsInv, AssistantEvents!MessageAsShown
<1> QED BY <1>4, <1>5, <1>6, <1>10, <1>11, <1>12 DEF EventsInv

LEMMA MessageDoneKeeps ==
  ASSUME EventsInv, AssistantEvents!MessageDone
  PROVE  EventsInv'
<1> DEFINE P == AssistantEvents!Pieces
           M == AssistantEvents!Messages
           final == [b \in 1..block |-> IF b = 1 THEN streamAccumulated ELSE AssistantEvents!Raw]
<1> USE ObjectsAssumption
<1>1. /\ message \in M /\ streamAccumulated \in Seq(P) /\ block \in Nat /\ block > 0
      /\ finals \in [M -> Seq(Seq(P) \cup {AssistantEvents!Raw})]
  BY DEF EventsInv, Progress, AssistantEvents!TypeOK, AssistantEvents!MessageDone,
         AssistantEvents!Messages
<1>2. /\ stage = "events" /\ stage' \in {"events", "exception"} /\ block' = 0
      /\ finals' = [finals EXCEPT ![message] = final]
      /\ \/ /\ stage' = "events" /\ text_index' = text_index + 1
            /\ streamAccumulated' = <<>>
         \/ UNCHANGED <<text_index, streamAccumulated>> /\ stage' = "exception"
      /\ UNCHANGED <<message, sent, streamHolding, shown, steps, usage, streamSpan>>
  BY DEF AssistantEvents!MessageDone, AssistantEvents!Raises
<1>3. final \in Seq(Seq(P) \cup {AssistantEvents!Raw}) /\ Len(final) = block
  BY <1>1
<1> HIDE DEF P, M, final
<1>4. /\ finals' \in [M -> Seq(Seq(P) \cup {AssistantEvents!Raw})]
      /\ finals'[message] = final
      /\ \A m \in M \ {message} : finals'[m] = finals[m]
  BY <1>1, <1>2, <1>3
<1>5. /\ text_index' \in 0..MaxMessages /\ text_index' <= message
      /\ streamAccumulated' \in Seq(P)
  <2>1. /\ text_index \in Nat /\ text_index < message /\ message \in 0..MaxMessages
        /\ MaxMessages \in Nat
    BY <1>1 DEF EventsInv, AssistantEvents!TypeOK, Progress
  <2>2. text_index' \in {text_index, text_index + 1}
    BY <1>2
  <2>3. text_index' \in 0..MaxMessages /\ text_index' <= message
    BY ONLY <2>1, <2>2
  <2>4. streamAccumulated' = streamAccumulated \/ streamAccumulated' = <<>>
    BY <1>2
  <2>5. <<>> \in Seq(P)
    OBVIOUS
  <2> QED BY <1>1, <2>3, <2>4, <2>5
<1>6. AssistantEvents!TypeOK'
  BY <1>2, <1>4, <1>5 DEF EventsInv, AssistantEvents!TypeOK, P, M
<1>7. AssistantEvents!StreamAccounted'
  BY <1>2 DEF EventsInv, AssistantEvents!StreamAccounted
<1>8. Progress'
  <2>1. \A m \in 1..MaxMessages : m > message => finals'[m] = <<>>
    BY <1>1, <1>4 DEF EventsInv, AssistantEvents!TypeOK, Progress, M, AssistantEvents!Messages
  <2> QED BY <1>2, <1>5, <2>1 DEF EventsInv, Progress
<1>9. InMessage'
  BY <1>2 DEF InMessage
<1>10. AssistantEvents!ShownWhole'
  BY <1>2 DEF EventsInv, AssistantEvents!ShownWhole
<1>11. block = 1 => final = shown[message]
  <2>1. block = 1 => final = <<streamAccumulated>>
    BY DEF final
  <2>2. block = 1 => shown[message] = <<streamAccumulated>>
    BY <1>2 DEF EventsInv, InMessage, Live
  <2> QED BY <2>1, <2>2
<1>12. AssistantEvents!MessageAsShown'
  BY <1>1, <1>2, <1>3, <1>4, <1>11 DEF EventsInv, AssistantEvents!MessageAsShown, M
<1> QED BY <1>6, <1>7, <1>8, <1>9, <1>10, <1>12 DEF EventsInv

LEMMA EventsStep ==
  ASSUME EventsInv, AssistantEvents!Next
  PROVE  EventsInv'
BY EventsKept, TextCreatedKeeps, TextDeltaKeeps, TextDoneKeeps, MessageDoneKeeps
   DEF AssistantEvents!Next, EventsQuiet

-----------------------------------------------------------------------------
(* Texts that are in several places, each piece in one of them. *)

PiecesOf(s) == {s[i] : i \in DOMAIN s}
Once(s) == \A i, j \in DOMAIN s : s[i] = s[j] => i = j

LEMMA ConcatOnce ==
  ASSUME NEW S, NEW a \in Seq(S), NEW b \in Seq(S)
  PROVE  /\ PiecesOf(a \o b) = PiecesOf(a) \cup PiecesOf(b)
         /\ Once(a \o b) <=> Once(a) /\ Once(b) /\ PiecesOf(a) \cap PiecesOf(b) = {}
<1> DEFINE c == a \o b
           n == Len(a)
           m == Len(b)
<1>1. /\ n \in Nat /\ m \in Nat /\ DOMAIN a = 1..n /\ DOMAIN b = 1..m
      /\ DOMAIN c = 1..(n + m)
      /\ \A i \in 1..n : c[i] = a[i]
      /\ \A i \in 1..m : c[n + i] = b[i]
  OBVIOUS
<1> HIDE DEF c, n, m
<1>2. /\ \A i \in DOMAIN a : i \in DOMAIN c /\ c[i] = a[i]
      /\ \A i \in DOMAIN b : n + i \in DOMAIN c /\ c[n + i] = b[i]
      /\ \A i \in DOMAIN c : i \in DOMAIN a \/ \E j \in DOMAIN b : i = n + j
  <2>1. ASSUME NEW i \in 1..(n + m), i \notin 1..n
        PROVE  i - n \in 1..m /\ i = n + (i - n)
    BY ONLY <1>1, <2>1
  <2>2. \A i \in 1..n : i \in 1..(n + m)
    BY ONLY <1>1
  <2>3. \A i \in 1..m : n + i \in 1..(n + m)
    BY ONLY <1>1
  <2> QED BY <1>1, <2>1, <2>2, <2>3
<1>3. /\ \A i, j \in DOMAIN b : n + i = n + j => i = j
      /\ \A i \in DOMAIN a, j \in DOMAIN b : i # n + j
  BY ONLY <1>1
<1>4. PiecesOf(c) = PiecesOf(a) \cup PiecesOf(b)
  BY ONLY <1>2 DEF PiecesOf
<1>5. Once(c) => Once(a) /\ Once(b) /\ PiecesOf(a) \cap PiecesOf(b) = {}
  <2>1. Once(c) => Once(a)
    BY ONLY <1>2 DEF Once
  <2>2. Once(c) => Once(b)
    BY ONLY <1>2, <1>3 DEF Once
  <2>3. Once(c) => PiecesOf(a) \cap PiecesOf(b) = {}
    BY ONLY <1>2, <1>3 DEF Once, PiecesOf
  <2> QED BY <2>1, <2>2, <2>3
<1>6. Once(a) /\ Once(b) /\ PiecesOf(a) \cap PiecesOf(b) = {} => Once(c)
  <2> SUFFICES ASSUME Once(a), Once(b), PiecesOf(a) \cap PiecesOf(b) = {},
                      NEW i \in DOMAIN c, NEW j \in DOMAIN c, c[i] = c[j]
               PROVE  i = j
    BY DEF Once
  <2>1. \A k \in DOMAIN a, l \in DOMAIN b : a[k] # b[l]
    BY DEF PiecesOf
  <2>2. CASE i \in DOMAIN a /\ j \in DOMAIN a
    BY <1>2, <2>2 DEF Once
  <2>3. CASE i \in DOMAIN a /\ j \notin DOMAIN a
    BY <1>2, <2>1, <2>3
  <2>4. CASE i \notin DOMAIN a /\ j \in DOMAIN a
    BY <1>2, <2>1, <2>4
  <2>5. CASE i \notin DOMAIN a /\ j \notin DOMAIN a
    <3>1. PICK k \in DOMAIN b : i = n + k
      BY <1>2, <2>5
    <3>2. PICK l \in DOMAIN b : j = n + l
      BY <1>2, <2>5
    <3> QED BY <1>2, <3>1, <3>2 DEF Once
  <2> QED BY <2>2, <2>3, <2>4, <2>5
<1> QED BY <1>4, <1>5, <1>6 DEF c

LEMMA AppendOnce ==
  ASSUME NEW S, NEW a \in Seq(S), NEW x \in S
  PROVE  /\ PiecesOf(Append(a, x)) = PiecesOf(a) \cup {x}
         /\ Once(a) /\ x \notin PiecesOf(a) => Once(Append(a, x))
<1> DEFINE c == Append(a, x)
           n == Len(a)
<1>1. /\ n \in Nat /\ DOMAIN a = 1..n /\ DOMAIN c = 1..(n + 1)
      /\ \A i \in 1..n : c[i] = a[i]
      /\ c[n + 1] = x
  OBVIOUS
<1> HIDE DEF c, n
<1>2. /\ \A i \in DOMAIN a : i \in DOMAIN c /\ c[i] = a[i]
      /\ n + 1 \in DOMAIN c /\ c[n + 1] = x
      /\ \A i \in DOMAIN c : i \in DOMAIN a \/ i = n + 1
  BY ONLY <1>1
<1> QED BY <1>2 DEF PiecesOf, Once, c

LEMMA EmptyOnce == Once(<<>>) /\ PiecesOf(<<>>) = {}
BY DEF Once, PiecesOf

\* No piece is in two of the places D, or twice in one.
InOnePlace(f, D) ==
  /\ \A p \in D : Once(f[p])
  /\ \A p, q \in D : p # q => PiecesOf(f[p]) \cap PiecesOf(f[q]) = {}

\* Texts that are given up, and places that are new and empty.
LEMMA GivenUp ==
  ASSUME NEW f, NEW g, NEW D, NEW E, InOnePlace(f, D),
         \A p \in E : g[p] = <<>> \/ (p \in D /\ g[p] = f[p])
  PROVE  InOnePlace(g, E)
BY EmptyOnce DEF InOnePlace

\* The text of a joined by that of b, in a place c.
Joins(f, g, D, E, a, b, c, S) ==
  /\ a \in D /\ b \in D /\ a # b /\ f[a] \in Seq(S) /\ f[b] \in Seq(S)
  /\ g[c] = f[a] \o f[b]
  /\ \A p \in E : p # c => g[p] = <<>> \/ (p \in D \ {a, b} /\ g[p] = f[p])

LEMMA Joined ==
  ASSUME NEW S, NEW f, NEW g, NEW D, NEW E, NEW a, NEW b, NEW c,
         InOnePlace(f, D), Joins(f, g, D, E, a, b, c, S)
  PROVE  InOnePlace(g, E) /\ PiecesOf(g[c]) = PiecesOf(f[a]) \cup PiecesOf(f[b])
<1> USE DEF Joins
<1>1. Once(g[c]) /\ PiecesOf(g[c]) = PiecesOf(f[a]) \cup PiecesOf(f[b])
  <2>1. Once(f[a]) /\ Once(f[b]) /\ PiecesOf(f[a]) \cap PiecesOf(f[b]) = {}
    BY DEF InOnePlace
  <2> QED BY <2>1, ConcatOnce
<1>2. \A p \in E : p # c => Once(g[p]) /\ PiecesOf(g[p]) \cap PiecesOf(g[c]) = {}
  BY <1>1, EmptyOnce DEF InOnePlace
<1>3. \A p, q \in E : p # c /\ q # c /\ p # q => PiecesOf(g[p]) \cap PiecesOf(g[q]) = {}
  BY EmptyOnce DEF InOnePlace
<1> QED BY <1>1, <1>2, <1>3 DEF InOnePlace

\* A new piece x is added to the text of b, of which the first part u is
\* handed on to a.
HandsOn(f, g, D, a, b, x, u, v, S) ==
  /\ a \in D /\ b \in D /\ a # b /\ f[a] \in Seq(S) /\ f[b] \in Seq(S)
  /\ x \in S /\ \A p \in D : x \notin PiecesOf(f[p])
  /\ u \in Seq(S) /\ v \in Seq(S) /\ u \o v = Append(f[b], x)
  /\ g[a] = f[a] \o u /\ g[b] = v
  /\ \A p \in D \ {a, b} : g[p] = f[p]

LEMMA HandedOn ==
  ASSUME NEW S, NEW f, NEW g, NEW D, NEW a, NEW b, NEW x, NEW u, NEW v,
         InOnePlace(f, D), HandsOn(f, g, D, a, b, x, u, v, S)
  PROVE  InOnePlace(g, D)
<1> USE DEF HandsOn
<1>1. Once(u \o v) /\ PiecesOf(u \o v) = PiecesOf(f[b]) \cup {x}
  BY AppendOnce DEF InOnePlace
<1>2. /\ Once(u) /\ Once(v) /\ PiecesOf(u) \cap PiecesOf(v) = {}
      /\ PiecesOf(u) \cup PiecesOf(v) = PiecesOf(f[b]) \cup {x}
  BY <1>1, ConcatOnce
<1>3. Once(f[a]) /\ PiecesOf(f[a]) \cap PiecesOf(u) = {} /\ PiecesOf(f[a]) \cap PiecesOf(v) = {}
  <2>1. Once(f[a]) /\ x \notin PiecesOf(f[a]) /\ PiecesOf(f[a]) \cap PiecesOf(f[b]) = {}
    BY DEF InOnePlace
  <2> QED BY <1>2, <2>1
<1>4. Once(g[a]) /\ PiecesOf(g[a]) = PiecesOf(f[a]) \cup PiecesOf(u)
  BY <1>2, <1>3, ConcatOnce
<1>5. PiecesOf(g[a]) \cap PiecesOf(g[b]) = {} /\ Once(g[b])
  BY <1>2, <1>3, <1>4
<1>6. \A p \in D \ {a, b} : /\ Once(g[p]) /\ PiecesOf(g[p]) \cap PiecesOf(g[a]) = {}
                            /\ PiecesOf(g[p]) \cap PiecesOf(g[b]) = {}
  BY <1>2, <1>4 DEF InOnePlace
<1>7. \A p, q \in D \ {a, b} : p # q => PiecesOf(g[p]) \cap PiecesOf(g[q]) = {}
  BY DEF InOnePlace
<1>8. ASSUME NEW p \in D, NEW q \in D, p # q
      PROVE  PiecesOf(g[p]) \cap PiecesOf(g[q]) = {}
  <2>1. CASE p \notin {a, b} /\ q \notin {a, b}
    BY <1>7, <1>8, <2>1
  <2>2. CASE p \in {a, b} /\ q \notin {a, b}
    BY <1>6, <2>2
  <2>3. CASE p \notin {a, b} /\ q \in {a, b}
    BY <1>6, <2>3
  <2>4. CASE p \in {a, b} /\ q \in {a, b}
    <3>1. PiecesOf(g[b]) \cap PiecesOf(g[a]) = {}
      BY <1>5
    <3>2. CASE p = a
      <4>1. q = b
        BY ONLY <1>8, <2>4, <3>2
      <4> QED BY <1>5, <3>2, <4>1
    <3>3. CASE p = b
      <4>1. q = a
        BY ONLY <1>8, <2>4, <3>3
      <4> QED BY <3>1, <3>3, <4>1
    <3> QED BY ONLY <2>4, <3>2, <3>3
  <2> QED BY <2>1, <2>2, <2>3, <2>4
<1>9. \A p \in D : Once(g[p])
  BY <1>4, <1>5, <1>6
<1> QED BY <1>8, <1>9 DEF InOnePlace

-----------------------------------------------------------------------------
(* The Realtime API. *)

\* The records of the type invariant.
ResponseSet == 1..MaxResponses
KeySet == {0} \cup ResponseSet
PieceSet == ResponseSet \X (1..MaxPieces)
ResponseSpans ==
  [ended : Nat, status : {"unset", "ok", "error"}, prompt : BOOLEAN,
   told : Seq(PieceSet), of : SUBSET ResponseSet]
ServerRecords == [state : {"none", "active", "done"}, sent : 0..MaxPieces]

SessionInv ==
  /\ connection \in {"none", "open", "ended", "refused"}
  /\ sessionSpan \in [ended : BOOLEAN, status : {"unset", "ok", "error"}]
  /\ input_text \in BOOLEAN
  /\ Realtime!SessionAccounted

RealtimeTyped ==
  /\ spans \in Seq(ResponseSpans)
  /\ current \in 0..Len(spans) /\ current_id \in KeySet
  /\ accumulated \in Seq(PieceSet)
  /\ holding \in [KeySet -> Seq(PieceSet)] /\ tails \in [KeySet -> Seq(PieceSet)]
  /\ realtimeServer \in [ResponseSet -> ServerRecords]
  /\ undisturbed \in {"nothing", "response", "mixed"}

\* The places where text is: 0 is the text of the state, those above are the
\* spans, those below the streaming sessions.
PlacesOf(sp) == (0 - MaxResponses - 1)..Len(sp)
TextsIn(sp, acc, h) ==
  [p \in Int |-> IF p = 0 THEN acc ELSE IF p > 0 THEN sp[p].told ELSE h[0 - 1 - p]]

\* Only what was sent is anywhere, and only in one place.
SentOnly(f, D, sv) ==
  \A p \in D : \A x \in PiecesOf(f[p]) : x \in PieceSet /\ x[2] <= sv[x[1]].sent
TextsOnce ==
  /\ InOnePlace(TextsIn(spans, accumulated, holding), PlacesOf(spans))
  /\ SentOnly(TextsIn(spans, accumulated, holding), PlacesOf(spans), realtimeServer)

\* The text of response r, as far as n pieces of it were sent.
TextUpTo(r, n) == [k \in 1..n |-> <<r, k>>]
ActiveIn(sv) == {r \in ResponseSet : sv[r].state = "active"}

\* A span that is said to tell a response tells it, and has ended.
SpansWhole ==
  /\ \A s \in 1..Len(spans) :
       /\ \A r \in spans[s].of : /\ realtimeServer[r].state = "done"
                                 /\ spans[s].told = TextUpTo(r, realtimeServer[r].sent)
       /\ s = current => spans[s].of = {}
  /\ \A r \in ResponseSet : realtimeServer[r].state = "none" => realtimeServer[r].sent = 0

\* What the current span will tell, if nothing mixes.
CurrentWhole ==
  current # 0 =>
    /\ undisturbed = "nothing" =>
         /\ ActiveIn(realtimeServer) = {} /\ accumulated = <<>>
         /\ \A k \in KeySet : holding[k] = <<>>
    /\ undisturbed = "response" =>
         /\ current_id \in ResponseSet /\ ActiveIn(realtimeServer) = {current_id}
         /\ accumulated \o holding[current_id]
              = TextUpTo(current_id, realtimeServer[current_id].sent)

RealtimeInv ==
  /\ RealtimeTyped /\ Realtime!OneOpenSpan /\ TextsOnce /\ SpansWhole /\ CurrentWhole

LEMMA RealtimeBegin == Realtime!Init => SessionInv /\ RealtimeInv
<1> SUFFICES ASSUME Realtime!Init PROVE SessionInv /\ RealtimeInv
  OBVIOUS
<1> USE ObjectsAssumption DEF Realtime!Init
<1>1. SessionInv
  BY DEF SessionInv, Realtime!SessionAccounted
<1>2. spans = <<>> /\ Len(spans) = 0 /\ current = 0 /\ accumulated = <<>>
  OBVIOUS
<1>3. holding = [k \in KeySet |-> <<>>] /\ tails = [k \in KeySet |-> <<>>]
  BY DEF Realtime!NoText, KeySet, ResponseSet
<1>4. RealtimeTyped
  <2>1. /\ <<>> \in Seq(ResponseSpans) /\ <<>> \in Seq(PieceSet)
        /\ holding \in [KeySet -> Seq(PieceSet)] /\ tails \in [KeySet -> Seq(PieceSet)]
    BY <1>3
  <2>2. 0 \in 0..MaxPieces /\ 0 \in 0..0
    OBVIOUS
  <2>3. realtimeServer \in [ResponseSet -> ServerRecords]
    BY <2>2 DEF ServerRecords, ResponseSet
  <2>4. current_id \in KeySet /\ undisturbed = "nothing"
    BY DEF KeySet
  <2> QED BY <1>2, <2>1, <2>2, <2>3, <2>4 DEF RealtimeTyped
<1>5. Realtime!OneOpenSpan
  BY <1>2 DEF Realtime!OneOpenSpan, Realtime!Numbered
<1>6. \A p \in PlacesOf(spans) : TextsIn(spans, accumulated, holding)[p] = <<>>
  BY <1>2, <1>3 DEF PlacesOf, TextsIn, KeySet, ResponseSet
<1>7. TextsOnce
  BY <1>6, EmptyOnce DEF TextsOnce, InOnePlace, SentOnly
<1>8. SpansWhole /\ CurrentWhole
  BY <1>2 DEF SpansWhole, CurrentWhole, ResponseSet
<1> QED BY <1>1, <1>4, <1>5, <1>7, <1>8 DEF RealtimeInv

\* Texts that are given up, and new places.
LEMMA TextsGivenUp ==
  ASSUME RealtimeInv,
         \A p \in PlacesOf(spans') :
           \/ TextsIn(spans', accumulated', holding')[p] = <<>>
           \/ /\ p \in PlacesOf(spans)
              /\ TextsIn(spans', accumulated', holding')[p]
                   = TextsIn(spans, accumulated, holding)[p],
         \A r \in ResponseSet : realtimeServer'[r].sent = realtimeServer[r].sent
  PROVE  TextsOnce'
<1> DEFINE f == TextsIn(spans, accumulated, holding)
           g == TextsIn(spans', accumulated', holding')
<1>1. InOnePlace(f, PlacesOf(spans)) /\ SentOnly(f, PlacesOf(spans), realtimeServer)
  BY DEF RealtimeInv, TextsOnce
<1>2. \A p \in PlacesOf(spans') : g[p] = <<>> \/ (p \in PlacesOf(spans) /\ g[p] = f[p])
  OBVIOUS
<1> HIDE DEF f, g
<1>3. InOnePlace(g, PlacesOf(spans'))
  BY <1>1, <1>2, GivenUp
<1>4. SentOnly(g, PlacesOf(spans'), realtimeServer')
  BY <1>1, <1>2, EmptyOnce DEF SentOnly, PieceSet
<1> QED BY <1>3, <1>4 DEF TextsOnce, f, g

-----------------------------------------------------------------------------
(* The steps of a connection. *)

LEMMA SessionStep == ASSUME SessionInv, Realtime!Next PROVE SessionInv'
<1> USE DEF SessionInv, Realtime!SessionAccounted
<1>1. CASE Realtime!Enter
  BY <1>1 DEF Realtime!Enter
<1>2. CASE Realtime!Close
  BY <1>2 DEF Realtime!Close, Realtime!SessionEnds
<1>3. CASE Realtime!Leave
  BY <1>3 DEF Realtime!Leave, Realtime!SessionEnds
<1>4. CASE Realtime!LeaveConnection
  BY <1>4 DEF Realtime!LeaveConnection, Realtime!SessionEnds, Realtime!Reset
<1>5. CASE Realtime!CreateResponse
  BY <1>5 DEF Realtime!CreateResponse
<1>6. CASE Realtime!Cancel
  BY <1>6 DEF Realtime!Cancel, Realtime!Reset
<1>7. CASE Realtime!AddItem
  BY <1>7 DEF Realtime!AddItem
<1>8. CASE Realtime!ErrorEvent
  BY <1>8 DEF Realtime!ErrorEvent, Realtime!Reset
<1>9. ASSUME NEW r \in 1..MaxResponses, NEW b \in BOOLEAN, Realtime!Created(r, b)
      PROVE  SessionInv'
  BY <1>9 DEF Realtime!Created
<1>10. ASSUME NEW r \in 1..MaxResponses, Realtime!TextDelta(r) PROVE SessionInv'
  BY <1>10 DEF Realtime!TextDelta
<1>11. ASSUME NEW r \in 1..MaxResponses, Realtime!Done(r) PROVE SessionInv'
  BY <1>11 DEF Realtime!Done, Realtime!Reset
<1> QED BY <1>1, <1>2, <1>3, <1>4, <1>5, <1>6, <1>7, <1>8, <1>9, <1>10, <1>11
           DEF Realtime!Next

\* A step that is not about spans or texts.
LEMMA ConnectionQuiet ==
  ASSUME RealtimeInv,
         UNCHANGED <<spans, current, current_id, accumulated, holding, tails,
                     realtimeServer, undisturbed>>
  PROVE  RealtimeInv'
BY DEF RealtimeInv, RealtimeTyped, Realtime!OneOpenSpan, Realtime!Numbered, TextsOnce,
       SpansWhole, CurrentWhole

\* What ending the current span makes of the spans.
LEMMA EndsCurrent ==
  ASSUME RealtimeTyped, current # 0, NEW st \in {"ok", "error"},
         NEW text \in Seq(PieceSet), NEW of \in SUBSET ResponseSet,
         NEW new, new = Realtime!EndSpan(st, text, of)
  PROVE  /\ new \in Seq(ResponseSpans) /\ Len(new) = Len(spans)
         /\ current \in 1..Len(spans)
         /\ \A s \in 1..Len(spans) : s # current => new[s] = spans[s]
         /\ new[current].ended = spans[current].ended + 1
         /\ new[current].told = text /\ new[current].of = of
<1> DEFINE w == [ended |-> spans[current].ended + 1, status |-> st,
                 prompt |-> spans[current].prompt, told |-> text, of |-> of]
<1>1. spans \in Seq(ResponseSpans) /\ current \in 1..Len(spans)
  BY DEF RealtimeTyped
<1>2. spans[current] \in ResponseSpans
  BY <1>1
<1>3. w \in ResponseSpans
  BY <1>2 DEF ResponseSpans
<1>4. w.ended = spans[current].ended + 1 /\ w.told = text /\ w.of = of
  OBVIOUS
<1>5. new = [spans EXCEPT ![current] = w]
  BY DEF Realtime!EndSpan
<1> HIDE DEF w
<1> QED BY <1>1, <1>3, <1>4, <1>5

\* A span with nothing to tell.
LEMMA EndsSilent ==
  ASSUME RealtimeTyped, current # 0, NEW st \in {"ok", "error"},
         NEW new, new = Realtime!EndSpan(st, <<>>, {})
  PROVE  /\ new \in Seq(ResponseSpans) /\ Len(new) = Len(spans)
         /\ current \in 1..Len(spans)
         /\ \A s \in 1..Len(spans) : s # current => new[s] = spans[s]
         /\ new[current].ended = spans[current].ended + 1
         /\ new[current].told = <<>> /\ new[current].of = {}
<1> DEFINE of == {}
           text == <<>>
<1>1. text \in Seq(PieceSet) /\ of \in SUBSET ResponseSet
  OBVIOUS
<1>2. new = Realtime!EndSpan(st, text, of)
  OBVIOUS
<1> HIDE DEF of, text
<1>3. /\ new \in Seq(ResponseSpans) /\ Len(new) = Len(spans)
      /\ current \in 1..Len(spans)
      /\ \A s \in 1..Len(spans) : s # current => new[s] = spans[s]
      /\ new[current].ended = spans[current].ended + 1
      /\ new[current].told = text /\ new[current].of = of
  BY <1>1, <1>2, EndsCurrent
<1> QED BY <1>3 DEF of, text

\* What a new span makes of them.
LEMMA BeginsSpan ==
  ASSUME NEW sp \in Seq(ResponseSpans), NEW p \in BOOLEAN,
         NEW new, new = Append(sp, Realtime!NewSpan(p))
  PROVE  /\ new \in Seq(ResponseSpans) /\ Len(new) = Len(sp) + 1
         /\ \A s \in 1..Len(sp) : new[s] = sp[s]
         /\ new[Len(sp) + 1].ended = 0 /\ new[Len(sp) + 1].told = <<>>
         /\ new[Len(sp) + 1].of = {}
<1> DEFINE w == Realtime!NewSpan(p)
<1>1. w \in ResponseSpans /\ w.ended = 0 /\ w.told = <<>> /\ w.of = {}
  BY DEF Realtime!NewSpan, ResponseSpans
<1> HIDE DEF w
<1>2. LET e == Append(sp, w)
      IN /\ e \in Seq(ResponseSpans) /\ Len(e) = Len(sp) + 1
         /\ \A s \in 1..Len(sp) : e[s] = sp[s]
         /\ e[Len(sp) + 1] = w
  BY <1>1
<1>3. new = Append(sp, w)
  BY DEF w
<1> QED BY <1>1, <1>2, <1>3

\* The span of the response is ended with nothing to tell, by an error, by
\* cancel(), or by leaving.
LEMMA SpanEnded ==
  ASSUME RealtimeInv, current # 0, NEW st \in {"ok", "error"},
         spans' = Realtime!EndSpan(st, <<>>, {}), Realtime!Reset,
         UNCHANGED <<holding, tails, realtimeServer, undisturbed>>
  PROVE  RealtimeInv'
<1>1. RealtimeTyped
  BY DEF RealtimeInv
<1>2. current' = 0 /\ current_id' = 0 /\ accumulated' = <<>>
  BY DEF Realtime!Reset
<1>3. /\ spans' \in Seq(ResponseSpans) /\ Len(spans') = Len(spans)
      /\ current \in 1..Len(spans)
      /\ \A s \in 1..Len(spans) : s # current => spans'[s] = spans[s]
      /\ spans'[current].ended = spans[current].ended + 1
      /\ spans'[current].told = <<>> /\ spans'[current].of = {}
  BY <1>1, EndsSilent
<1>4. RealtimeTyped'
  BY <1>1, <1>2, <1>3 DEF RealtimeTyped, KeySet
<1>5. Realtime!OneOpenSpan'
  <2>1. DOMAIN spans = 1..Len(spans) /\ DOMAIN spans' = 1..Len(spans)
    BY <1>1, <1>3 DEF RealtimeTyped
  <2> QED BY <1>2, <1>3, <2>1 DEF RealtimeInv, Realtime!OneOpenSpan, Realtime!Numbered
<1>6. TextsOnce'
  <2>1. ASSUME NEW p \in PlacesOf(spans')
        PROVE  \/ TextsIn(spans', accumulated', holding')[p] = <<>>
               \/ /\ p \in PlacesOf(spans)
                  /\ TextsIn(spans', accumulated', holding')[p]
                       = TextsIn(spans, accumulated, holding)[p]
    BY <1>2, <1>3, ObjectsAssumption DEF PlacesOf, TextsIn
  <2> QED BY <2>1, TextsGivenUp
<1>7. SpansWhole' /\ CurrentWhole'
  BY <1>1, <1>2, <1>3 DEF RealtimeInv, RealtimeTyped, SpansWhole, CurrentWhole
<1> QED BY <1>4, <1>5, <1>6, <1>7 DEF RealtimeInv

\* A response is asked for: its span is new, and one that was there is ended.
LEMMA ResponseAsked ==
  ASSUME RealtimeInv, input_text \in BOOLEAN, Realtime!CreateResponse
  PROVE  RealtimeInv'
<1> USE DEF RealtimeInv
<1>1. /\ RealtimeTyped
      /\ holding' = [k \in KeySet |-> <<>>] /\ tails' = [k \in KeySet |-> <<>>]
      /\ current' = Len(spans) + 1 /\ realtimeServer' = realtimeServer
  BY DEF Realtime!CreateResponse, Realtime!NoText, KeySet, ResponseSet
<1>2. /\ spans \in Seq(ResponseSpans) /\ Len(spans) \in Nat /\ current \in 0..Len(spans)
      /\ accumulated \in Seq(PieceSet)
  BY <1>1 DEF RealtimeTyped
<1>3. PICK fed \in BOOLEAN, ended \in Seq(ResponseSpans) :
        /\ spans' = Append(ended, Realtime!NewSpan(fed))
        /\ Len(ended) = Len(spans)
        /\ \A s \in 1..Len(spans) :
             \/ s # current /\ ended[s] = spans[s]
             \/ /\ s = current /\ ended[s].told = <<>> /\ ended[s].of = {}
                /\ ended[s].ended = spans[s].ended + 1
  <2>1. CASE current = 0
    <3>1. spans' = Append(spans, Realtime!NewSpan(input_text))
      BY <2>1 DEF Realtime!CreateResponse
    <3> QED BY <1>2, <2>1, <3>1
  <2>2. CASE current # 0
    <3>1. spans' = Append(Realtime!EndSpan("ok", <<>>, {}), Realtime!NewSpan(FALSE))
      BY <2>2 DEF Realtime!CreateResponse
    <3> DEFINE e == Realtime!EndSpan("ok", <<>>, {})
    <3>2. /\ e \in Seq(ResponseSpans) /\ Len(e) = Len(spans)
          /\ \A s \in 1..Len(spans) : s # current => e[s] = spans[s]
          /\ e[current].ended = spans[current].ended + 1
          /\ e[current].told = <<>> /\ e[current].of = {}
      BY <1>1, <2>2, EndsSilent
    <3>3. spans' = Append(e, Realtime!NewSpan(FALSE))
      BY <3>1
    <3> HIDE DEF e
    <3> QED BY <3>2, <3>3
  <2> QED BY <2>1, <2>2
<1>4. /\ spans' \in Seq(ResponseSpans) /\ Len(spans') = Len(spans) + 1
      /\ \A s \in 1..Len(spans) : spans'[s] = ended[s]
      /\ spans'[Len(spans) + 1].ended = 0 /\ spans'[Len(spans) + 1].told = <<>>
      /\ spans'[Len(spans) + 1].of = {}
  BY <1>3, BeginsSpan
<1>5. /\ accumulated' = accumulated \/ accumulated' = <<>>
      /\ current_id' \in KeySet
      /\ undisturbed' \in {"nothing", "mixed"}
      /\ undisturbed' = "nothing" => Realtime!Active = {} /\ accumulated' = <<>>
  BY <1>1 DEF Realtime!CreateResponse, Realtime!Undisturbed, KeySet, RealtimeTyped
<1>6. RealtimeTyped'
  <2>1. holding' \in [KeySet -> Seq(PieceSet)] /\ tails' \in [KeySet -> Seq(PieceSet)]
    BY <1>1
  <2>2. accumulated' \in Seq(PieceSet) /\ current' \in 0..Len(spans')
    <3>1. Len(spans) + 1 \in 0..(Len(spans) + 1)
      BY ONLY <1>2
    <3>2. current' \in 0..Len(spans')
      BY ONLY <1>1, <1>4, <3>1
    <3>3. accumulated' \in Seq(PieceSet)
      <4>1. <<>> \in Seq(PieceSet)
        OBVIOUS
      <4> QED BY ONLY <1>2, <1>5, <4>1
    <3> QED BY <3>2, <3>3
  <2>3. realtimeServer' \in [ResponseSet -> ServerRecords]
    BY <1>1 DEF RealtimeTyped
  <2> QED BY <1>4, <1>5, <2>1, <2>2, <2>3 DEF RealtimeTyped
<1>7. Realtime!OneOpenSpan'
  <2>1. DOMAIN spans = 1..Len(spans) /\ DOMAIN spans' = 1..(Len(spans) + 1)
    BY <1>2, <1>4
  <2>2. ASSUME NEW s \in 1..Len(spans) PROVE spans'[s].ended = 1
    <3>1. spans[s].ended = IF s = current THEN 0 ELSE 1
      BY <2>1 DEF Realtime!OneOpenSpan, Realtime!Numbered
    <3>2. CASE s = current
      BY <1>3, <1>4, <3>1, <3>2
    <3>3. CASE s # current
      BY <1>3, <1>4, <3>1, <3>3
    <3> QED BY <3>2, <3>3
  <2>3. \A s \in 1..(Len(spans) + 1) : s \in 1..Len(spans) \/ s = Len(spans) + 1
    BY ONLY <1>2
  <2>4. \A s \in 1..Len(spans) : s # Len(spans) + 1
    BY ONLY <1>2
  <2> QED BY <1>1, <1>4, <2>1, <2>2, <2>3, <2>4 DEF Realtime!OneOpenSpan, Realtime!Numbered
<1>8. TextsOnce'
  <2>1. ASSUME NEW p \in PlacesOf(spans')
        PROVE  \/ TextsIn(spans', accumulated', holding')[p] = <<>>
               \/ /\ p \in PlacesOf(spans)
                  /\ TextsIn(spans', accumulated', holding')[p]
                       = TextsIn(spans, accumulated, holding)[p]
    <3>1. p \in Int /\ 0 - MaxResponses - 1 <= p /\ p <= Len(spans) + 1
      BY <1>2, <1>4, ObjectsAssumption DEF PlacesOf
    <3>2. CASE p = 0
      BY <1>2, <1>5, <3>2, ObjectsAssumption DEF PlacesOf, TextsIn
    <3>3. CASE p < 0
      <4>1. 0 - 1 - p \in KeySet
        BY ONLY <3>1, <3>3, ObjectsAssumption DEF KeySet, ResponseSet
      <4>2. ~(p = 0) /\ ~(p > 0)
        BY ONLY <3>1, <3>3
      <4>3. TextsIn(spans', accumulated', holding')[p] = holding'[0 - 1 - p]
        BY ONLY <3>1, <4>2 DEF TextsIn
      <4> QED BY <1>1, <4>1, <4>3
    <3>4. CASE p = Len(spans) + 1
      BY <1>2, <1>4, <3>4 DEF TextsIn
    <3>5. CASE p > 0 /\ p <= Len(spans)
      BY <1>2, <1>3, <1>4, <3>1, <3>5 DEF PlacesOf, TextsIn
    <3> QED BY <1>2, <3>1, <3>2, <3>3, <3>4, <3>5
  <2> QED BY <1>1, <2>1, TextsGivenUp
<1>9. SpansWhole'
  <2>1. \A s \in 1..(Len(spans) + 1) : s \in 1..Len(spans) \/ s = Len(spans) + 1
    BY ONLY <1>2
  <2>2. \A s \in 1..Len(spans) : s # Len(spans) + 1
    BY ONLY <1>2
  <2> QED BY <1>1, <1>3, <1>4, <2>1, <2>2 DEF SpansWhole
<1>10. CurrentWhole'
  BY <1>1, <1>5 DEF CurrentWhole, ActiveIn, Realtime!Active, ResponseSet
<1> QED BY <1>6, <1>7, <1>8, <1>9, <1>10

\* The server begins a response: the iterator begins a span for it, if there
\* is none.
LEMMA ResponseBegun ==
  ASSUME RealtimeInv, NEW r \in ResponseSet, NEW start \in BOOLEAN,
         Realtime!Created(r, start)
  PROVE  RealtimeInv'
<1> USE DEF RealtimeInv
<1> DEFINE starts == start /\ current = 0
<1>1. /\ RealtimeTyped /\ realtimeServer[r].state = "none"
      /\ holding' = [k \in KeySet |-> <<>>] /\ tails' = [k \in KeySet |-> <<>>]
      /\ realtimeServer' = [realtimeServer EXCEPT ![r].state = "active"]
      /\ current_id' = r /\ accumulated' = accumulated
      /\ spans' = IF starts THEN Append(spans, Realtime!NewSpan(FALSE)) ELSE spans
      /\ current' = IF starts THEN Len(spans) + 1 ELSE current
      /\ undisturbed' = IF (IF starts THEN Realtime!Undisturbed(accumulated)
                                      ELSE undisturbed) = "nothing"
                          THEN "response" ELSE "mixed"
  BY DEF Realtime!Created, Realtime!NoText, KeySet, ResponseSet
<1>2. /\ spans \in Seq(ResponseSpans) /\ Len(spans) \in Nat /\ current \in 0..Len(spans)
      /\ accumulated \in Seq(PieceSet) /\ DOMAIN realtimeServer = ResponseSet
      /\ \A q \in ResponseSet : realtimeServer[q] \in ServerRecords
  BY <1>1 DEF RealtimeTyped
<1>3. /\ spans' \in Seq(ResponseSpans) /\ current' \in 0..Len(spans')
      /\ Len(spans') \in {Len(spans), Len(spans) + 1}
      /\ \A s \in 1..Len(spans) : spans'[s] = spans[s]
      /\ Len(spans') = Len(spans) + 1 =>
           /\ current' = Len(spans) + 1 /\ current = 0
           /\ spans'[current'].ended = 0 /\ spans'[current'].told = <<>>
           /\ spans'[current'].of = {}
      /\ Len(spans') = Len(spans) => current' = current
  <2>1. CASE starts
    <3>1. spans' = Append(spans, Realtime!NewSpan(FALSE)) /\ current' = Len(spans) + 1
      BY <1>1, <2>1
    <3>2. /\ spans' \in Seq(ResponseSpans) /\ Len(spans') = Len(spans) + 1
          /\ \A s \in 1..Len(spans) : spans'[s] = spans[s]
          /\ spans'[Len(spans) + 1].ended = 0 /\ spans'[Len(spans) + 1].told = <<>>
          /\ spans'[Len(spans) + 1].of = {}
      BY <1>2, <3>1, BeginsSpan
    <3>3. current' \in 0..Len(spans') /\ Len(spans') # Len(spans)
      BY ONLY <1>2, <3>1, <3>2
    <3>4. current = 0
      BY <2>1
    <3> QED BY <3>1, <3>2, <3>3, <3>4
  <2>2. CASE ~starts
    <3>1. spans' = spans /\ current' = current
      BY <1>1, <2>2
    <3>2. Len(spans) # Len(spans) + 1
      BY ONLY <1>2
    <3> QED BY <1>2, <3>1, <3>2
  <2> QED BY <2>1, <2>2
<1>4. /\ realtimeServer' \in [ResponseSet -> ServerRecords]
      /\ realtimeServer'[r].state = "active"
      /\ \A q \in ResponseSet : /\ realtimeServer'[q].sent = realtimeServer[q].sent
                                /\ q # r => realtimeServer'[q] = realtimeServer[q]
  <2>1. [realtimeServer[r] EXCEPT !.state = "active"] \in ServerRecords
    BY <1>2 DEF ServerRecords
  <2>2. [realtimeServer[r] EXCEPT !.state = "active"].sent = realtimeServer[r].sent
    BY <1>2 DEF ServerRecords
  <2>3. [realtimeServer[r] EXCEPT !.state = "active"].state = "active"
    BY <1>2 DEF ServerRecords
  <2> DEFINE w == [realtimeServer[r] EXCEPT !.state = "active"]
  <2>4. realtimeServer' = [realtimeServer EXCEPT ![r] = w]
    BY <1>1
  <2> HIDE DEF w
  <2> QED BY <1>1, <2>1, <2>2, <2>3, <2>4 DEF RealtimeTyped, w
<1>5. undisturbed' \in {"nothing", "response", "mixed"} /\ undisturbed' # "nothing"
  BY <1>1
<1>6. RealtimeTyped'
  <2>1. holding' \in [KeySet -> Seq(PieceSet)] /\ tails' \in [KeySet -> Seq(PieceSet)]
    BY <1>1
  <2>2. current_id' \in KeySet /\ accumulated' \in Seq(PieceSet)
    BY <1>1, <1>2 DEF KeySet
  <2> QED BY <1>3, <1>4, <1>5, <2>1, <2>2 DEF RealtimeTyped
<1>7. Realtime!OneOpenSpan'
  <2>1. DOMAIN spans = 1..Len(spans) /\ DOMAIN spans' = 1..Len(spans')
    BY <1>2, <1>3
  <2>2. \A s \in 1..(Len(spans) + 1) : s \in 1..Len(spans) \/ s = Len(spans) + 1
    BY ONLY <1>2
  <2>3. \A s \in 1..Len(spans) : s # Len(spans) + 1 /\ s # 0
    BY ONLY <1>2
  <2>4. \A s \in 1..Len(spans) : spans'[s].ended = IF s = current THEN 0 ELSE 1
    BY <1>3, <2>1 DEF Realtime!OneOpenSpan, Realtime!Numbered
  <2>5. ASSUME NEW s \in 1..Len(spans') PROVE spans'[s].ended = IF s = current' THEN 0 ELSE 1
    <3>1. CASE Len(spans') = Len(spans)
      BY <1>3, <2>4, <3>1
    <3>2. CASE Len(spans') = Len(spans) + 1 /\ s = Len(spans) + 1
      BY <1>3, <3>2
    <3>3. CASE Len(spans') = Len(spans) + 1 /\ s \in 1..Len(spans)
      BY <1>3, <2>3, <2>4, <3>3
    <3> QED BY <1>3, <2>2, <3>1, <3>2, <3>3
  <2> QED BY <2>1, <2>5 DEF Realtime!OneOpenSpan, Realtime!Numbered
<1>8. TextsOnce'
  <2>1. ASSUME NEW p \in PlacesOf(spans')
        PROVE  \/ TextsIn(spans', accumulated', holding')[p] = <<>>
               \/ /\ p \in PlacesOf(spans)
                  /\ TextsIn(spans', accumulated', holding')[p]
                       = TextsIn(spans, accumulated, holding)[p]
    <3>1. p \in Int /\ 0 - MaxResponses - 1 <= p /\ p <= Len(spans')
      BY <1>2, <1>3, ObjectsAssumption DEF PlacesOf
    <3>2. CASE p = 0
      BY <1>1, <1>2, <3>2, ObjectsAssumption DEF PlacesOf, TextsIn
    <3>3. CASE p < 0
      <4>1. 0 - 1 - p \in KeySet
        BY ONLY <3>1, <3>3, ObjectsAssumption DEF KeySet, ResponseSet
      <4>2. ~(p = 0) /\ ~(p > 0)
        BY ONLY <3>1, <3>3
      <4>3. TextsIn(spans', accumulated', holding')[p] = holding'[0 - 1 - p]
        BY ONLY <3>1, <4>2 DEF TextsIn
      <4> QED BY <1>1, <4>1, <4>3
    <3>4. CASE p = Len(spans) + 1
      BY <1>2, <1>3, <3>1, <3>4 DEF TextsIn
    <3>5. CASE p > 0 /\ p <= Len(spans)
      BY <1>2, <1>3, <3>1, <3>5, ObjectsAssumption DEF PlacesOf, TextsIn
    <3> QED BY <1>2, <1>3, <3>1, <3>2, <3>3, <3>4, <3>5
  <2> QED BY <1>4, <2>1, TextsGivenUp
<1>9. SpansWhole'
  <2>1. \A s \in 1..(Len(spans) + 1) : s \in 1..Len(spans) \/ s = Len(spans) + 1
    BY ONLY <1>2
  <2>2. \A s \in 1..Len(spans) : s # Len(spans) + 1 /\ s # 0
    BY ONLY <1>2
  <2>3. \A s \in 1..Len(spans) : \A q \in spans[s].of : q \in ResponseSet
    <3>1. \A s \in 1..Len(spans) : spans[s] \in ResponseSpans
      BY <1>2
    <3>2. \A w \in ResponseSpans : w.of \in SUBSET ResponseSet
      BY DEF ResponseSpans
    <3> QED BY <3>1, <3>2
  <2>4. ASSUME NEW s \in 1..Len(spans')
        PROVE  /\ \A q \in spans'[s].of :
                    /\ realtimeServer'[q].state = "done"
                    /\ spans'[s].told = TextUpTo(q, realtimeServer'[q].sent)
               /\ s = current' => spans'[s].of = {}
    <3>1. CASE s \in 1..Len(spans)
      BY <1>1, <1>2, <1>3, <1>4, <2>2, <2>3, <3>1 DEF SpansWhole
    <3>2. CASE s = Len(spans) + 1
      BY <1>2, <1>3, <3>2
    <3> QED BY <1>2, <1>3, <2>1, <3>1, <3>2
  <2>5. \A q \in ResponseSet : realtimeServer'[q].state = "none" => realtimeServer'[q].sent = 0
    BY <1>1, <1>4 DEF SpansWhole
  <2> QED BY <2>4, <2>5 DEF SpansWhole
<1>10. CurrentWhole'
  <2> SUFFICES ASSUME undisturbed' = "response", current' # 0
               PROVE  /\ current_id' \in ResponseSet
                      /\ ActiveIn(realtimeServer') = {current_id'}
                      /\ accumulated' \o holding'[current_id']
                           = TextUpTo(current_id', realtimeServer'[current_id'].sent)
    BY <1>5 DEF CurrentWhole
  <2>1. ActiveIn(realtimeServer) = {} /\ accumulated = <<>>
    <3>1. CASE starts
      BY <1>1, <3>1 DEF Realtime!Undisturbed, Realtime!Active, ActiveIn, ResponseSet
    <3>2. CASE ~starts
      BY <1>1, <3>2 DEF CurrentWhole
    <3> QED BY <3>1, <3>2
  <2>2. ActiveIn(realtimeServer') = {r}
    BY <1>4, <2>1 DEF ActiveIn
  <2>3. realtimeServer'[r].sent = 0
    BY <1>1, <1>4 DEF SpansWhole
  <2>4. holding'[r] = <<>> /\ accumulated' = <<>>
    BY <1>1, <2>1 DEF KeySet
  <2>5. TextUpTo(r, 0) = <<>>
    BY DEF TextUpTo
  <2>6. accumulated' \o holding'[r] = TextUpTo(r, realtimeServer'[r].sent)
    <3>1. <<>> \o <<>> = <<>>
      OBVIOUS
    <3> QED BY <2>3, <2>4, <2>5, <3>1, Zenon
  <2> QED BY <1>1, <2>2, <2>6
<1> QED BY <1>6, <1>7, <1>8, <1>9, <1>10

\* A piece of text comes: the streaming session of the current identifier
\* hands on a part of what it has.
LEMMA TextComes ==
  ASSUME RealtimeInv, NEW r \in ResponseSet, Realtime!TextDelta(r)
  PROVE  RealtimeInv'
<1> USE DEF RealtimeInv
<1> DEFINE k == current_id
           x == <<r, realtimeServer[r].sent + 1>>
           w == Append(holding[k], x)
<1>1. /\ RealtimeTyped /\ realtimeServer[r].state = "active"
      /\ realtimeServer[r].sent < MaxPieces
      /\ realtimeServer' = [realtimeServer EXCEPT ![r].sent = @ + 1]
      /\ UNCHANGED <<spans, current, current_id, tails, undisturbed>>
  BY DEF Realtime!TextDelta, Realtime!Active
<1>2. PICK kept \in 0..Len(w) :
        /\ holding' = [holding EXCEPT ![k] = SubSeq(w, Len(w) - kept + 1, Len(w))]
        /\ accumulated' = accumulated \o SubSeq(w, 1, Len(w) - kept)
  BY DEF Realtime!TextDelta, Realtime!Rest, Realtime!Divided
<1>3. /\ spans \in Seq(ResponseSpans) /\ Len(spans) \in Nat /\ k \in KeySet
      /\ accumulated \in Seq(PieceSet) /\ holding[k] \in Seq(PieceSet)
      /\ holding \in [KeySet -> Seq(PieceSet)] /\ DOMAIN realtimeServer = ResponseSet
      /\ \A q \in ResponseSet : realtimeServer[q] \in ServerRecords
      /\ realtimeServer[r].sent \in 0..MaxPieces
  BY <1>1 DEF RealtimeTyped, ServerRecords
<1>4. x \in PieceSet /\ x[1] = r /\ x[2] = realtimeServer[r].sent + 1
  BY <1>1, <1>3, ObjectsAssumption DEF PieceSet
<1>5. /\ realtimeServer' \in [ResponseSet -> ServerRecords]
      /\ realtimeServer'[r].state = "active"
      /\ realtimeServer'[r].sent = realtimeServer[r].sent + 1
      /\ \A q \in ResponseSet : q # r => realtimeServer'[q] = realtimeServer[q]
  <2> DEFINE n == realtimeServer[r].sent + 1
             v == [realtimeServer[r] EXCEPT !.sent = n]
  <2>1. n \in 0..MaxPieces
    BY ONLY <1>1, <1>3, ObjectsAssumption
  <2>2. realtimeServer' = [realtimeServer EXCEPT ![r] = v]
    BY <1>1
  <2> HIDE DEF n
  <2>3. v \in ServerRecords /\ v.sent = n /\ v.state = "active"
    BY <1>1, <1>3, <2>1 DEF ServerRecords
  <2> HIDE DEF v
  <2>4. realtimeServer' \in [ResponseSet -> ServerRecords]
    BY <1>1, <2>2, <2>3 DEF RealtimeTyped
  <2>5. realtimeServer'[r] = v /\ \A q \in ResponseSet : q # r => realtimeServer'[q] = realtimeServer[q]
    BY <1>3, <2>2
  <2> QED BY <2>3, <2>4, <2>5 DEF n
<1> HIDE DEF x
<1>6. w \in Seq(PieceSet)
  BY <1>3, <1>4
<1> DEFINE u == SubSeq(w, 1, Len(w) - kept)
           v == SubSeq(w, Len(w) - kept + 1, Len(w))
<1>7. u \in Seq(PieceSet) /\ v \in Seq(PieceSet) /\ u \o v = w
  <2> HIDE DEF w
  <2> QED BY <1>6, CutInTwo
<1>8. holding' = [holding EXCEPT ![k] = v] /\ accumulated' = accumulated \o u
  BY <1>2
<1> HIDE DEF u, v
<1>9. RealtimeTyped'
  <2>1. holding' \in [KeySet -> Seq(PieceSet)] /\ accumulated' \in Seq(PieceSet)
    BY <1>3, <1>7, <1>8
  <2> QED BY <1>1, <1>5, <2>1 DEF RealtimeTyped
<1>10. Realtime!OneOpenSpan'
  BY <1>1 DEF Realtime!OneOpenSpan, Realtime!Numbered
<1>11. TextsOnce'
  <2> DEFINE f == TextsIn(spans, accumulated, holding)
             g == TextsIn(spans', accumulated', holding')
             D == PlacesOf(spans)
             a == 0
             b == 0 - 1 - k
  <2>1. /\ a \in D /\ b \in D /\ a # b /\ b \in Int /\ ~(b = 0) /\ ~(b > 0) /\ 0 - 1 - b = k
        /\ \A p \in D : p \in Int
    BY <1>3, ObjectsAssumption DEF PlacesOf, KeySet, ResponseSet
  <2>2. f[a] = accumulated /\ f[b] = holding[k]
    BY <2>1 DEF TextsIn
  <2>3. g[a] = accumulated \o u /\ g[b] = v
    BY <1>3, <1>8, <2>1 DEF TextsIn
  <2>4. ASSUME NEW p \in D \ {a, b} PROVE g[p] = f[p]
    <3>1. CASE p > 0
      BY <1>1, <2>1, <3>1 DEF TextsIn
    <3>2. CASE ~(p > 0)
      <4>1. 0 - 1 - p # k /\ ~(p = 0)
        BY ONLY <1>3, <2>1, <2>4, <3>2, ObjectsAssumption DEF KeySet, ResponseSet
      <4>2. holding'[0 - 1 - p] = holding[0 - 1 - p]
        BY <1>3, <1>8, <4>1
      <4> QED BY <2>1, <3>2, <4>1, <4>2 DEF TextsIn
    <3> QED BY <3>1, <3>2
  <2>5. InOnePlace(f, D) /\ SentOnly(f, D, realtimeServer)
    BY DEF TextsOnce
  <2> HIDE DEF f, g, D, a, b
  <2>6. \A p \in D : x \notin PiecesOf(f[p])
    BY <1>3, <1>4, <2>5, ObjectsAssumption DEF SentOnly
  <2>7. f[a] \in Seq(PieceSet) /\ f[b] \in Seq(PieceSet) /\ u \o v = Append(f[b], x)
    BY <1>3, <1>7, <2>2
  <2>8. InOnePlace(g, D)
    <3>1. g[a] = f[a] \o u /\ g[b] = v
      BY <2>2, <2>3
    <3>2. x \in PieceSet /\ u \in Seq(PieceSet) /\ v \in Seq(PieceSet)
      BY <1>4, <1>7
    <3>3. a \in D /\ b \in D /\ a # b
      BY <2>1
    <3>4. \A p \in D \ {a, b} : g[p] = f[p]
      BY <2>4
    <3>5. InOnePlace(f, D)
      BY <2>5
    <3>6. HandsOn(f, g, D, a, b, x, u, v, PieceSet)
      BY ONLY <2>6, <2>7, <3>1, <3>2, <3>3, <3>4 DEF HandsOn
    <3> QED BY ONLY <3>5, <3>6, HandedOn
  <2>9. SentOnly(g, D, realtimeServer')
    <3>1. /\ PiecesOf(g[a]) = PiecesOf(f[a]) \cup PiecesOf(u) /\ PiecesOf(g[b]) = PiecesOf(v)
          /\ PiecesOf(u) \cup PiecesOf(v) = PiecesOf(f[b]) \cup {x}
      <4>1. PiecesOf(u \o v) = PiecesOf(f[b]) \cup {x}
        BY <1>4, <2>7, AppendOnce
      <4>2. PiecesOf(f[a] \o u) = PiecesOf(f[a]) \cup PiecesOf(u)
        BY <1>7, <2>7, ConcatOnce
      <4>3. PiecesOf(u \o v) = PiecesOf(u) \cup PiecesOf(v)
        BY <1>7, ConcatOnce
      <4> QED BY <2>2, <2>3, <4>1, <4>2, <4>3
    <3>2. \A p \in D, y \in PieceSet : y \in PiecesOf(g[p]) =>
             y = x \/ \E q \in D : y \in PiecesOf(f[q])
      <4>1. \A p \in D : p # a /\ p # b => g[p] = f[p]
        BY <2>4
      <4>2. a \in D /\ b \in D
        BY <2>1
      <4> QED BY ONLY <3>1, <4>1, <4>2
    <3>3. \A p \in D : PiecesOf(g[p]) \subseteq PieceSet
      <4>1. \A p \in D : PiecesOf(f[p]) \subseteq PieceSet
        BY <2>5 DEF SentOnly
      <4> QED BY <1>4, <2>1, <2>4, <3>1, <4>1
    <3>4. \A y \in PieceSet : y[1] \in ResponseSet /\ y[2] \in Int
      BY ObjectsAssumption DEF PieceSet
    <3>5. \A q \in ResponseSet : realtimeServer[q].sent \in Int
      BY <1>3 DEF ServerRecords
    <3>6. \A y \in PieceSet : y[2] <= realtimeServer[y[1]].sent => y[2] <= realtimeServer'[y[1]].sent
      <4>1. \A q \in ResponseSet : \/ realtimeServer'[q].sent = realtimeServer[q].sent
                                   \/ realtimeServer'[q].sent = realtimeServer[q].sent + 1
        BY <1>5
      <4>2. \A i, m, n \in Int : i <= m /\ (n = m \/ n = m + 1) => i <= n
        OBVIOUS
      <4>3. \A q \in ResponseSet : realtimeServer'[q].sent \in Int
        BY <1>5 DEF ServerRecords
      <4> QED BY <3>4, <3>5, <4>1, <4>2, <4>3
    <3>7. x[2] <= realtimeServer'[x[1]].sent
      BY <1>3, <1>4, <1>5
    <3> QED BY <2>5, <3>2, <3>3, <3>6, <3>7 DEF SentOnly
  <2> QED BY <1>1, <2>8, <2>9 DEF TextsOnce, g, D
<1>12. SpansWhole'
  <2>1. \A s \in 1..Len(spans) : \A q \in spans[s].of : q \in ResponseSet
    <3>1. \A s \in 1..Len(spans) : spans[s] \in ResponseSpans
      BY <1>3
    <3>2. \A z \in ResponseSpans : z.of \in SUBSET ResponseSet
      BY DEF ResponseSpans
    <3> QED BY <3>1, <3>2
  <2>2. \A s \in 1..Len(spans) : r \notin spans[s].of
    BY <1>1 DEF SpansWhole
  <2> QED BY <1>1, <1>5, <2>1, <2>2 DEF SpansWhole
<1>13. CurrentWhole'
  <2> SUFFICES ASSUME current # 0 PROVE CurrentWhole'
    BY <1>1 DEF CurrentWhole
  <2>1. ActiveIn(realtimeServer') = ActiveIn(realtimeServer) /\ r \in ActiveIn(realtimeServer)
    BY <1>1, <1>5 DEF ActiveIn
  <2>2. undisturbed # "nothing"
    BY <2>1 DEF CurrentWhole
  <2>3. ASSUME undisturbed = "response"
        PROVE  accumulated' \o holding'[r] = TextUpTo(r, realtimeServer'[r].sent)
    <3>1. k = r /\ accumulated \o holding[r] = TextUpTo(r, realtimeServer[r].sent)
      BY <2>1, <2>3 DEF CurrentWhole
    <3>2. holding'[r] = v
      BY <1>3, <1>8, <3>1
    <3>3. (accumulated \o u) \o v = accumulated \o (u \o v)
      <4>1. accumulated \in Seq(PieceSet) /\ u \in Seq(PieceSet) /\ v \in Seq(PieceSet)
        BY <1>3, <1>7
      <4> QED BY ONLY <4>1
    <3>4. accumulated \o w = Append(accumulated \o holding[r], x)
      <4>1. holding[r] \in Seq(PieceSet) /\ w = Append(holding[r], x)
        BY <1>3, <3>1
      <4> HIDE DEF w
      <4> QED BY <1>3, <1>4, <4>1, AppendBehind
    <3>5. Append(TextUpTo(r, realtimeServer[r].sent), x) = TextUpTo(r, realtimeServer[r].sent + 1)
      <4> DEFINE n == realtimeServer[r].sent
                 t == TextUpTo(r, n)
      <4>1. n \in Nat
        BY ONLY <1>3, ObjectsAssumption
      <4> HIDE DEF n
      <4>2. t \in Seq(Nat \X Nat) /\ Len(t) = n /\ \A i \in 1..n : t[i] = <<r, i>>
        <5>1. \A i \in 1..n : <<r, i>> \in Nat \X Nat
          BY <4>1, ObjectsAssumption DEF ResponseSet
        <5> QED BY <4>1, <5>1 DEF TextUpTo
      <4>3. x = <<r, n + 1>> /\ x \in Nat \X Nat
        BY <4>1, ObjectsAssumption DEF x, n, ResponseSet
      <4> DEFINE z == TextUpTo(r, n + 1)
      <4>4. z \in Seq(Nat \X Nat) /\ Len(z) = n + 1 /\ \A i \in 1..(n + 1) : z[i] = <<r, i>>
        <5>1. \A i \in 1..(n + 1) : <<r, i>> \in Nat \X Nat
          BY <4>1, ObjectsAssumption DEF ResponseSet
        <5> QED BY <4>1, <5>1 DEF TextUpTo
      <4> HIDE DEF t, z
      <4>5. Append(t, x) = z
        <5>1. /\ Append(t, x) \in Seq(Nat \X Nat) /\ Len(Append(t, x)) = n + 1
              /\ \A i \in 1..n : Append(t, x)[i] = t[i]
              /\ Append(t, x)[n + 1] = x
          BY ONLY <4>1, <4>2, <4>3
        <5>2. \A i \in 1..(n + 1) : i \in 1..n \/ i = n + 1
          BY ONLY <4>1
        <5>3. \A i \in 1..(n + 1) : Append(t, x)[i] = z[i]
          BY ONLY <4>2, <4>3, <4>4, <5>1, <5>2
        <5> QED BY ONLY <4>4, <5>1, <5>3, SeqEqual
      <4> QED BY <4>5 DEF t, z, n
    <3> QED BY <1>5, <1>7, <1>8, <3>1, <3>2, <3>3, <3>4, <3>5
  <2>4. undisturbed = "response" => k = r
    BY <2>1 DEF CurrentWhole
  <2> QED BY <1>1, <2>1, <2>2, <2>3, <2>4 DEF CurrentWhole
<1> QED BY <1>9, <1>10, <1>11, <1>12, <1>13

\* A response is done: its end goes to the span, with what the streaming
\* session of the current identifier still held back.
LEMMA ResponseDone ==
  ASSUME RealtimeInv, NEW r \in ResponseSet, Realtime!Done(r)
  PROVE  RealtimeInv'
<1> USE DEF RealtimeInv
<1> DEFINE k == current_id
           text == accumulated \o holding[k]
           of == IF undisturbed = "response" THEN {r} ELSE {}
<1>1. /\ RealtimeTyped /\ realtimeServer[r].state = "active"
      /\ realtimeServer' = [realtimeServer EXCEPT ![r].state = "done"]
      /\ holding' = [holding EXCEPT ![k] = <<>>] /\ undisturbed' = undisturbed
  BY DEF Realtime!Done, Realtime!Active
<1>2. /\ spans \in Seq(ResponseSpans) /\ Len(spans) \in Nat /\ k \in KeySet
      /\ current \in 0..Len(spans)
      /\ accumulated \in Seq(PieceSet) /\ holding[k] \in Seq(PieceSet)
      /\ holding \in [KeySet -> Seq(PieceSet)] /\ tails \in [KeySet -> Seq(PieceSet)]
      /\ DOMAIN realtimeServer = ResponseSet
      /\ \A q \in ResponseSet : realtimeServer[q] \in ServerRecords
  BY <1>1 DEF RealtimeTyped
<1>3. \/ /\ current = 0 /\ tails' = [tails EXCEPT ![k] = holding[k]]
         /\ UNCHANGED <<spans, current, current_id, accumulated>>
      \/ /\ current # 0 /\ tails' = [tails EXCEPT ![k] = <<>>]
         /\ spans' = Realtime!EndSpan("ok", text, of)
         /\ current' = 0 /\ current_id' = 0 /\ accumulated' = <<>>
  BY DEF Realtime!Done, Realtime!Reset
<1>4. /\ realtimeServer' \in [ResponseSet -> ServerRecords]
      /\ realtimeServer'[r].state = "done"
      /\ \A q \in ResponseSet : /\ realtimeServer'[q].sent = realtimeServer[q].sent
                                /\ q # r => realtimeServer'[q] = realtimeServer[q]
  <2> DEFINE w == [realtimeServer[r] EXCEPT !.state = "done"]
  <2>1. w \in ServerRecords /\ w.sent = realtimeServer[r].sent /\ w.state = "done"
    BY <1>2 DEF ServerRecords
  <2>2. realtimeServer' = [realtimeServer EXCEPT ![r] = w]
    BY <1>1
  <2> HIDE DEF w
  <2> QED BY <1>1, <2>1, <2>2 DEF RealtimeTyped
<1>5. /\ text \in Seq(PieceSet) /\ of \in SUBSET ResponseSet
      /\ holding' \in [KeySet -> Seq(PieceSet)]
      /\ \A q \in KeySet : holding'[q] = IF q = k THEN <<>> ELSE holding[q]
  BY <1>1, <1>2
<1>6. current # 0 => /\ spans' \in Seq(ResponseSpans) /\ Len(spans') = Len(spans)
                     /\ current \in 1..Len(spans)
                     /\ \A s \in 1..Len(spans) : s # current => spans'[s] = spans[s]
                     /\ spans'[current].ended = spans[current].ended + 1
                     /\ spans'[current].told = text /\ spans'[current].of = of
  <2> HIDE DEF text, of
  <2> QED BY <1>1, <1>3, <1>5, EndsCurrent
<1>7. RealtimeTyped'
  <2>1. tails' \in [KeySet -> Seq(PieceSet)]
    <3> DEFINE e == <<>>
    <3>1. e \in Seq(PieceSet)
      OBVIOUS
    <3>2. tails' = [tails EXCEPT ![k] = holding[k]] \/ tails' = [tails EXCEPT ![k] = e]
      BY <1>3
    <3> HIDE DEF e
    <3> QED BY ONLY <1>2, <3>1, <3>2
  <2>2. CASE current = 0
    BY <1>1, <1>3, <1>4, <1>5, <2>1, <2>2 DEF RealtimeTyped
  <2>3. CASE current # 0
    <3>1. spans' \in Seq(ResponseSpans) /\ current' = 0 /\ 0 \in 0..Len(spans')
      BY <1>2, <1>3, <1>6, <2>3
    <3>2. current_id' \in KeySet /\ accumulated' \in Seq(PieceSet)
      <4>1. <<>> \in Seq(PieceSet) /\ 0 \in KeySet
        BY DEF KeySet
      <4>2. current_id' = 0 /\ accumulated' = <<>>
        BY <1>3, <2>3
      <4> QED BY ONLY <4>1, <4>2
    <3>3. undisturbed' \in {"nothing", "response", "mixed"}
      BY <1>1 DEF RealtimeTyped
    <3> QED BY <1>4, <1>5, <2>1, <3>1, <3>2, <3>3 DEF RealtimeTyped
  <2> QED BY <2>2, <2>3
<1>8. Realtime!OneOpenSpan'
  <2>1. CASE current = 0
    BY <1>3, <2>1 DEF Realtime!OneOpenSpan, Realtime!Numbered
  <2>2. CASE current # 0
    <3>1. DOMAIN spans = 1..Len(spans) /\ DOMAIN spans' = 1..Len(spans)
      BY <1>2, <1>6, <2>2
    <3>2. current' = 0
      BY <1>3, <2>2
    <3> QED BY <1>6, <2>2, <3>1, <3>2 DEF Realtime!OneOpenSpan, Realtime!Numbered
  <2> QED BY <2>1, <2>2
<1>9. TextsOnce'
  <2> DEFINE f == TextsIn(spans, accumulated, holding)
             g == TextsIn(spans', accumulated', holding')
             D == PlacesOf(spans)
             a == 0
             b == 0 - 1 - k
  <2>1. /\ a \in D /\ b \in D /\ a # b /\ b \in Int /\ ~(b = 0) /\ ~(b > 0) /\ 0 - 1 - b = k
        /\ \A p \in D : p \in Int /\ 0 - MaxResponses - 1 <= p /\ p <= Len(spans)
    BY <1>2, ObjectsAssumption DEF PlacesOf, KeySet, ResponseSet
  <2>2. f[a] = accumulated /\ f[b] = holding[k]
    BY <2>1 DEF TextsIn
  <2>3. ASSUME NEW p \in D, ~(p = 0), ~(p > 0)
        PROVE  g[p] = IF p = b THEN <<>> ELSE f[p]
    <3>1. p \in Int /\ k \in Int
      BY ONLY <1>2, <2>1, <2>3, ObjectsAssumption DEF KeySet, ResponseSet
    <3>2. 0 - 1 - p \in KeySet /\ (0 - 1 - p = k <=> p = b)
      <4>1. 0 - 1 - p \in KeySet
        BY ONLY <2>1, <2>3, <3>1, ObjectsAssumption DEF KeySet, ResponseSet
      <4>2. 0 - 1 - p = k <=> p = 0 - 1 - k
        BY ONLY <3>1
      <4> QED BY <4>1, <4>2
    <3>3. g[p] = holding'[0 - 1 - p] /\ f[p] = holding[0 - 1 - p]
      BY <2>3, <3>1 DEF TextsIn
    <3> QED BY <1>5, <3>2, <3>3
  <2>4. InOnePlace(f, D) /\ SentOnly(f, D, realtimeServer)
    BY DEF TextsOnce
  <2>5. PlacesOf(spans') = D
    <3>1. Len(spans') = Len(spans)
      BY <1>3, <1>6
    <3> QED BY <3>1 DEF PlacesOf
  <2>6. CASE current = 0
    <3>1. ASSUME NEW p \in D PROVE g[p] = <<>> \/ g[p] = f[p]
      <4>1. CASE ~(p = 0) /\ ~(p > 0)
        BY <2>3, <4>1
      <4>2. CASE p = 0 \/ p > 0
        BY <1>3, <2>1, <2>6, <4>2 DEF TextsIn
      <4> QED BY <4>1, <4>2
    <3> QED BY <1>4, <2>5, <3>1, TextsGivenUp
  <2>7. CASE current # 0
    <3> DEFINE c == current
    <3>1. c \in 1..Len(spans) /\ c \in Int /\ c > 0 /\ ~(c = 0)
      BY ONLY <1>2, <2>7
    <3>2. g[c] = f[a] \o f[b]
      BY <1>6, <2>2, <2>7, <3>1 DEF TextsIn
    <3>3. ASSUME NEW p \in D, p # c PROVE g[p] = <<>> \/ (p \in D \ {a, b} /\ g[p] = f[p])
      <4>1. CASE p = 0
        BY <1>3, <2>1, <2>7, <4>1 DEF TextsIn
      <4>2. CASE p > 0
        <5>1. p \in 1..Len(spans) /\ p \in Int /\ ~(p = 0) /\ p # b
          BY ONLY <1>2, <2>1, <3>3, <4>2
        <5>2. spans'[p] = spans[p]
          BY <1>6, <2>7, <3>3, <5>1
        <5> QED BY <4>2, <5>1, <5>2 DEF TextsIn
      <4>3. CASE ~(p = 0) /\ ~(p > 0)
        BY <2>3, <4>3
      <4> QED BY <4>1, <4>2, <4>3
    <3>4. f[a] \in Seq(PieceSet) /\ f[b] \in Seq(PieceSet)
      BY <1>2, <2>2
    <3> HIDE DEF f, g, D, a, b, c
    <3>5. Joins(f, g, D, D, a, b, c, PieceSet)
      BY <2>1, <3>2, <3>3, <3>4 DEF Joins
    <3>6. InOnePlace(g, D) /\ PiecesOf(g[c]) = PiecesOf(f[a]) \cup PiecesOf(f[b])
      BY ONLY <2>4, <3>5, Joined
    <3>7. SentOnly(g, D, realtimeServer')
      <4>1. \A p \in D : \A y \in PiecesOf(g[p]) : \E q \in D : y \in PiecesOf(f[q])
        <5>1. \A p \in D : p # c => PiecesOf(g[p]) = {} \/ PiecesOf(g[p]) = PiecesOf(f[p])
          BY ONLY <3>3, EmptyOnce
        <5> QED BY <2>1, <3>6, <5>1
      <4> QED BY <1>4, <2>4, <4>1 DEF SentOnly, PieceSet
    <3> QED BY <2>5, <3>6, <3>7 DEF TextsOnce, g, D
  <2> QED BY <2>6, <2>7
<1>10. SpansWhole'
  <2>1. \A s \in 1..Len(spans) : \A q \in spans[s].of : q \in ResponseSet /\ q # r
    <3>1. \A s \in 1..Len(spans) : spans[s] \in ResponseSpans
      BY <1>2
    <3>2. \A z \in ResponseSpans : z.of \in SUBSET ResponseSet
      BY DEF ResponseSpans
    <3>3. \A s \in 1..Len(spans) : r \notin spans[s].of
      BY <1>1 DEF SpansWhole
    <3> QED BY <3>1, <3>2, <3>3
  <2>2. \A q \in ResponseSet : realtimeServer'[q].state = "none" => realtimeServer'[q].sent = 0
    BY <1>4 DEF SpansWhole
  <2>3. CASE current = 0
    BY <1>3, <1>4, <2>1, <2>2, <2>3 DEF SpansWhole
  <2>4. CASE current # 0
    <3>1. ASSUME NEW s \in 1..Len(spans), s # current
          PROVE  \A q \in spans'[s].of :
                    /\ realtimeServer'[q].state = "done"
                    /\ spans'[s].told = TextUpTo(q, realtimeServer'[q].sent)
      BY <1>4, <1>6, <2>1, <2>4, <3>1 DEF SpansWhole
    <3>2. ASSUME undisturbed = "response"
          PROVE  text = TextUpTo(r, realtimeServer'[r].sent)
      <4>1. r \in ActiveIn(realtimeServer)
        BY <1>1 DEF ActiveIn
      <4>2. k = r /\ text = TextUpTo(k, realtimeServer[k].sent)
        BY <2>4, <3>2, <4>1 DEF CurrentWhole
      <4> QED BY <1>4, <4>2
    <3>3. \A q \in spans'[current].of :
                    /\ realtimeServer'[q].state = "done"
                    /\ spans'[current].told = TextUpTo(q, realtimeServer'[q].sent)
      <4> HIDE DEF text
      <4>1. spans'[current].of = of /\ spans'[current].told = text
        BY <1>6, <2>4
      <4>2. \A q \in of : q = r /\ undisturbed = "response"
        OBVIOUS
      <4> HIDE DEF of
      <4> QED BY <1>4, <3>2, <4>1, <4>2
    <3>4. Len(spans') = Len(spans) /\ current' = 0 /\ \A s \in 1..Len(spans) : s # 0
      BY <1>2, <1>3, <1>6, <2>4
    <3> QED BY <2>2, <3>1, <3>3, <3>4 DEF SpansWhole
  <2> QED BY <2>3, <2>4
<1>11. CurrentWhole'
  BY <1>3 DEF CurrentWhole
<1> QED BY <1>7, <1>8, <1>9, <1>10, <1>11

LEMMA RealtimeStep ==
  ASSUME SessionInv, RealtimeInv, Realtime!Next
  PROVE  SessionInv' /\ RealtimeInv'
<1>1. SessionInv'
  BY SessionStep
<1> SUFFICES RealtimeInv'
  BY <1>1
<1>2. CASE Realtime!Enter
  BY <1>2, ConnectionQuiet DEF Realtime!Enter, Realtime!texts
<1>3. CASE Realtime!Close
  BY <1>3, ConnectionQuiet DEF Realtime!Close, Realtime!texts
<1>4. CASE Realtime!Leave
  BY <1>4, ConnectionQuiet DEF Realtime!Leave, Realtime!texts
<1>5. CASE Realtime!LeaveConnection
  <2>1. CASE UNCHANGED <<spans, current, current_id, accumulated>>
    BY <1>5, <2>1, ConnectionQuiet DEF Realtime!LeaveConnection
  <2>2. CASE /\ current # 0 /\ spans' = Realtime!EndSpan("error", <<>>, {})
             /\ Realtime!Reset
    BY <1>5, <2>2, SpanEnded DEF Realtime!LeaveConnection
  <2> QED BY <1>5, <2>1, <2>2 DEF Realtime!LeaveConnection
<1>6. CASE Realtime!CreateResponse
  BY <1>6, ResponseAsked DEF SessionInv
<1>7. CASE Realtime!Cancel
  BY <1>7, SpanEnded DEF Realtime!Cancel
<1>8. CASE Realtime!AddItem
  BY <1>8, ConnectionQuiet DEF Realtime!AddItem, Realtime!texts
<1>9. CASE Realtime!ErrorEvent
  BY <1>9, SpanEnded DEF Realtime!ErrorEvent
<1>10. ASSUME NEW r \in 1..MaxResponses, NEW b \in BOOLEAN, Realtime!Created(r, b)
       PROVE  RealtimeInv'
  BY <1>10, ResponseBegun DEF ResponseSet
<1>11. ASSUME NEW r \in 1..MaxResponses, Realtime!TextDelta(r) PROVE RealtimeInv'
  BY <1>11, TextComes DEF ResponseSet
<1>12. ASSUME NEW r \in 1..MaxResponses, Realtime!Done(r) PROVE RealtimeInv'
  BY <1>12, ResponseDone DEF ResponseSet
<1> QED BY <1>2, <1>3, <1>4, <1>5, <1>6, <1>7, <1>8, <1>9, <1>10, <1>11, <1>12
           DEF Realtime!Next

\* What the invariant says of the properties.
LEMMA RealtimeServes ==
  ASSUME SessionInv, RealtimeInv
  PROVE  /\ Realtime!TypeOK /\ Realtime!OneOpenSpan /\ Realtime!SessionAccounted
         /\ Realtime!ToldOnce /\ Realtime!ToldWhole
<1>1. RealtimeTyped
  BY DEF RealtimeInv
<1>2. Realtime!TypeOK
  BY <1>1 DEF RealtimeTyped, SessionInv, Realtime!TypeOK, ResponseSpans, Realtime!Pieces,
              PieceSet, ResponseSet, KeySet, ServerRecords
<1>3. Realtime!ToldOnce
  <2> DEFINE f == TextsIn(spans, accumulated, holding)
             D == PlacesOf(spans)
  <2>1. \A s \in 0..Len(spans) : s \in D /\ f[s] = Realtime!Told(s)
    <3> TAKE s \in 0..Len(spans)
    <3>1. Len(spans) \in Nat
      BY <1>1 DEF RealtimeTyped
    <3>2. s \in D /\ s \in Int /\ (s = 0 \/ s > 0)
      BY <3>1, ObjectsAssumption DEF PlacesOf
    <3>3. s > 0 => s # 0
      BY <3>2
    <3> QED BY <3>2, <3>3 DEF TextsIn, Realtime!Told
  <2>2. InOnePlace(f, D)
    BY DEF RealtimeInv, TextsOnce
  <2> HIDE DEF f, D
  <2> SUFFICES ASSUME NEW s \in 0..Len(spans), NEW t \in 0..Len(spans),
                      NEW i \in DOMAIN Realtime!Told(s), NEW j \in DOMAIN Realtime!Told(t),
                      Realtime!Told(s)[i] = Realtime!Told(t)[j]
               PROVE  s = t /\ i = j
    BY DEF Realtime!ToldOnce
  <2>3. i \in DOMAIN f[s] /\ j \in DOMAIN f[t] /\ f[s][i] = f[t][j] /\ s \in D /\ t \in D
    BY <2>1
  <2>4. s = t
    BY ONLY <2>2, <2>3 DEF InOnePlace, PiecesOf
  <2> QED BY ONLY <2>2, <2>3, <2>4 DEF InOnePlace, Once
<1>4. Realtime!ToldWhole
  <2>1. DOMAIN spans = 1..Len(spans)
    BY <1>1 DEF RealtimeTyped
  <2> QED BY <2>1 DEF RealtimeInv, SpansWhole, TextUpTo, Realtime!ToldWhole, Realtime!Numbered
<1> QED BY <1>2, <1>3, <1>4 DEF RealtimeInv, SessionInv

-----------------------------------------------------------------------------
(* Runs of the Assistants API. *)

\* The records of the type invariant.
UserRecords(n) ==
  [pc : {"idle", "calling", "answered", "returned", "raised", "finished",
         "unfinished", "listing", "ending", "broken"},
   kind : {"create", "retrieve", "list"}, thread : Threads, named : BOOLEAN,
   run : SUBSET Ids, entry : 0..n]
ListRecords ==
  [on : BOOLEAN, ends : 0..1, status : {"unset", "error"}, usage : SUBSET Ids]
EntryRecords ==
  [run : SUBSET Ids, exception : BOOLEAN, ended : BOOLEAN, usage : SUBSET Ids]
RunRecords == [thread : SUBSET Threads, finished : BOOLEAN]

Keys == {<<>>} \cup {<<t>> : t \in Threads}
KeyOf(w) == IF w.named THEN <<w.thread>> ELSE <<>>

AssistantsTyped ==
  /\ runs \in [Keys -> 0..Len(entries)]
  /\ entries \in Seq(EntryRecords)
  /\ provider \in [Ids -> RunRecords]
  /\ user \in [Users -> UserRecords(Len(entries))]
  /\ listed \in [Users -> ListRecords]

\* The finished runs of thread t, whether a create or retrieve with key k
\* failed, and what an entry under key k may hold.
FinishedOf(p, t) == {q \in Ids : p[q].finished /\ p[q].thread = {t}}
FailedIn(us, k) ==
  \E v \in Users : us[v].pc = "raised" /\ KeyOf(us[v]) = k /\ us[v].kind # "list"
Fits(e, p, us, k) ==
  /\ e.usage = {} \/ \E t \in Threads : k = <<t>> /\ e.usage \subseteq FinishedOf(p, t)
  /\ e.exception => FailedIn(us, k)

\* Each key has its own entry, which calls with this key alone look at.
EntriesApart ==
  \A k \in Keys : runs[k] # 0 =>
    /\ \A j \in Keys : runs[j] = runs[k] => j = k
    /\ \A u \in Users : user[u].entry = runs[k] => KeyOf(user[u]) = k
    /\ Fits(entries[runs[k]], provider, user, k)

\* What a list has looked up is an entry of its key, though perhaps not the
\* one that is there now.
LookedUp ==
  \A u \in Users :
    user[u].entry # 0 => Fits(entries[user[u].entry], provider, user, KeyOf(user[u]))

\* A retrieve is about a run of its thread.
OwnRun(w, p) ==
  /\ (w.kind = "retrieve" /\ w.pc = "calling") =>
       \E q \in Ids : w.run = {q} /\ p[q].thread = {w.thread}
  /\ w.pc = "finished" => w.run \subseteq FinishedOf(p, w.thread)

\* Only a list has a span, which is open as long as it is written.
ListedAt(w, l) ==
  /\ l.on <=> w.entry # 0
  /\ l.status = "error" => l.on
  /\ l.on => w.kind = "list"
  /\ w.pc \in {"listing", "ending"} => l.on
  /\ l.on => w.pc \in {"listing", "ending", "returned", "broken"}
  /\ l.ends = IF l.on /\ w.pc = "returned" THEN 1 ELSE 0

\* What the span of a list tells is true of its thread.
TellsTruly(w, l, p, us) ==
  /\ l.status = "error" => FailedIn(us, KeyOf(w))
  /\ l.usage \subseteq FinishedOf(p, w.thread)

AssistantsInv ==
  /\ AssistantsTyped /\ EntriesApart /\ LookedUp
  /\ \A u \in Users : /\ OwnRun(user[u], provider) /\ ListedAt(user[u], listed[u])
                      /\ TellsTruly(user[u], listed[u], provider, user)

\* What has been begun, finished or failed has been so for good, and a call
\* that has begun keeps its key.
AssistantsGrow ==
  /\ \A v \in Users : /\ user'[v].thread = user[v].thread
                      /\ user'[v].entry # 0 => KeyOf(user'[v]) = KeyOf(user[v])
                      /\ user[v].pc = "raised" => user'[v] = user[v]
  /\ \A q \in Ids : provider[q].thread # {} =>
       /\ provider'[q].thread = provider[q].thread
       /\ provider[q].finished => provider'[q].finished

LEMMA KeysHeld ==
  ASSUME NEW n, NEW w \in UserRecords(n)
  PROVE  /\ KeyOf(w) \in Keys /\ <<w.thread>> \in Keys
         /\ \A t \in Threads : KeyOf(w) = <<t>> => w.thread = t
BY DEF UserRecords, KeyOf, Keys

LEMMA GrowKeeps ==
  ASSUME AssistantsGrow
  PROVE  /\ \A t \in Threads : FinishedOf(provider, t) \subseteq FinishedOf(provider', t)
         /\ \A k \in Keys : FailedIn(user, k) => FailedIn(user', k)
BY DEF AssistantsGrow, FinishedOf, FailedIn

LEMMA FitsStill ==
  ASSUME AssistantsGrow, NEW k \in Keys, NEW e, Fits(e, provider, user, k)
  PROVE  Fits(e, provider', user', k)
<1>1. e.usage = {} \/ \E t \in Threads : k = <<t>> /\ e.usage \subseteq FinishedOf(provider', t)
  BY GrowKeeps DEF Fits
<1>2. e.exception => FailedIn(user', k)
  BY GrowKeeps DEF Fits
<1> QED BY <1>1, <1>2 DEF Fits

\* The entries stay as they are; a list may look one up.
LEMMA EntriesStill ==
  ASSUME AssistantsInv, AssistantsGrow, UNCHANGED <<runs, entries>>,
         \A v \in Users : \/ user'[v].entry = user[v].entry
                          \/ user'[v].entry = runs[KeyOf(user[v])]
  PROVE  EntriesApart' /\ LookedUp'
<1>1. \A v \in Users : KeyOf(user[v]) \in Keys
  BY KeysHeld DEF AssistantsInv, AssistantsTyped
<1>2. ASSUME NEW k \in Keys, runs[k] # 0
      PROVE  /\ \A j \in Keys : runs[j] = runs[k] => j = k
             /\ \A u \in Users : user'[u].entry = runs[k] => KeyOf(user'[u]) = k
             /\ Fits(entries[runs[k]], provider', user', k)
  <2>1. /\ \A j \in Keys : runs[j] = runs[k] => j = k
        /\ \A u \in Users : user[u].entry = runs[k] => KeyOf(user[u]) = k
        /\ Fits(entries[runs[k]], provider, user, k)
    BY <1>2 DEF AssistantsInv, EntriesApart
  <2>2. Fits(entries[runs[k]], provider', user', k)
    BY <2>1, FitsStill
  <2>3. ASSUME NEW u \in Users, user'[u].entry = runs[k] PROVE KeyOf(user'[u]) = k
    BY <1>1, <1>2, <2>1, <2>3 DEF AssistantsGrow
  <2> QED BY <2>1, <2>2, <2>3
<1>3. ASSUME NEW u \in Users, user'[u].entry # 0
      PROVE  Fits(entries[user'[u].entry], provider', user', KeyOf(user'[u]))
  <2>1. KeyOf(user'[u]) = KeyOf(user[u])
    BY <1>3 DEF AssistantsGrow
  <2>2. Fits(entries[user'[u].entry], provider, user, KeyOf(user[u]))
    BY <1>1, <1>3 DEF AssistantsInv, EntriesApart, LookedUp
  <2> QED BY <1>1, <2>1, <2>2, FitsStill
<1>4. runs' = runs /\ entries' = entries
  OBVIOUS
<1> QED BY <1>2, <1>3, <1>4 DEF EntriesApart, LookedUp

\* A create replaces the entry under its key.
LEMMA EntryReplaced ==
  ASSUME AssistantsInv, AssistantsGrow, NEW k \in Keys, NEW e,
         entries' = Append(entries, e), runs' = [runs EXCEPT ![k] = Len(entries) + 1],
         Fits(e, provider', user', k),
         \A v \in Users : user'[v].entry = user[v].entry
  PROVE  EntriesApart' /\ LookedUp'
<1>1. /\ \A v \in Users : KeyOf(user[v]) \in Keys /\ user[v].entry \in 0..Len(entries)
      /\ runs \in [Keys -> 0..Len(entries)] /\ Len(entries) \in Nat
  <2>1. /\ \A v \in Users : user[v] \in UserRecords(Len(entries))
        /\ runs \in [Keys -> 0..Len(entries)] /\ Len(entries) \in Nat
    BY DEF AssistantsInv, AssistantsTyped
  <2>2. \A v \in Users : KeyOf(user[v]) \in Keys
    BY <2>1, KeysHeld
  <2> QED BY <2>1, <2>2 DEF UserRecords
<1>2. /\ \A d \in 1..Len(entries) : entries'[d] = entries[d]
      /\ entries'[Len(entries) + 1] = e
  BY DEF AssistantsInv, AssistantsTyped
<1>3. /\ runs'[k] = Len(entries) + 1 /\ \A j \in Keys \ {k} : runs'[j] = runs[j]
      /\ \A j \in Keys : runs[j] # Len(entries) + 1
      /\ \A j \in Keys : runs[j] # 0 => runs[j] \in 1..Len(entries)
      /\ \A u \in Users : user'[u].entry # Len(entries) + 1
      /\ \A u \in Users : user'[u].entry # 0 => user'[u].entry \in 1..Len(entries)
  BY <1>1
<1>4. ASSUME NEW r \in Keys, runs'[r] # 0
      PROVE  /\ \A j \in Keys : runs'[j] = runs'[r] => j = r
             /\ \A u \in Users : user'[u].entry = runs'[r] => KeyOf(user'[u]) = r
             /\ Fits(entries'[runs'[r]], provider', user', r)
  <2>1. CASE r = k
    BY <1>2, <1>3, <2>1
  <2>2. CASE r # k
    <3>1. /\ runs'[r] = runs[r] /\ runs[r] # 0
          /\ \A j \in Keys : runs[j] = runs[r] => j = r
          /\ \A u \in Users : user[u].entry = runs[r] => KeyOf(user[u]) = r
          /\ Fits(entries[runs[r]], provider, user, r)
      BY <1>3, <1>4, <2>2 DEF AssistantsInv, EntriesApart
    <3>2. Fits(entries'[runs'[r]], provider', user', r)
      BY <1>2, <1>3, <3>1, FitsStill
    <3>3. \A j \in Keys : runs'[j] = runs'[r] => j = r
      BY <1>3, <2>2, <3>1
    <3>4. \A u \in Users : user'[u].entry = runs'[r] => KeyOf(user'[u]) = r
      BY <3>1 DEF AssistantsGrow
    <3> QED BY <3>2, <3>3, <3>4
  <2> QED BY <2>1, <2>2
<1>5. ASSUME NEW u \in Users, user'[u].entry # 0
      PROVE  Fits(entries'[user'[u].entry], provider', user', KeyOf(user'[u]))
  <2>1. KeyOf(user'[u]) = KeyOf(user[u])
    BY <1>5 DEF AssistantsGrow
  <2>2. Fits(entries[user[u].entry], provider', user', KeyOf(user[u]))
    BY <1>1, <1>5, FitsStill DEF AssistantsInv, LookedUp
  <2> QED BY <1>2, <1>3, <1>5, <2>1, <2>2
<1> QED BY <1>4, <1>5 DEF EntriesApart, LookedUp

\* A retrieve changes the entry under a key, for all who have looked it up.
LEMMA EntryChanged ==
  ASSUME AssistantsInv, AssistantsGrow, NEW k \in Keys, NEW e,
         runs[k] # 0, runs' = runs, entries' = [entries EXCEPT ![runs[k]] = e],
         Fits(e, provider', user', k),
         \A v \in Users : user'[v].entry = user[v].entry
  PROVE  EntriesApart' /\ LookedUp'
<1>1. /\ \A v \in Users : KeyOf(user[v]) \in Keys /\ user[v].entry \in 0..Len(entries)
      /\ runs \in [Keys -> 0..Len(entries)] /\ Len(entries) \in Nat
  <2>1. /\ \A v \in Users : user[v] \in UserRecords(Len(entries))
        /\ runs \in [Keys -> 0..Len(entries)] /\ Len(entries) \in Nat
    BY DEF AssistantsInv, AssistantsTyped
  <2>2. \A v \in Users : KeyOf(user[v]) \in Keys
    BY <2>1, KeysHeld
  <2> QED BY <2>1, <2>2 DEF UserRecords
<1>2. /\ \A d \in 1..Len(entries) : d # runs[k] => entries'[d] = entries[d]
      /\ entries'[runs[k]] = e
  <2>1. runs[k] \in 1..Len(entries)
    BY <1>1
  <2> QED BY <2>1 DEF AssistantsInv, AssistantsTyped
<1>3. /\ \A j \in Keys : runs[j] # 0 => runs[j] \in 1..Len(entries)
      /\ \A u \in Users : user'[u].entry # 0 => user'[u].entry \in 1..Len(entries)
  BY <1>1
<1>4. ASSUME NEW r \in Keys, runs[r] # 0
      PROVE  /\ \A j \in Keys : runs[j] = runs[r] => j = r
             /\ \A u \in Users : user'[u].entry = runs[r] => KeyOf(user'[u]) = r
             /\ Fits(entries'[runs[r]], provider', user', r)
  <2>1. /\ \A j \in Keys : runs[j] = runs[r] => j = r
        /\ \A u \in Users : user[u].entry = runs[r] => KeyOf(user[u]) = r
        /\ Fits(entries[runs[r]], provider', user', r)
    BY <1>4, FitsStill DEF AssistantsInv, EntriesApart
  <2>2. \A u \in Users : user'[u].entry = runs[r] => KeyOf(user'[u]) = r
    BY <1>4, <2>1 DEF AssistantsGrow
  <2>3. CASE r = k
    BY <1>2, <2>1, <2>2, <2>3
  <2>4. CASE r # k
    BY <1>2, <1>3, <1>4, <2>1, <2>2, <2>4
  <2> QED BY <2>3, <2>4
<1>5. ASSUME NEW u \in Users, user'[u].entry # 0
      PROVE  Fits(entries'[user'[u].entry], provider', user', KeyOf(user'[u]))
  <2>1. KeyOf(user'[u]) = KeyOf(user[u])
    BY <1>5 DEF AssistantsGrow
  <2>2. Fits(entries[user[u].entry], provider', user', KeyOf(user[u]))
    BY <1>1, <1>5, FitsStill DEF AssistantsInv, LookedUp
  <2>3. user[u].entry = runs[k] => KeyOf(user[u]) = k
    BY DEF AssistantsInv, EntriesApart
  <2> QED BY <1>2, <1>3, <1>5, <2>1, <2>2, <2>3
<1> QED BY <1>4, <1>5 DEF EntriesApart, LookedUp

\* A step of u: the others are where they were, and what is true of them stays
\* true.
LEMMA OthersStill ==
  ASSUME AssistantsInv, AssistantsGrow, AssistantsTyped', EntriesApart', LookedUp',
         NEW u \in Users,
         \A v \in Users \ {u} : user'[v] = user[v] /\ listed'[v] = listed[v],
         OwnRun(user'[u], provider'), ListedAt(user'[u], listed'[u]),
         TellsTruly(user'[u], listed'[u], provider', user')
  PROVE  AssistantsInv'
<1>1. ASSUME NEW v \in Users
      PROVE  /\ OwnRun(user'[v], provider') /\ ListedAt(user'[v], listed'[v])
             /\ TellsTruly(user'[v], listed'[v], provider', user')
  <2>1. CASE v = u
    BY <2>1
  <2>2. CASE v # u
    <3>1. /\ user'[v] = user[v] /\ listed'[v] = listed[v] /\ user[v].thread \in Threads
          /\ KeyOf(user[v]) \in Keys
          /\ OwnRun(user[v], provider) /\ ListedAt(user[v], listed[v])
          /\ TellsTruly(user[v], listed[v], provider, user)
      BY <2>2, KeysHeld DEF AssistantsInv, AssistantsTyped, UserRecords
    <3>2. OwnRun(user[v], provider')
      BY <3>1, GrowKeeps DEF OwnRun, AssistantsGrow
    <3>3. TellsTruly(user[v], listed[v], provider', user')
      BY <3>1, GrowKeeps DEF TellsTruly
    <3> QED BY <3>1, <3>2, <3>3
  <2> QED BY <2>1, <2>2
<1> QED BY <1>1 DEF AssistantsInv

LEMMA AssistantsBegin == Assistants!Init => AssistantsInv
<1> SUFFICES ASSUME Assistants!Init PROVE AssistantsInv
  OBVIOUS
<1>1. AssistantsTyped
  <2>1. entries = <<>> /\ entries \in Seq(EntryRecords) /\ Len(entries) = 0
    BY DEF Assistants!Init
  <2>2. runs \in [Keys -> 0..Len(entries)]
    BY <2>1 DEF Assistants!Init, Assistants!Keys, Keys
  <2>3. user \in [Users -> UserRecords(Len(entries))]
    BY <2>1 DEF Assistants!Init, UserRecords
  <2>4. provider \in [Ids -> RunRecords] /\ listed \in [Users -> ListRecords]
    BY DEF Assistants!Init, RunRecords, ListRecords
  <2> QED BY <2>1, <2>2, <2>3, <2>4 DEF AssistantsTyped
<1>2. EntriesApart /\ LookedUp
  BY DEF Assistants!Init, Assistants!Keys, Keys, EntriesApart, LookedUp
<1>3. \A u \in Users : /\ OwnRun(user[u], provider) /\ ListedAt(user[u], listed[u])
                      /\ TellsTruly(user[u], listed[u], provider, user)
  BY DEF Assistants!Init, OwnRun, ListedAt, TellsTruly
<1> QED BY <1>1, <1>2, <1>3 DEF AssistantsInv

LEMMA ProviderFinishesKeeps ==
  ASSUME AssistantsInv, NEW q \in Ids, Assistants!ProviderFinishes(q)
  PROVE  AssistantsInv'
<1>1. AssistantsGrow /\ AssistantsTyped'
  BY DEF AssistantsInv, AssistantsTyped, AssistantsGrow, RunRecords, Assistants!ProviderFinishes
<1>2. EntriesApart' /\ LookedUp'
  BY <1>1, EntriesStill DEF Assistants!ProviderFinishes
<1>3. ASSUME NEW v \in Users
      PROVE  /\ OwnRun(user[v], provider') /\ ListedAt(user[v], listed[v])
             /\ TellsTruly(user[v], listed[v], provider', user)
  <2>1. /\ user' = user /\ user[v].thread \in Threads /\ KeyOf(user[v]) \in Keys
        /\ OwnRun(user[v], provider) /\ ListedAt(user[v], listed[v])
        /\ TellsTruly(user[v], listed[v], provider, user)
    BY KeysHeld DEF AssistantsInv, AssistantsTyped, UserRecords, Assistants!ProviderFinishes
  <2>2. OwnRun(user[v], provider')
    BY <1>1, <2>1, GrowKeeps DEF OwnRun, AssistantsGrow
  <2>3. TellsTruly(user[v], listed[v], provider', user)
    BY <1>1, <2>1, GrowKeeps DEF TellsTruly
  <2> QED BY <2>1, <2>2, <2>3
<1> QED BY <1>1, <1>2, <1>3 DEF AssistantsInv, Assistants!ProviderFinishes

LEMMA UserBegins ==
  ASSUME AssistantsInv, NEW u \in Users, NEW kind \in Assistants!Kinds,
         NEW named \in BOOLEAN, Assistants!Begin(u, kind, named)
  PROVE  AssistantsInv'
<1>1. PICK run \in SUBSET Ids :
        /\ user' = [user EXCEPT ![u] = [user[u] EXCEPT !.pc = "calling", !.kind = kind,
                                                  !.named = named, !.run = run]]
        /\ kind = "retrieve" => \E q \in Ids : run = {q} /\ provider[q].thread = {user[u].thread}
  BY DEF Assistants!Begin, Assistants!At, Assistants!Kinds
<1> DEFINE w == [user[u] EXCEPT !.pc = "calling", !.kind = kind, !.named = named, !.run = run]
<1>2. /\ user' = [user EXCEPT ![u] = w] /\ user[u].pc = "idle"
      /\ UNCHANGED <<runs, entries, provider, listed>>
  BY <1>1 DEF Assistants!Begin, Assistants!At, Assistants!Kinds
<1>3. /\ user \in [Users -> UserRecords(Len(entries))] /\ listed \in [Users -> ListRecords]
      /\ runs \in [Keys -> 0..Len(entries)] /\ entries \in Seq(EntryRecords)
      /\ provider \in [Ids -> RunRecords]
      /\ user[u] \in UserRecords(Len(entries)) /\ listed[u] \in ListRecords
      /\ OwnRun(user[u], provider) /\ ListedAt(user[u], listed[u])
      /\ TellsTruly(user[u], listed[u], provider, user)
  BY DEF AssistantsInv, AssistantsTyped
<1>4. /\ w \in UserRecords(Len(entries)) /\ w.thread = user[u].thread /\ w.thread \in Threads
      /\ KeyOf(w) \in Keys /\ w.entry = 0 /\ listed[u].status = "unset"
  <2>1. w \in UserRecords(Len(entries)) /\ w.thread = user[u].thread /\ w.thread \in Threads
    BY <1>2, <1>3, <1>1 DEF UserRecords, Assistants!Kinds
  <2>2. w.entry = 0 /\ listed[u].status = "unset"
    BY <1>2, <1>3 DEF UserRecords, ListedAt, ListRecords
  <2> QED BY <2>1, <2>2, KeysHeld
<1>5. /\ user' \in [Users -> UserRecords(Len(entries))] /\ user'[u] = w
      /\ \A v \in Users \ {u} : user'[v] = user[v]
  BY <1>2, <1>3, <1>4
<1>6. AssistantsGrow
  BY <1>2, <1>3, <1>4, <1>5 DEF AssistantsGrow
<1>7. EntriesApart' /\ LookedUp'
  <2>1. \A v \in Users : \/ user'[v].entry = user[v].entry
                          \/ user'[v].entry = runs[KeyOf(user[v])]
    BY <1>3, <1>5 DEF UserRecords
  <2> QED BY <1>2, <1>6, <2>1, EntriesStill
<1>8. AssistantsTyped'
  BY <1>2, <1>3, <1>5, <1>6 DEF AssistantsTyped
<1>9. /\ listed'[u] = listed[u]
      /\ \A v \in Users \ {u} : listed'[v] = listed[v]
  BY <1>2, <1>3
<1>10. OwnRun(w, provider')
  BY <1>2, <1>3, <1>4, <1>6, <1>1, GrowKeeps DEF OwnRun, AssistantsGrow, FinishedOf, UserRecords
<1>11. ListedAt(w, listed[u])
  BY <1>2, <1>3, <1>4 DEF ListedAt, UserRecords, ListRecords
<1>12. TellsTruly(w, listed[u], provider', user')
  BY <1>2, <1>3, <1>4, <1>6, GrowKeeps DEF TellsTruly, ListRecords
<1> HIDE DEF w
<1> QED
  <2>1. AssistantsTyped' /\ EntriesApart' /\ LookedUp'
    BY <1>7, <1>8
  <2>2. \A v \in Users \ {u} : user'[v] = user[v] /\ listed'[v] = listed[v]
    BY <1>5, <1>9
  <2>3. /\ OwnRun(user'[u], provider') /\ ListedAt(user'[u], listed'[u])
        /\ TellsTruly(user'[u], listed'[u], provider', user')
    BY <1>5, <1>9, <1>10, <1>11, <1>12
  <2> QED BY <1>6, <2>1, <2>2, <2>3, OthersStill

LEMMA CreatedKeeps ==
  ASSUME AssistantsInv, NEW u \in Users, Assistants!Created(u)
  PROVE  AssistantsInv'
<1>1. PICK q \in Ids :
        /\ user' = [user EXCEPT ![u] = [user[u] EXCEPT !.pc = "answered", !.run = {q}]]
        /\ provider[q].thread = {}
        /\ provider' = [provider EXCEPT ![q].thread = {user[u].thread}]
  BY DEF Assistants!Created, Assistants!At
<1> DEFINE w == [user[u] EXCEPT !.pc = "answered", !.run = {q}]
<1>2. /\ user' = [user EXCEPT ![u] = w] /\ user[u].pc = "calling" /\ user[u].kind = "create"
      /\ UNCHANGED <<runs, entries, listed>>
  BY <1>1 DEF Assistants!Created, Assistants!At
<1>3. /\ user \in [Users -> UserRecords(Len(entries))] /\ listed \in [Users -> ListRecords]
      /\ runs \in [Keys -> 0..Len(entries)] /\ entries \in Seq(EntryRecords)
      /\ provider \in [Ids -> RunRecords]
      /\ user[u] \in UserRecords(Len(entries)) /\ listed[u] \in ListRecords
      /\ OwnRun(user[u], provider) /\ ListedAt(user[u], listed[u])
      /\ TellsTruly(user[u], listed[u], provider, user)
  BY DEF AssistantsInv, AssistantsTyped
<1>4. /\ w \in UserRecords(Len(entries)) /\ w.thread = user[u].thread /\ w.thread \in Threads
      /\ KeyOf(w) = KeyOf(user[u]) /\ KeyOf(w) \in Keys /\ <<w.thread>> \in Keys
  BY <1>2, <1>3, <1>1 DEF UserRecords, KeyOf, Keys
<1>5. /\ user' \in [Users -> UserRecords(Len(entries))] /\ user'[u] = w
      /\ \A v \in Users \ {u} : user'[v] = user[v]
  BY <1>2, <1>3, <1>4
<1>6. AssistantsGrow /\ provider' \in [Ids -> RunRecords]
  BY <1>1, <1>2, <1>3, <1>4, <1>5 DEF AssistantsGrow, RunRecords
<1>7. EntriesApart' /\ LookedUp'
  <2>1. \A v \in Users : \/ user'[v].entry = user[v].entry
                          \/ user'[v].entry = runs[KeyOf(user[v])]
    BY <1>3, <1>5 DEF UserRecords
  <2> QED BY <1>2, <1>6, <2>1, EntriesStill
<1>8. AssistantsTyped'
  BY <1>2, <1>3, <1>5, <1>6 DEF AssistantsTyped
<1>9. /\ listed'[u] = listed[u]
      /\ \A v \in Users \ {u} : listed'[v] = listed[v]
  BY <1>2, <1>3
<1>10. OwnRun(w, provider')
  BY <1>2, <1>3, <1>4, <1>6, <1>1, GrowKeeps DEF OwnRun, AssistantsGrow, FinishedOf, UserRecords
<1>11. ListedAt(w, listed[u])
  BY <1>2, <1>3, <1>4 DEF ListedAt, UserRecords, ListRecords
<1>12. TellsTruly(w, listed[u], provider', user')
  BY <1>2, <1>3, <1>4, <1>6, GrowKeeps DEF TellsTruly, ListRecords
<1> HIDE DEF w
<1> QED
  <2>1. AssistantsTyped' /\ EntriesApart' /\ LookedUp'
    BY <1>7, <1>8
  <2>2. \A v \in Users \ {u} : user'[v] = user[v] /\ listed'[v] = listed[v]
    BY <1>5, <1>9
  <2>3. /\ OwnRun(user'[u], provider') /\ ListedAt(user'[u], listed'[u])
        /\ TellsTruly(user'[u], listed'[u], provider', user')
    BY <1>5, <1>9, <1>10, <1>11, <1>12
  <2> QED BY <1>6, <2>1, <2>2, <2>3, OthersStill

LEMMA CreateReturnsKeeps ==
  ASSUME AssistantsInv, NEW u \in Users, Assistants!CreateReturns(u)
  PROVE  AssistantsInv'
<1> DEFINE w == [user[u] EXCEPT !.pc = "returned"]
<1>1. /\ user' = [user EXCEPT ![u] = w] /\ user[u].pc = "answered" /\ user[u].kind = "create"
      /\ UNCHANGED <<provider, listed>>
  BY DEF Assistants!CreateReturns, Assistants!At, Assistants!Goto, Assistants!Remember,
     AssistantsInv, AssistantsTyped
<1>2. /\ user \in [Users -> UserRecords(Len(entries))] /\ listed \in [Users -> ListRecords]
      /\ runs \in [Keys -> 0..Len(entries)] /\ entries \in Seq(EntryRecords)
      /\ provider \in [Ids -> RunRecords]
      /\ user[u] \in UserRecords(Len(entries)) /\ listed[u] \in ListRecords
      /\ OwnRun(user[u], provider) /\ ListedAt(user[u], listed[u])
      /\ TellsTruly(user[u], listed[u], provider, user)
  BY DEF AssistantsInv, AssistantsTyped
<1>3. /\ w \in UserRecords(Len(entries)) /\ w.thread = user[u].thread /\ w.thread \in Threads
      /\ KeyOf(w) = KeyOf(user[u]) /\ KeyOf(w) \in Keys /\ <<w.thread>> \in Keys
  BY <1>1, <1>2 DEF UserRecords, KeyOf, Keys
<1>4. /\ user' \in [Users -> UserRecords(Len(entries))] /\ user'[u] = w
      /\ \A v \in Users \ {u} : user'[v] = user[v]
  BY <1>1, <1>2, <1>3
<1>5. AssistantsGrow
  BY <1>1, <1>2, <1>3, <1>4 DEF AssistantsGrow
<1> DEFINE e == [run |-> user[u].run, exception |-> FALSE, ended |-> FALSE, usage |-> {}]
<1>6. /\ entries' = Append(entries, e)
      /\ runs' = [runs EXCEPT ![KeyOf(user[u])] = Len(entries) + 1]
  BY DEF Assistants!CreateReturns, Assistants!Remember, Assistants!Key, KeyOf
<1>7. e \in EntryRecords
  BY <1>2 DEF EntryRecords, UserRecords
<1>8. Fits(e, provider', user', KeyOf(user[u]))
  BY <1>1, <1>3, <1>4 DEF Fits, FailedIn
<1> HIDE DEF e
<1>9. EntriesApart' /\ LookedUp'
  <2>1. \A v \in Users : user'[v].entry = user[v].entry
    BY <1>2, <1>4 DEF UserRecords
  <2> QED BY <1>3, <1>5, <1>6, <1>8, <2>1, EntryReplaced
<1>10. AssistantsTyped'
  <2>1. entries' \in Seq(EntryRecords) /\ Len(entries') = Len(entries) + 1 /\ Len(entries) \in Nat
    BY <1>2, <1>6, <1>7
  <2>2. \A n \in 0..Len(entries) : n \in 0..Len(entries')
    BY <2>1
  <2>3. runs' \in [Keys -> 0..Len(entries')]
    BY <1>2, <1>3, <1>6, <2>1, <2>2
  <2>4. user' \in [Users -> UserRecords(Len(entries'))]
    BY <1>4, <2>2 DEF UserRecords
  <2> QED BY <1>1, <1>2, <2>1, <2>3, <2>4 DEF AssistantsTyped
<1>11. /\ listed'[u] = listed[u]
      /\ \A v \in Users \ {u} : listed'[v] = listed[v]
  BY <1>1, <1>2
<1>12. OwnRun(w, provider')
  BY <1>1, <1>2, <1>3, <1>5, GrowKeeps DEF OwnRun, AssistantsGrow, FinishedOf, UserRecords
<1>13. ListedAt(w, listed[u])
  BY <1>1, <1>2, <1>3 DEF ListedAt, UserRecords, ListRecords
<1>14. TellsTruly(w, listed[u], provider', user')
  BY <1>1, <1>2, <1>3, <1>5, GrowKeeps DEF TellsTruly, ListRecords
<1> HIDE DEF w
<1> QED
  <2>1. AssistantsTyped' /\ EntriesApart' /\ LookedUp'
    BY <1>9, <1>10
  <2>2. \A v \in Users \ {u} : user'[v] = user[v] /\ listed'[v] = listed[v]
    BY <1>4, <1>11
  <2>3. /\ OwnRun(user'[u], provider') /\ ListedAt(user'[u], listed'[u])
        /\ TellsTruly(user'[u], listed'[u], provider', user')
    BY <1>4, <1>11, <1>12, <1>13, <1>14
  <2> QED BY <1>5, <2>1, <2>2, <2>3, OthersStill

LEMMA CreateFailsKeeps ==
  ASSUME AssistantsInv, NEW u \in Users, Assistants!CreateFails(u)
  PROVE  AssistantsInv'
<1> DEFINE w == [user[u] EXCEPT !.pc = "raised"]
<1>1. /\ user' = [user EXCEPT ![u] = w] /\ user[u].pc \in {"calling", "answered"} /\ user[u].kind = "create"
      /\ UNCHANGED <<provider, listed>>
  BY DEF Assistants!CreateFails, Assistants!At, Assistants!Goto, Assistants!Remember,
     AssistantsInv, AssistantsTyped
<1>2. /\ user \in [Users -> UserRecords(Len(entries))] /\ listed \in [Users -> ListRecords]
      /\ runs \in [Keys -> 0..Len(entries)] /\ entries \in Seq(EntryRecords)
      /\ provider \in [Ids -> RunRecords]
      /\ user[u] \in UserRecords(Len(entries)) /\ listed[u] \in ListRecords
      /\ OwnRun(user[u], provider) /\ ListedAt(user[u], listed[u])
      /\ TellsTruly(user[u], listed[u], provider, user)
  BY DEF AssistantsInv, AssistantsTyped
<1>3. /\ w \in UserRecords(Len(entries)) /\ w.thread = user[u].thread /\ w.thread \in Threads
      /\ KeyOf(w) = KeyOf(user[u]) /\ KeyOf(w) \in Keys /\ <<w.thread>> \in Keys
  BY <1>1, <1>2 DEF UserRecords, KeyOf, Keys
<1>4. /\ user' \in [Users -> UserRecords(Len(entries))] /\ user'[u] = w
      /\ \A v \in Users \ {u} : user'[v] = user[v]
  BY <1>1, <1>2, <1>3
<1>5. AssistantsGrow
  BY <1>1, <1>2, <1>3, <1>4 DEF AssistantsGrow
<1> DEFINE e == [run |-> {}, exception |-> TRUE, ended |-> TRUE, usage |-> {}]
<1>6. /\ entries' = Append(entries, e)
      /\ runs' = [runs EXCEPT ![KeyOf(user[u])] = Len(entries) + 1]
  BY DEF Assistants!CreateFails, Assistants!Remember, Assistants!Key, KeyOf
<1>7. e \in EntryRecords
  BY <1>2 DEF EntryRecords, UserRecords
<1>8. Fits(e, provider', user', KeyOf(user[u]))
  BY <1>1, <1>3, <1>4 DEF Fits, FailedIn
<1> HIDE DEF e
<1>9. EntriesApart' /\ LookedUp'
  <2>1. \A v \in Users : user'[v].entry = user[v].entry
    BY <1>2, <1>4 DEF UserRecords
  <2> QED BY <1>3, <1>5, <1>6, <1>8, <2>1, EntryReplaced
<1>10. AssistantsTyped'
  <2>1. entries' \in Seq(EntryRecords) /\ Len(entries') = Len(entries) + 1 /\ Len(entries) \in Nat
    BY <1>2, <1>6, <1>7
  <2>2. \A n \in 0..Len(entries) : n \in 0..Len(entries')
    BY <2>1
  <2>3. runs' \in [Keys -> 0..Len(entries')]
    BY <1>2, <1>3, <1>6, <2>1, <2>2
  <2>4. user' \in [Users -> UserRecords(Len(entries'))]
    BY <1>4, <2>2 DEF UserRecords
  <2> QED BY <1>1, <1>2, <2>1, <2>3, <2>4 DEF AssistantsTyped
<1>11. /\ listed'[u] = listed[u]
      /\ \A v \in Users \ {u} : listed'[v] = listed[v]
  BY <1>1, <1>2
<1>12. OwnRun(w, provider')
  BY <1>1, <1>2, <1>3, <1>5, GrowKeeps DEF OwnRun, AssistantsGrow, FinishedOf, UserRecords
<1>13. ListedAt(w, listed[u])
  BY <1>1, <1>2, <1>3 DEF ListedAt, UserRecords, ListRecords
<1>14. TellsTruly(w, listed[u], provider', user')
  BY <1>1, <1>2, <1>3, <1>5, GrowKeeps DEF TellsTruly, ListRecords
<1> HIDE DEF w
<1> QED
  <2>1. AssistantsTyped' /\ EntriesApart' /\ LookedUp'
    BY <1>9, <1>10
  <2>2. \A v \in Users \ {u} : user'[v] = user[v] /\ listed'[v] = listed[v]
    BY <1>4, <1>11
  <2>3. /\ OwnRun(user'[u], provider') /\ ListedAt(user'[u], listed'[u])
        /\ TellsTruly(user'[u], listed'[u], provider', user')
    BY <1>4, <1>11, <1>12, <1>13, <1>14
  <2> QED BY <1>5, <2>1, <2>2, <2>3, OthersStill

LEMMA RetrievedKeeps ==
  ASSUME AssistantsInv, NEW u \in Users, Assistants!Retrieved(u)
  PROVE  AssistantsInv'
<1> DEFINE w == [user[u] EXCEPT !.pc = IF \E q \in user[u].run : provider[q].finished
                                                       THEN "finished" ELSE "unfinished"]
<1>1. /\ user' = [user EXCEPT ![u] = w] /\ user[u].pc = "calling" /\ user[u].kind = "retrieve"
      /\ UNCHANGED <<runs, entries, provider, listed>>
  BY DEF Assistants!Retrieved, Assistants!At, Assistants!Goto, AssistantsInv, AssistantsTyped
<1>2. /\ user \in [Users -> UserRecords(Len(entries))] /\ listed \in [Users -> ListRecords]
      /\ runs \in [Keys -> 0..Len(entries)] /\ entries \in Seq(EntryRecords)
      /\ provider \in [Ids -> RunRecords]
      /\ user[u] \in UserRecords(Len(entries)) /\ listed[u] \in ListRecords
      /\ OwnRun(user[u], provider) /\ ListedAt(user[u], listed[u])
      /\ TellsTruly(user[u], listed[u], provider, user)
  BY DEF AssistantsInv, AssistantsTyped
<1>3. /\ w \in UserRecords(Len(entries)) /\ w.thread = user[u].thread /\ w.thread \in Threads
      /\ KeyOf(w) = KeyOf(user[u]) /\ KeyOf(w) \in Keys /\ <<w.thread>> \in Keys
  BY <1>1, <1>2 DEF UserRecords, KeyOf, Keys
<1>4. /\ user' \in [Users -> UserRecords(Len(entries))] /\ user'[u] = w
      /\ \A v \in Users \ {u} : user'[v] = user[v]
  BY <1>1, <1>2, <1>3
<1>5. AssistantsGrow
  BY <1>1, <1>2, <1>3, <1>4 DEF AssistantsGrow
<1>6. EntriesApart' /\ LookedUp'
  <2>1. \A v \in Users : \/ user'[v].entry = user[v].entry
                          \/ user'[v].entry = runs[KeyOf(user[v])]
    BY <1>2, <1>4 DEF UserRecords
  <2> QED BY <1>1, <1>5, <2>1, EntriesStill
<1>7. AssistantsTyped'
  BY <1>1, <1>2, <1>4, <1>5 DEF AssistantsTyped
<1>8. /\ listed'[u] = listed[u]
      /\ \A v \in Users \ {u} : listed'[v] = listed[v]
  BY <1>1, <1>2
<1>9. OwnRun(w, provider')
  BY <1>1, <1>2, <1>3, <1>5, GrowKeeps DEF OwnRun, AssistantsGrow, FinishedOf, UserRecords
<1>10. ListedAt(w, listed[u])
  BY <1>1, <1>2, <1>3 DEF ListedAt, UserRecords, ListRecords
<1>11. TellsTruly(w, listed[u], provider', user')
  BY <1>1, <1>2, <1>3, <1>5, GrowKeeps DEF TellsTruly, ListRecords
<1> HIDE DEF w
<1> QED
  <2>1. AssistantsTyped' /\ EntriesApart' /\ LookedUp'
    BY <1>6, <1>7
  <2>2. \A v \in Users \ {u} : user'[v] = user[v] /\ listed'[v] = listed[v]
    BY <1>4, <1>8
  <2>3. /\ OwnRun(user'[u], provider') /\ ListedAt(user'[u], listed'[u])
        /\ TellsTruly(user'[u], listed'[u], provider', user')
    BY <1>4, <1>8, <1>9, <1>10, <1>11
  <2> QED BY <1>5, <2>1, <2>2, <2>3, OthersStill

LEMMA RetrieveReturnsKeeps ==
  ASSUME AssistantsInv, NEW u \in Users, Assistants!RetrieveReturns(u)
  PROVE  AssistantsInv'
<1> DEFINE w == [user[u] EXCEPT !.pc = "returned"]
<1>1. /\ user' = [user EXCEPT ![u] = w] /\ user[u].pc \in {"finished", "unfinished"}
      /\ UNCHANGED <<runs, provider, listed>>
  BY DEF Assistants!RetrieveReturns, Assistants!At, Assistants!Goto, Assistants!Update,
     AssistantsInv, AssistantsTyped
<1>2. /\ user \in [Users -> UserRecords(Len(entries))] /\ listed \in [Users -> ListRecords]
      /\ runs \in [Keys -> 0..Len(entries)] /\ entries \in Seq(EntryRecords)
      /\ provider \in [Ids -> RunRecords]
      /\ user[u] \in UserRecords(Len(entries)) /\ listed[u] \in ListRecords
      /\ OwnRun(user[u], provider) /\ ListedAt(user[u], listed[u])
      /\ TellsTruly(user[u], listed[u], provider, user)
  BY DEF AssistantsInv, AssistantsTyped
<1>3. /\ w \in UserRecords(Len(entries)) /\ w.thread = user[u].thread /\ w.thread \in Threads
      /\ KeyOf(w) = KeyOf(user[u]) /\ KeyOf(w) \in Keys /\ <<w.thread>> \in Keys
  BY <1>1, <1>2 DEF UserRecords, KeyOf, Keys
<1>4. /\ user' \in [Users -> UserRecords(Len(entries))] /\ user'[u] = w
      /\ \A v \in Users \ {u} : user'[v] = user[v]
  BY <1>1, <1>2, <1>3
<1>5. AssistantsGrow
  BY <1>1, <1>2, <1>3, <1>4 DEF AssistantsGrow
<1> DEFINE k == <<user[u].thread>>
<1>K. k \in Keys
  BY <1>3
<1> DEFINE known == (IF user[u].pc = "finished" THEN user[u].run ELSE {})
           e == Assistants!Fetched(entries[runs[k]], known, FALSE)
<1>6. IF runs[k] = 0 THEN entries' = entries
      ELSE entries' = [entries EXCEPT ![runs[k]] = e]
  BY DEF Assistants!RetrieveReturns, Assistants!Update, Assistants!At, Assistants!Key, KeyOf
<1>7. runs[k] # 0 => e \in EntryRecords /\ runs[k] \in 1..Len(entries)
  <2>1. runs[k] # 0 =>
          runs[k] \in 1..Len(entries) /\ entries[runs[k]] \in EntryRecords
    BY <1>2, <1>K
  <2> QED BY <1>2, <2>1 DEF EntryRecords, UserRecords, Assistants!Fetched
<1>8. runs[k] # 0 => Fits(e, provider', user', k)
  <2>1. runs[k] # 0 =>
          /\ Fits(entries[runs[k]], provider', user', k)
          /\ entries[runs[k]] \in EntryRecords
    BY <1>2, <1>K, <1>5, FitsStill DEF AssistantsInv, EntriesApart
  <2>2. known \subseteq FinishedOf(provider', user[u].thread)
    BY <1>1, <1>2, <1>3, <1>5, GrowKeeps DEF OwnRun
  <2>3. user[u].kind # "list" /\ w.pc = "raised" => FailedIn(user', k)
    BY <1>3, <1>4, <1>2 DEF FailedIn, UserRecords
  <2> QED BY <1>1, <1>2, <2>1, <2>2, <2>3 DEF Fits, EntryRecords, UserRecords,
     Assistants!Fetched
<1> HIDE DEF e, k
<1>9. EntriesApart' /\ LookedUp'
  <2>1. \A v \in Users : user'[v].entry = user[v].entry
    BY <1>2, <1>4 DEF UserRecords
  <2>2. CASE runs[k] = 0
    BY <1>1, <1>5, <1>6, <2>1, <2>2, EntriesStill
  <2>3. CASE runs[k] # 0
    BY <1>1, <1>K, <1>5, <1>6, <1>8, <2>1, <2>3, EntryChanged
  <2> QED BY <2>2, <2>3
<1>10. AssistantsTyped'
  <2>1. entries' \in Seq(EntryRecords) /\ Len(entries') = Len(entries)
    BY <1>2, <1>6, <1>7
  <2> QED BY <1>1, <1>2, <1>4, <2>1 DEF AssistantsTyped
<1>11. /\ listed'[u] = listed[u]
      /\ \A v \in Users \ {u} : listed'[v] = listed[v]
  BY <1>1, <1>2
<1>12. OwnRun(w, provider')
  BY <1>1, <1>2, <1>3, <1>5, GrowKeeps DEF OwnRun, AssistantsGrow, FinishedOf, UserRecords
<1>13. ListedAt(w, listed[u])
  BY <1>1, <1>2, <1>3 DEF ListedAt, UserRecords, ListRecords
<1>14. TellsTruly(w, listed[u], provider', user')
  BY <1>1, <1>2, <1>3, <1>5, GrowKeeps DEF TellsTruly, ListRecords
<1> HIDE DEF w
<1> QED
  <2>1. AssistantsTyped' /\ EntriesApart' /\ LookedUp'
    BY <1>9, <1>10
  <2>2. \A v \in Users \ {u} : user'[v] = user[v] /\ listed'[v] = listed[v]
    BY <1>4, <1>11
  <2>3. /\ OwnRun(user'[u], provider') /\ ListedAt(user'[u], listed'[u])
        /\ TellsTruly(user'[u], listed'[u], provider', user')
    BY <1>4, <1>11, <1>12, <1>13, <1>14
  <2> QED BY <1>5, <2>1, <2>2, <2>3, OthersStill

LEMMA RetrieveFailsKeeps ==
  ASSUME AssistantsInv, NEW u \in Users, Assistants!RetrieveFails(u)
  PROVE  AssistantsInv'
<1> DEFINE w == [user[u] EXCEPT !.pc = "raised"]
<1>1. /\ user' = [user EXCEPT ![u] = w] /\ user[u].pc = "calling" /\ user[u].kind = "retrieve"
      /\ UNCHANGED <<runs, provider, listed>>
  BY DEF Assistants!RetrieveFails, Assistants!At, Assistants!Goto, Assistants!Update,
     AssistantsInv, AssistantsTyped
<1>2. /\ user \in [Users -> UserRecords(Len(entries))] /\ listed \in [Users -> ListRecords]
      /\ runs \in [Keys -> 0..Len(entries)] /\ entries \in Seq(EntryRecords)
      /\ provider \in [Ids -> RunRecords]
      /\ user[u] \in UserRecords(Len(entries)) /\ listed[u] \in ListRecords
      /\ OwnRun(user[u], provider) /\ ListedAt(user[u], listed[u])
      /\ TellsTruly(user[u], listed[u], provider, user)
  BY DEF AssistantsInv, AssistantsTyped
<1>3. /\ w \in UserRecords(Len(entries)) /\ w.thread = user[u].thread /\ w.thread \in Threads
      /\ KeyOf(w) = KeyOf(user[u]) /\ KeyOf(w) \in Keys /\ <<w.thread>> \in Keys
  BY <1>1, <1>2 DEF UserRecords, KeyOf, Keys
<1>4. /\ user' \in [Users -> UserRecords(Len(entries))] /\ user'[u] = w
      /\ \A v \in Users \ {u} : user'[v] = user[v]
  BY <1>1, <1>2, <1>3
<1>5. AssistantsGrow
  BY <1>1, <1>2, <1>3, <1>4 DEF AssistantsGrow
<1> DEFINE k == KeyOf(user[u])
<1>K. k \in Keys
  BY <1>3
<1> DEFINE known == {}
           e == Assistants!Fetched(entries[runs[k]], known, TRUE)
<1>6. IF runs[k] = 0 THEN entries' = entries
      ELSE entries' = [entries EXCEPT ![runs[k]] = e]
  BY DEF Assistants!RetrieveFails, Assistants!Update, Assistants!At, Assistants!Key, KeyOf
<1>7. runs[k] # 0 => e \in EntryRecords /\ runs[k] \in 1..Len(entries)
  <2>1. runs[k] # 0 =>
          runs[k] \in 1..Len(entries) /\ entries[runs[k]] \in EntryRecords
    BY <1>2, <1>K
  <2> QED BY <1>2, <2>1 DEF EntryRecords, UserRecords, Assistants!Fetched
<1>8. runs[k] # 0 => Fits(e, provider', user', k)
  <2>1. runs[k] # 0 =>
          /\ Fits(entries[runs[k]], provider', user', k)
          /\ entries[runs[k]] \in EntryRecords
    BY <1>2, <1>K, <1>5, FitsStill DEF AssistantsInv, EntriesApart
  <2>2. known \subseteq FinishedOf(provider', user[u].thread)
    BY <1>1, <1>2, <1>3, <1>5, GrowKeeps DEF OwnRun
  <2>3. user[u].kind # "list" /\ w.pc = "raised" => FailedIn(user', k)
    BY <1>3, <1>4, <1>2 DEF FailedIn, UserRecords
  <2> QED BY <1>1, <1>2, <2>1, <2>2, <2>3 DEF Fits, EntryRecords, UserRecords,
     Assistants!Fetched
<1> HIDE DEF e, k
<1>9. EntriesApart' /\ LookedUp'
  <2>1. \A v \in Users : user'[v].entry = user[v].entry
    BY <1>2, <1>4 DEF UserRecords
  <2>2. CASE runs[k] = 0
    BY <1>1, <1>5, <1>6, <2>1, <2>2, EntriesStill
  <2>3. CASE runs[k] # 0
    BY <1>1, <1>K, <1>5, <1>6, <1>8, <2>1, <2>3, EntryChanged
  <2> QED BY <2>2, <2>3
<1>10. AssistantsTyped'
  <2>1. entries' \in Seq(EntryRecords) /\ Len(entries') = Len(entries)
    BY <1>2, <1>6, <1>7
  <2> QED BY <1>1, <1>2, <1>4, <2>1 DEF AssistantsTyped
<1>11. /\ listed'[u] = listed[u]
      /\ \A v \in Users \ {u} : listed'[v] = listed[v]
  BY <1>1, <1>2
<1>12. OwnRun(w, provider')
  BY <1>1, <1>2, <1>3, <1>5, GrowKeeps DEF OwnRun, AssistantsGrow, FinishedOf, UserRecords
<1>13. ListedAt(w, listed[u])
  BY <1>1, <1>2, <1>3 DEF ListedAt, UserRecords, ListRecords
<1>14. TellsTruly(w, listed[u], provider', user')
  BY <1>1, <1>2, <1>3, <1>5, GrowKeeps DEF TellsTruly, ListRecords
<1> HIDE DEF w
<1> QED
  <2>1. AssistantsTyped' /\ EntriesApart' /\ LookedUp'
    BY <1>9, <1>10
  <2>2. \A v \in Users \ {u} : user'[v] = user[v] /\ listed'[v] = listed[v]
    BY <1>4, <1>11
  <2>3. /\ OwnRun(user'[u], provider') /\ ListedAt(user'[u], listed'[u])
        /\ TellsTruly(user'[u], listed'[u], provider', user')
    BY <1>4, <1>11, <1>12, <1>13, <1>14
  <2> QED BY <1>5, <2>1, <2>2, <2>3, OthersStill

LEMMA ListFailsKeeps ==
  ASSUME AssistantsInv, NEW u \in Users, Assistants!ListFails(u)
  PROVE  AssistantsInv'
<1> DEFINE w == [user[u] EXCEPT !.pc = "raised"]
<1>1. /\ user' = [user EXCEPT ![u] = w] /\ user[u].pc = "calling" /\ user[u].kind = "list"
      /\ UNCHANGED <<runs, entries, provider, listed>>
  BY DEF Assistants!ListFails, Assistants!At, Assistants!Goto, AssistantsInv, AssistantsTyped
<1>2. /\ user \in [Users -> UserRecords(Len(entries))] /\ listed \in [Users -> ListRecords]
      /\ runs \in [Keys -> 0..Len(entries)] /\ entries \in Seq(EntryRecords)
      /\ provider \in [Ids -> RunRecords]
      /\ user[u] \in UserRecords(Len(entries)) /\ listed[u] \in ListRecords
      /\ OwnRun(user[u], provider) /\ ListedAt(user[u], listed[u])
      /\ TellsTruly(user[u], listed[u], provider, user)
  BY DEF AssistantsInv, AssistantsTyped
<1>3. /\ w \in UserRecords(Len(entries)) /\ w.thread = user[u].thread /\ w.thread \in Threads
      /\ KeyOf(w) = KeyOf(user[u]) /\ KeyOf(w) \in Keys /\ <<w.thread>> \in Keys
  BY <1>1, <1>2 DEF UserRecords, KeyOf, Keys
<1>4. /\ user' \in [Users -> UserRecords(Len(entries))] /\ user'[u] = w
      /\ \A v \in Users \ {u} : user'[v] = user[v]
  BY <1>1, <1>2, <1>3
<1>5. AssistantsGrow
  BY <1>1, <1>2, <1>3, <1>4 DEF AssistantsGrow
<1>6. EntriesApart' /\ LookedUp'
  <2>1. \A v \in Users : \/ user'[v].entry = user[v].entry
                          \/ user'[v].entry = runs[KeyOf(user[v])]
    BY <1>2, <1>4 DEF UserRecords
  <2> QED BY <1>1, <1>5, <2>1, EntriesStill
<1>7. AssistantsTyped'
  BY <1>1, <1>2, <1>4, <1>5 DEF AssistantsTyped
<1>8. /\ listed'[u] = listed[u]
      /\ \A v \in Users \ {u} : listed'[v] = listed[v]
  BY <1>1, <1>2
<1>9. OwnRun(w, provider')
  BY <1>1, <1>2, <1>3, <1>5, GrowKeeps DEF OwnRun, AssistantsGrow, FinishedOf, UserRecords
<1>10. ListedAt(w, listed[u])
  BY <1>1, <1>2, <1>3 DEF ListedAt, UserRecords, ListRecords
<1>11. TellsTruly(w, listed[u], provider', user')
  BY <1>1, <1>2, <1>3, <1>5, GrowKeeps DEF TellsTruly, ListRecords
<1> HIDE DEF w
<1> QED
  <2>1. AssistantsTyped' /\ EntriesApart' /\ LookedUp'
    BY <1>6, <1>7
  <2>2. \A v \in Users \ {u} : user'[v] = user[v] /\ listed'[v] = listed[v]
    BY <1>4, <1>8
  <2>3. /\ OwnRun(user'[u], provider') /\ ListedAt(user'[u], listed'[u])
        /\ TellsTruly(user'[u], listed'[u], provider', user')
    BY <1>4, <1>8, <1>9, <1>10, <1>11
  <2> QED BY <1>5, <2>1, <2>2, <2>3, OthersStill

LEMMA ListAnswersKeeps ==
  ASSUME AssistantsInv, NEW u \in Users, Assistants!ListAnswers(u)
  PROVE  AssistantsInv'
<1> DEFINE w == [user[u] EXCEPT !.entry = runs[KeyOf(user[u])],
                                !.pc = IF runs[KeyOf(user[u])] = 0 THEN "returned" ELSE "listing"]
           l == [listed[u] EXCEPT !.on = runs[KeyOf(user[u])] # 0]
<1>1. /\ user' = [user EXCEPT ![u] = w] /\ user[u].pc = "calling" /\ user[u].kind = "list"
      /\ listed' = [listed EXCEPT ![u] = l]
      /\ UNCHANGED <<runs, entries, provider>>
  BY DEF Assistants!ListAnswers, Assistants!At, Assistants!Key, KeyOf, AssistantsInv, AssistantsTyped
<1>2. /\ user \in [Users -> UserRecords(Len(entries))] /\ listed \in [Users -> ListRecords]
      /\ runs \in [Keys -> 0..Len(entries)] /\ entries \in Seq(EntryRecords)
      /\ provider \in [Ids -> RunRecords]
      /\ user[u] \in UserRecords(Len(entries)) /\ listed[u] \in ListRecords
      /\ OwnRun(user[u], provider) /\ ListedAt(user[u], listed[u])
      /\ TellsTruly(user[u], listed[u], provider, user)
  BY DEF AssistantsInv, AssistantsTyped
<1>3. /\ w \in UserRecords(Len(entries)) /\ w.thread = user[u].thread /\ w.thread \in Threads
      /\ KeyOf(w) = KeyOf(user[u]) /\ KeyOf(w) \in Keys /\ <<w.thread>> \in Keys
  BY <1>1, <1>2 DEF UserRecords, KeyOf, Keys
<1>4. /\ user' \in [Users -> UserRecords(Len(entries))] /\ user'[u] = w
      /\ \A v \in Users \ {u} : user'[v] = user[v]
  BY <1>1, <1>2, <1>3
<1>5. AssistantsGrow
  BY <1>1, <1>2, <1>3, <1>4 DEF AssistantsGrow
<1>6. EntriesApart' /\ LookedUp'
  <2>1. \A v \in Users : \/ user'[v].entry = user[v].entry
                          \/ user'[v].entry = runs[KeyOf(user[v])]
    BY <1>2, <1>4 DEF UserRecords
  <2> QED BY <1>1, <1>5, <2>1, EntriesStill
<1>7. l \in ListRecords
  BY <1>2 DEF ListRecords
<1>8. AssistantsTyped'
  BY <1>1, <1>2, <1>4, <1>5, <1>7 DEF AssistantsTyped
<1>9. /\ listed'[u] = l
      /\ \A v \in Users \ {u} : listed'[v] = listed[v]
  BY <1>1, <1>2
<1>10. OwnRun(w, provider')
  BY <1>1, <1>2, <1>3, <1>5, GrowKeeps DEF OwnRun, AssistantsGrow, FinishedOf, UserRecords
<1>11. ListedAt(w, l)
  BY <1>1, <1>2, <1>3 DEF ListedAt, UserRecords, ListRecords
<1>12. TellsTruly(w, l, provider', user')
  BY <1>1, <1>2, <1>3, <1>5, GrowKeeps DEF TellsTruly, ListRecords
<1> HIDE DEF w, l
<1> QED
  <2>1. AssistantsTyped' /\ EntriesApart' /\ LookedUp'
    BY <1>6, <1>8
  <2>2. \A v \in Users \ {u} : user'[v] = user[v] /\ listed'[v] = listed[v]
    BY <1>4, <1>9
  <2>3. /\ OwnRun(user'[u], provider') /\ ListedAt(user'[u], listed'[u])
        /\ TellsTruly(user'[u], listed'[u], provider', user')
    BY <1>4, <1>9, <1>10, <1>11, <1>12
  <2> QED BY <1>5, <2>1, <2>2, <2>3, OthersStill

LEMMA ListWritesKeeps ==
  ASSUME AssistantsInv, NEW u \in Users, Assistants!ListWrites(u)
  PROVE  AssistantsInv'
<1> DEFINE w == [user[u] EXCEPT !.pc = IF entries[user[u].entry].exception THEN "returned" ELSE "ending"]
           l == IF entries[user[u].entry].exception
                THEN Assistants!Failed(listed[u])
                ELSE [listed[u] EXCEPT !.usage = entries[user[u].entry].usage]
<1>1. listed[u] \in ListRecords /\ listed[u].ends + 1 = 1
  BY DEF Assistants!ListWrites, Assistants!At, AssistantsInv, AssistantsTyped, ListedAt,
     ListRecords
<1>2. /\ Fits(entries[user[u].entry], provider, user, KeyOf(user[u]))
      /\ entries[user[u].entry] \in EntryRecords
  <2>1. user[u].entry \in 1..Len(entries)
    BY DEF AssistantsInv, AssistantsTyped, UserRecords, ListedAt, Assistants!ListWrites,
       Assistants!At
  <2> QED BY <2>1 DEF AssistantsInv, AssistantsTyped, LookedUp
<1>3. user' = [user EXCEPT ![u] = w] /\ listed' = [listed EXCEPT ![u] = l]
  <2>1. CASE entries[user[u].entry].exception
    BY <2>1 DEF Assistants!ListWrites, Assistants!Goto
  <2>2. CASE ~entries[user[u].entry].exception
    BY <2>2 DEF Assistants!ListWrites, Assistants!Goto
  <2> QED BY <2>1, <2>2
<1>4. /\ user' = [user EXCEPT ![u] = w] /\ user[u].pc = "listing"
      /\ listed' = [listed EXCEPT ![u] = l]
      /\ UNCHANGED <<runs, entries, provider>>
  BY <1>3 DEF Assistants!ListWrites, Assistants!At, Assistants!Goto, AssistantsInv,
     AssistantsTyped
<1>5. /\ user \in [Users -> UserRecords(Len(entries))] /\ listed \in [Users -> ListRecords]
      /\ runs \in [Keys -> 0..Len(entries)] /\ entries \in Seq(EntryRecords)
      /\ provider \in [Ids -> RunRecords]
      /\ user[u] \in UserRecords(Len(entries)) /\ listed[u] \in ListRecords
      /\ OwnRun(user[u], provider) /\ ListedAt(user[u], listed[u])
      /\ TellsTruly(user[u], listed[u], provider, user)
  BY DEF AssistantsInv, AssistantsTyped
<1>6. /\ w \in UserRecords(Len(entries)) /\ w.thread = user[u].thread /\ w.thread \in Threads
      /\ KeyOf(w) = KeyOf(user[u]) /\ KeyOf(w) \in Keys /\ <<w.thread>> \in Keys
  BY <1>4, <1>5 DEF UserRecords, KeyOf, Keys
<1>7. /\ user' \in [Users -> UserRecords(Len(entries))] /\ user'[u] = w
      /\ \A v \in Users \ {u} : user'[v] = user[v]
  BY <1>4, <1>5, <1>6
<1>8. AssistantsGrow
  BY <1>4, <1>5, <1>6, <1>7 DEF AssistantsGrow
<1>9. EntriesApart' /\ LookedUp'
  <2>1. \A v \in Users : \/ user'[v].entry = user[v].entry
                          \/ user'[v].entry = runs[KeyOf(user[v])]
    BY <1>5, <1>7 DEF UserRecords
  <2> QED BY <1>4, <1>8, <2>1, EntriesStill
<1>10. l \in ListRecords
  BY <1>4, <1>5, <1>1, <1>2 DEF ListRecords, Assistants!Failed, EntryRecords
<1>11. AssistantsTyped'
  BY <1>4, <1>5, <1>7, <1>8, <1>10 DEF AssistantsTyped
<1>12. /\ listed'[u] = l
      /\ \A v \in Users \ {u} : listed'[v] = listed[v]
  BY <1>4, <1>5
<1>13. OwnRun(w, provider')
  BY <1>4, <1>5, <1>6, <1>8, GrowKeeps DEF OwnRun, AssistantsGrow, FinishedOf, UserRecords
<1>14. ListedAt(w, l)
  BY <1>4, <1>5, <1>6, <1>1, <1>2 DEF ListedAt, UserRecords, ListRecords, Assistants!Failed
<1>15. TellsTruly(w, l, provider', user')
  <2> DEFINE read == entries[user[u].entry]
  <2>1. Fits(read, provider', user', KeyOf(w))
    BY <1>2, <1>6, <1>8, FitsStill
  <2>2. read.usage \subseteq FinishedOf(provider', w.thread)
    BY <1>6, <2>1, KeysHeld DEF Fits
  <2>3. listed[u].status = "error" => FailedIn(user', KeyOf(w))
    BY <1>5, <1>6, <1>8, GrowKeeps DEF TellsTruly
  <2>4. listed[u].usage \subseteq FinishedOf(provider', w.thread)
    BY <1>5, <1>6, <1>8, GrowKeeps DEF TellsTruly
  <2>5. CASE read.exception
    <3>1. l.usage = listed[u].usage /\ FailedIn(user', KeyOf(w))
      BY <2>1, <2>5 DEF Fits, Assistants!Failed
    <3> HIDE DEF w, l
    <3> QED BY <2>4, <3>1 DEF TellsTruly
  <2>6. CASE ~read.exception
    <3>1. l.usage = read.usage /\ l.status = listed[u].status
      BY <1>5, <2>6 DEF ListRecords
    <3> HIDE DEF w, l
    <3> QED BY <2>2, <2>3, <3>1 DEF TellsTruly
  <2> QED BY <2>5, <2>6
<1> HIDE DEF w, l
<1> QED
  <2>1. AssistantsTyped' /\ EntriesApart' /\ LookedUp'
    BY <1>9, <1>11
  <2>2. \A v \in Users \ {u} : user'[v] = user[v] /\ listed'[v] = listed[v]
    BY <1>7, <1>12
  <2>3. /\ OwnRun(user'[u], provider') /\ ListedAt(user'[u], listed'[u])
        /\ TellsTruly(user'[u], listed'[u], provider', user')
    BY <1>7, <1>12, <1>13, <1>14, <1>15
  <2> QED BY <1>8, <2>1, <2>2, <2>3, OthersStill

LEMMA ListBreaksKeeps ==
  ASSUME AssistantsInv, NEW u \in Users, Assistants!ListBreaks(u)
  PROVE  AssistantsInv'
<1> DEFINE w == [user[u] EXCEPT !.pc = "broken"]
<1>1. /\ user' = [user EXCEPT ![u] = w] /\ user[u].pc = "listing"
      /\ UNCHANGED <<runs, entries, provider, listed>>
  BY DEF Assistants!ListBreaks, Assistants!At, Assistants!Goto, AssistantsInv, AssistantsTyped
<1>2. /\ user \in [Users -> UserRecords(Len(entries))] /\ listed \in [Users -> ListRecords]
      /\ runs \in [Keys -> 0..Len(entries)] /\ entries \in Seq(EntryRecords)
      /\ provider \in [Ids -> RunRecords]
      /\ user[u] \in UserRecords(Len(entries)) /\ listed[u] \in ListRecords
      /\ OwnRun(user[u], provider) /\ ListedAt(user[u], listed[u])
      /\ TellsTruly(user[u], listed[u], provider, user)
  BY DEF AssistantsInv, AssistantsTyped
<1>3. /\ w \in UserRecords(Len(entries)) /\ w.thread = user[u].thread /\ w.thread \in Threads
      /\ KeyOf(w) = KeyOf(user[u]) /\ KeyOf(w) \in Keys /\ <<w.thread>> \in Keys
  BY <1>1, <1>2 DEF UserRecords, KeyOf, Keys
<1>4. /\ user' \in [Users -> UserRecords(Len(entries))] /\ user'[u] = w
      /\ \A v \in Users \ {u} : user'[v] = user[v]
  BY <1>1, <1>2, <1>3
<1>5. AssistantsGrow
  BY <1>1, <1>2, <1>3, <1>4 DEF AssistantsGrow
<1>6. EntriesApart' /\ LookedUp'
  <2>1. \A v \in Users : \/ user'[v].entry = user[v].entry
                          \/ user'[v].entry = runs[KeyOf(user[v])]
    BY <1>2, <1>4 DEF UserRecords
  <2> QED BY <1>1, <1>5, <2>1, EntriesStill
<1>7. AssistantsTyped'
  BY <1>1, <1>2, <1>4, <1>5 DEF AssistantsTyped
<1>8. /\ listed'[u] = listed[u]
      /\ \A v \in Users \ {u} : listed'[v] = listed[v]
  BY <1>1, <1>2
<1>9. OwnRun(w, provider')
  BY <1>1, <1>2, <1>3, <1>5, GrowKeeps DEF OwnRun, AssistantsGrow, FinishedOf, UserRecords
<1>10. ListedAt(w, listed[u])
  BY <1>1, <1>2, <1>3 DEF ListedAt, UserRecords, ListRecords
<1>11. TellsTruly(w, listed[u], provider', user')
  BY <1>1, <1>2, <1>3, <1>5, GrowKeeps DEF TellsTruly, ListRecords
<1> HIDE DEF w
<1> QED
  <2>1. AssistantsTyped' /\ EntriesApart' /\ LookedUp'
    BY <1>6, <1>7
  <2>2. \A v \in Users \ {u} : user'[v] = user[v] /\ listed'[v] = listed[v]
    BY <1>4, <1>8
  <2>3. /\ OwnRun(user'[u], provider') /\ ListedAt(user'[u], listed'[u])
        /\ TellsTruly(user'[u], listed'[u], provider', user')
    BY <1>4, <1>8, <1>9, <1>10, <1>11
  <2> QED BY <1>5, <2>1, <2>2, <2>3, OthersStill

LEMMA ListReturnsKeeps ==
  ASSUME AssistantsInv, NEW u \in Users, Assistants!ListReturns(u)
  PROVE  AssistantsInv'
<1> DEFINE w == [user[u] EXCEPT !.pc = "returned"]
           l == [listed[u] EXCEPT !.ends = 1]
<1>1. listed[u] \in ListRecords /\ listed[u].ends + 1 = 1
  BY DEF Assistants!ListReturns, Assistants!At, AssistantsInv, AssistantsTyped, ListedAt,
     ListRecords
<1>2. /\ user' = [user EXCEPT ![u] = w] /\ user[u].pc = "ending"
      /\ listed' = [listed EXCEPT ![u] = l]
      /\ UNCHANGED <<runs, entries, provider>>
  BY <1>1 DEF Assistants!ListReturns, Assistants!At, Assistants!Goto, AssistantsInv,
     AssistantsTyped
<1>3. /\ user \in [Users -> UserRecords(Len(entries))] /\ listed \in [Users -> ListRecords]
      /\ runs \in [Keys -> 0..Len(entries)] /\ entries \in Seq(EntryRecords)
      /\ provider \in [Ids -> RunRecords]
      /\ user[u] \in UserRecords(Len(entries)) /\ listed[u] \in ListRecords
      /\ OwnRun(user[u], provider) /\ ListedAt(user[u], listed[u])
      /\ TellsTruly(user[u], listed[u], provider, user)
  BY DEF AssistantsInv, AssistantsTyped
<1>4. /\ w \in UserRecords(Len(entries)) /\ w.thread = user[u].thread /\ w.thread \in Threads
      /\ KeyOf(w) = KeyOf(user[u]) /\ KeyOf(w) \in Keys /\ <<w.thread>> \in Keys
  BY <1>2, <1>3 DEF UserRecords, KeyOf, Keys
<1>5. /\ user' \in [Users -> UserRecords(Len(entries))] /\ user'[u] = w
      /\ \A v \in Users \ {u} : user'[v] = user[v]
  BY <1>2, <1>3, <1>4
<1>6. AssistantsGrow
  BY <1>2, <1>3, <1>4, <1>5 DEF AssistantsGrow
<1>7. EntriesApart' /\ LookedUp'
  <2>1. \A v \in Users : \/ user'[v].entry = user[v].entry
                          \/ user'[v].entry = runs[KeyOf(user[v])]
    BY <1>3, <1>5 DEF UserRecords
  <2> QED BY <1>2, <1>6, <2>1, EntriesStill
<1>8. l \in ListRecords
  <2>1. ASSUME NEW r \in ListRecords PROVE [r EXCEPT !.ends = 1] \in ListRecords
    BY DEF ListRecords
  <2> QED BY <1>3, <2>1
<1>9. AssistantsTyped'
  BY <1>2, <1>3, <1>5, <1>6, <1>8 DEF AssistantsTyped
<1>10. /\ listed'[u] = l
      /\ \A v \in Users \ {u} : listed'[v] = listed[v]
  BY <1>2, <1>3
<1>11. OwnRun(w, provider')
  BY <1>2, <1>3, <1>4, <1>6, GrowKeeps DEF OwnRun, AssistantsGrow, FinishedOf, UserRecords
<1>12. ListedAt(w, l)
  BY <1>2, <1>3, <1>4 DEF ListedAt, UserRecords, ListRecords
<1>13. TellsTruly(w, l, provider', user')
  BY <1>2, <1>3, <1>4, <1>6, GrowKeeps DEF TellsTruly, ListRecords
<1> HIDE DEF w, l
<1> QED
  <2>1. AssistantsTyped' /\ EntriesApart' /\ LookedUp'
    BY <1>7, <1>9
  <2>2. \A v \in Users \ {u} : user'[v] = user[v] /\ listed'[v] = listed[v]
    BY <1>5, <1>10
  <2>3. /\ OwnRun(user'[u], provider') /\ ListedAt(user'[u], listed'[u])
        /\ TellsTruly(user'[u], listed'[u], provider', user')
    BY <1>5, <1>10, <1>11, <1>12, <1>13
  <2> QED BY <1>6, <2>1, <2>2, <2>3, OthersStill

LEMMA AssistantsStep ==
  ASSUME AssistantsInv, Assistants!Next
  PROVE  AssistantsInv'
BY ProviderFinishesKeeps, UserBegins, CreatedKeeps, CreateReturnsKeeps, CreateFailsKeeps,
   RetrievedKeeps, RetrieveReturnsKeeps, RetrieveFailsKeeps, ListFailsKeeps,
   ListAnswersKeeps, ListWritesKeeps, ListBreaksKeeps, ListReturnsKeeps DEF Assistants!Next

LEMMA AssistantsServe ==
  ASSUME AssistantsInv
  PROVE  Assistants!TypeOK /\ Assistants!ListsAccounted /\ Assistants!UsageOfThread
<1>1. Assistants!TypeOK
  BY DEF AssistantsInv, AssistantsTyped, Assistants!TypeOK, Assistants!Kinds, UserRecords,
         ListRecords, EntryRecords, RunRecords, Assistants!Keys, Keys
<1>2. Assistants!ListsAccounted
  BY DEF AssistantsInv, ListedAt, TellsTruly, FailedIn, KeyOf, Assistants!Key,
         Assistants!ListsAccounted
<1>3. Assistants!UsageOfThread
  BY DEF AssistantsInv, TellsTruly, FinishedOf, Assistants!UsageOfThread
<1> QED BY <1>1, <1>2, <1>3

-----------------------------------------------------------------------------
(* The Responses API. *)

\* The records of the type invariant.
CallRecords ==
  [pc : {"idle", "calling", "failing", "raised", "interrupted", "answered", "merged",
         "broken", "returned", "unkept", "cancelled", "reading", "gone"},
   kind : {"create", "retrieve", "cancel", "stream"}, id : SUBSET Ids, tools : BOOLEAN,
   input : BOOLEAN, status : {"none", "working", "completed", "cancelled"}]
SpanRecords ==
  [on : BOOLEAN, ends : 0..1, status : {"unset", "ok", "error"},
   usage : BOOLEAN, parent : SUBSET Calls]
DataRecords ==
  [input : BOOLEAN, tools : BOOLEAN, usage : BOOLEAN, context : SUBSET Calls]
EntryOrNone == {<<>>} \cup {<<d>> : d \in DataRecords}

ResponsesTyped ==
  /\ responses \in [Ids -> EntryOrNone] /\ foreign \subseteq Ids
  /\ server \in [Ids -> {"none", "working", "completed", "cancelled"}]
  /\ call \in [Calls -> CallRecords] /\ held \in [Calls -> EntryOrNone]
  /\ seen \in [Calls -> {"nothing", "begun", "complete"}]
  /\ cleaned \subseteq Calls /\ span \in [Calls -> SpanRecords]
  /\ first \in [Calls -> {"none", "complete", "exception", "cleanup"}]
  /\ early \subseteq Ids /\ stored \in [Ids -> Nat]

\* How far a call of each kind can be, and what it names there.
CallAt(k) ==
  /\ k.id = {} \/ \E i \in Ids : k.id = {i}
  /\ k.pc = "idle" => k.kind = "create" /\ k.id = {}
  /\ k.kind = "create" /\ k.pc = "calling" => k.id = {}
  /\ k.pc \in {"answered", "merged"} => k.kind \in {"create", "retrieve"} /\ k.id # {}
  /\ k.pc = "cancelled" => k.kind = "cancel" /\ k.id # {}
  /\ k.pc \in {"reading", "gone"} => k.kind = "stream" /\ k.id # {}
  /\ k.pc = "failing" => k.kind \in {"retrieve", "stream"} /\ k.id # {}
  /\ k.pc = "broken" => \/ k.kind \in {"retrieve", "cancel"}
                        \/ k.kind = "create" /\ ~k.input
                        \/ k.kind = "stream" /\ k.id # {}
  /\ k.kind \in {"cancel", "stream"} \/ k.pc \in {"idle", "calling"} => k.status = "none"

\* Where a call has its span, and where the span has ended.
SpanAt(c, k, h, cl, sp, f) ==
  /\ k.pc \in {"idle", "calling", "failing", "interrupted", "answered", "merged", "cancelled"}
       => sp.ends = 0
  /\ k.pc \in {"idle", "calling", "failing", "answered", "merged", "cancelled", "returned",
               "unkept"} => sp.status = "unset"
  /\ k.pc = "raised" /\ sp.on => sp.status = "error"
  /\ k.pc \in {"idle", "calling", "failing", "cancelled"} => h = <<>>
  /\ k.pc \in {"reading", "gone"} /\ c \notin cl => sp.ends = 0
  /\ k.pc \in {"idle", "cancelled"} \/ (k.pc = "calling" /\ k.kind = "cancel") => ~sp.on
  /\ c \in cl => k.pc \in {"reading", "gone"}
  /\ f = "none" <=> c \notin cl
  /\ sp.ends = 1 => /\ f = "exception" => sp.status = "error"
                    /\ f = "cleanup" => sp.status = "ok"
  /\ (sp.on /\ sp.ends = 0) =>
       \/ k.pc \in {"calling", "failing", "interrupted", "answered", "merged"}
       \/ k.pc = "broken" /\ (h # <<>> => ~h[1].tools \/ ~h[1].input)
       \/ k.pc = "returned" /\ k.status # "completed"
       \/ k.pc \in {"reading", "gone"} /\ (c \in cl => h # <<>> /\ ~h[1].input)

UsageKnown(k, sp, ea) ==
  (k.pc = "returned" /\ k.status = "completed" /\ ~sp.usage) => k.id \subseteq ea

CallsAccounted ==
  \A c \in Calls : /\ CallAt(call[c])
                   /\ SpanAt(c, call[c], held[c], cleaned, span[c], first[c])
                   /\ UsageKnown(call[c], span[c], early)

\* A response that the provider has not made is known to nobody.
IdsMade ==
  \A i \in Ids : server[i] = "none" =>
    i \notin foreign /\ responses[i] = <<>> /\ \A c \in Calls : i \notin call[c].id

\* A create's own response is, until it returns, nobody else's.
Making(k) == k.kind = "create" /\ k.pc \in {"answered", "merged"}
OwnAlone(c, cs, h, rs) ==
  Making(cs[c]) =>
    /\ cs[c].pc = "merged" => h = <<>>
    /\ \A i \in cs[c].id : /\ i \notin foreign /\ rs[i] = <<>>
                           /\ \A d \in Calls \ {c} : i \notin cs[d].id
CreatesAlone == \A c \in Calls : OwnAlone(c, call, held[c], responses)

\* Each entry is reported as cancelled, or is still there, once for each time
\* it was stored.
Cancelled(k, sp, i) == k.kind = "cancel" /\ k.id = {i} /\ sp.on
CancelsOf(cs, sps, i) == {c \in Calls : Cancelled(cs[c], sps[c], i)}
Counted(n, r, st) == n + (IF r = <<>> THEN 0 ELSE 1) <= st
CancelsCounted ==
  \A i \in Ids : /\ IsFiniteSet(CancelsOf(call, span, i))
                 /\ Counted(Cardinality(CancelsOf(call, span, i)), responses[i], stored[i])

ResponsesInv ==
  ResponsesTyped /\ CallsAccounted /\ IdsMade /\ CreatesAlone /\ CancelsCounted

\* A step of call c leaves the others where they are.
Alone(c) ==
  /\ \A d \in Calls \ {c} :
       /\ call'[d] = call[d] /\ held'[d] = held[d] /\ span'[d] = span[d]
       /\ first'[d] = first[d] /\ (d \in cleaned' <=> d \in cleaned)
  /\ foreign' = foreign /\ early \subseteq early'
  /\ \A i \in Ids : server'[i] = "none" => server[i] = "none"
  /\ \A i \in Ids : i \notin call'[c].id => responses'[i] = responses[i]

\* What a call names has been made, and is not another's own.
NamesMade(c) ==
  \A i \in call'[c].id :
    /\ server'[i] # "none"
    /\ \A d \in Calls \ {c} : Making(call[d]) => i \notin call[d].id

LEMMA CallsStill ==
  ASSUME ResponsesInv, NEW c \in Calls, Alone(c),
         CallAt(call'[c]), SpanAt(c, call'[c], held'[c], cleaned', span'[c], first'[c]),
         UsageKnown(call'[c], span'[c], early')
  PROVE  CallsAccounted'
<1>1. ASSUME NEW d \in Calls
      PROVE  /\ CallAt(call'[d])
             /\ SpanAt(d, call'[d], held'[d], cleaned', span'[d], first'[d])
             /\ UsageKnown(call'[d], span'[d], early')
  <2>1. CASE d = c
    BY <2>1
  <2>2. CASE d # c
    <3>1. /\ CallAt(call[d]) /\ SpanAt(d, call[d], held[d], cleaned, span[d], first[d])
          /\ UsageKnown(call[d], span[d], early)
      BY DEF ResponsesInv, CallsAccounted
    <3>2. /\ call'[d] = call[d] /\ held'[d] = held[d] /\ span'[d] = span[d]
          /\ first'[d] = first[d] /\ (d \in cleaned' <=> d \in cleaned) /\ early \subseteq early'
      BY <2>2 DEF Alone
    <3>3. SpanAt(d, call[d], held[d], cleaned', span[d], first[d])
      BY <3>1, <3>2 DEF SpanAt
    <3>4. UsageKnown(call[d], span[d], early')
      BY <3>1, <3>2 DEF UsageKnown
    <3> QED BY <3>1, <3>2, <3>3, <3>4
  <2> QED BY <2>1, <2>2
<1> QED BY <1>1 DEF CallsAccounted

LEMMA MadeStill ==
  ASSUME ResponsesInv, NEW c \in Calls, Alone(c), NamesMade(c)
  PROVE  IdsMade'
BY DEF ResponsesInv, IdsMade, Alone, NamesMade

LEMMA CreatesStill ==
  ASSUME ResponsesInv, NEW c \in Calls, Alone(c), NamesMade(c),
         OwnAlone(c, call', held'[c], responses')
  PROVE  CreatesAlone'
<1>1. ASSUME NEW d \in Calls \ {c}
      PROVE  OwnAlone(d, call', held'[d], responses')
  <2>1. OwnAlone(d, call, held[d], responses) /\ call[d].id \subseteq Ids
    BY DEF ResponsesInv, CreatesAlone, ResponsesTyped, CallRecords
  <2>2. /\ call'[d] = call[d] /\ held'[d] = held[d] /\ foreign' = foreign
        /\ \A e \in Calls \ {c} : call'[e] = call[e]
        /\ \A i \in Ids : i \notin call'[c].id => responses'[i] = responses[i]
    BY DEF Alone
  <2>3. Making(call[d]) => \A i \in call[d].id : i \notin call'[c].id
    BY DEF NamesMade
  <2> QED BY <2>1, <2>2, <2>3 DEF OwnAlone
<1> QED BY <1>1 DEF CreatesAlone, OwnAlone, Alone

\* The cancels of a response are the same if c is among them as before.
LEMMA CancelsSame ==
  ASSUME NEW c \in Calls, Alone(c), NEW i \in Ids,
         Cancelled(call'[c], span'[c], i) <=> Cancelled(call[c], span[c], i)
  PROVE  CancelsOf(call', span', i) = CancelsOf(call, span, i)
BY DEF CancelsOf, Alone

LEMMA CancelsStill ==
  ASSUME ResponsesInv, NEW c \in Calls, Alone(c), stored' = stored, responses' = responses,
         \A i \in Ids : Cancelled(call'[c], span'[c], i) <=> Cancelled(call[c], span[c], i)
  PROVE  CancelsCounted'
BY CancelsSame DEF ResponsesInv, CancelsCounted

\* An entry is stored: there is one more, at most.
LEMMA CancelsStored ==
  ASSUME ResponsesInv, NEW c \in Calls, Alone(c), NEW j \in Ids, NEW e,
         stored' = [stored EXCEPT ![j] = @ + 1], responses' = [responses EXCEPT ![j] = e],
         \A i \in Ids : Cancelled(call'[c], span'[c], i) <=> Cancelled(call[c], span[c], i)
  PROVE  CancelsCounted'
<1>1. ASSUME NEW i \in Ids
      PROVE  /\ IsFiniteSet(CancelsOf(call', span', i))
             /\ Counted(Cardinality(CancelsOf(call', span', i)), responses'[i], stored'[i])
  <2> DEFINE n == Cardinality(CancelsOf(call, span, i))
  <2>1. /\ IsFiniteSet(CancelsOf(call, span, i)) /\ Counted(n, responses[i], stored[i])
        /\ CancelsOf(call', span', i) = CancelsOf(call, span, i)
    BY CancelsSame DEF ResponsesInv, CancelsCounted
  <2>2. n \in Nat /\ stored[i] \in Nat
    BY <2>1, FS_CardinalityType DEF ResponsesInv, ResponsesTyped
  <2>3. \/ i # j /\ stored'[i] = stored[i] /\ responses'[i] = responses[i]
        \/ i = j /\ stored'[i] = stored[i] + 1
    BY DEF ResponsesInv, ResponsesTyped
  <2> HIDE DEF n
  <2>4. Counted(n, responses'[i], stored'[i])
    BY <2>1, <2>2, <2>3 DEF Counted
  <2> QED BY <2>1, <2>4 DEF n
<1> QED BY <1>1 DEF CancelsCounted

\* An entry is taken out, by a cancel that reports it if there is one.
LEMMA CancelsPopped ==
  ASSUME ResponsesInv, NEW c \in Calls, Alone(c), NEW j \in Ids,
         stored' = stored, responses' = [responses EXCEPT ![j] = <<>>],
         \A i \in Ids \ {j} : Cancelled(call'[c], span'[c], i) <=> Cancelled(call[c], span[c], i),
         ~Cancelled(call[c], span[c], j),
         Cancelled(call'[c], span'[c], j) => responses[j] # <<>>
  PROVE  CancelsCounted'
<1>1. ASSUME NEW i \in Ids
      PROVE  /\ IsFiniteSet(CancelsOf(call', span', i))
             /\ Counted(Cardinality(CancelsOf(call', span', i)), responses'[i], stored'[i])
  <2> DEFINE S == CancelsOf(call, span, i)
             n == Cardinality(S)
  <2>1. IsFiniteSet(S) /\ Counted(n, responses[i], stored[i])
    BY DEF ResponsesInv, CancelsCounted
  <2>2. n \in Nat /\ stored[i] \in Nat /\ stored'[i] = stored[i]
    BY <2>1, FS_CardinalityType DEF ResponsesInv, ResponsesTyped
  <2>3. CASE i # j
    <3>1. responses'[i] = responses[i] /\ CancelsOf(call', span', i) = S
      BY <2>3, CancelsSame DEF ResponsesInv, ResponsesTyped
    <3> QED BY <2>1, <2>2, <3>1
  <2>4. CASE i = j /\ ~Cancelled(call'[c], span'[c], j)
    <3>1. responses'[i] = <<>> /\ CancelsOf(call', span', i) = S
      BY <2>4, CancelsSame DEF ResponsesInv, ResponsesTyped
    <3> HIDE DEF n
    <3>2. Counted(n, <<>>, stored[i])
      BY <2>1, <2>2 DEF Counted
    <3> QED BY <2>1, <2>2, <3>1, <3>2 DEF n
  <2>5. CASE i = j /\ Cancelled(call'[c], span'[c], j)
    <3>1. /\ responses'[i] = <<>> /\ responses[i] # <<>>
          /\ CancelsOf(call', span', i) = S \cup {c} /\ c \notin S
      BY <2>5 DEF ResponsesInv, ResponsesTyped, CancelsOf, Alone
    <3>2. IsFiniteSet(S \cup {c}) /\ Cardinality(S \cup {c}) = n + 1
      BY <2>1, <3>1, FS_AddElement
    <3> HIDE DEF n, S
    <3>3. Counted(n + 1, <<>>, stored[i])
      BY <2>1, <2>2, <3>1 DEF Counted
    <3> QED BY <2>2, <3>1, <3>2, <3>3
  <2> QED BY <2>3, <2>4, <2>5
<1> QED BY <1>1 DEF CancelsCounted

LEMMA ResponsesBegin == ObjectsInit => ResponsesInv
<1> SUFFICES ASSUME ObjectsInit PROVE ResponsesInv
  OBVIOUS
<1> USE DEF ObjectsInit, ResponseCalls!Init
<1>1. ResponsesTyped
  <2>1. /\ responses \in [Ids -> EntryOrNone] /\ held \in [Calls -> EntryOrNone]
    BY DEF EntryOrNone
  <2>2. call \in [Calls -> CallRecords]
    BY DEF CallRecords
  <2>3. span \in [Calls -> SpanRecords]
    BY DEF SpanRecords, ResponseCalls!Unused
  <2>4. /\ server \in [Ids -> {"none", "working", "completed", "cancelled"}]
        /\ seen \in [Calls -> {"nothing", "begun", "complete"}]
        /\ cleaned \subseteq Calls
        /\ first \in [Calls -> {"none", "complete", "exception", "cleanup"}]
        /\ early \subseteq Ids /\ stored \in [Ids -> Nat] /\ foreign \subseteq Ids
    OBVIOUS
  <2> QED BY <2>1, <2>2, <2>3, <2>4 DEF ResponsesTyped
<1>2. CallsAccounted
  BY DEF CallsAccounted, CallAt, SpanAt, UsageKnown, ResponseCalls!Unused
<1>3. IdsMade /\ CreatesAlone
  BY DEF IdsMade, CreatesAlone, OwnAlone, Making
<1>4. CancelsCounted
  <2>1. \A i \in Ids : CancelsOf(call, span, i) = {}
    BY DEF CancelsOf, Cancelled
  <2>2. \A i \in Ids : responses[i] = <<>> /\ stored[i] = 0
    OBVIOUS
  <2>3. IsFiniteSet({}) /\ Cardinality({}) = 0
    BY FS_EmptySet
  <2>4. Counted(0, <<>>, 0)
    BY DEF Counted
  <2> QED BY <2>1, <2>2, <2>3, <2>4 DEF CancelsCounted
<1> QED BY <1>1, <1>2, <1>3, <1>4 DEF ResponsesInv

LEMMA ServerFinishesKeeps ==
  ASSUME ResponsesInv, NEW i \in Ids, ResponseCalls!ServerFinishes(i)
  PROVE  ResponsesInv'
<1> USE DEF ResponseCalls!ServerFinishes, ResponseCalls!stream
<1>1. ResponsesTyped'
  BY DEF ResponsesInv, ResponsesTyped
<1>2. /\ \A j \in Ids : server'[j] = "none" => server[j] = "none"
      /\ UNCHANGED <<responses, foreign, call, held, cleaned, span, first, early, stored>>
  BY DEF ResponsesInv, ResponsesTyped
<1>3. CallsAccounted'
  BY <1>2 DEF ResponsesInv, CallsAccounted
<1>4. IdsMade' /\ CreatesAlone'
  BY <1>2 DEF ResponsesInv, IdsMade, CreatesAlone, OwnAlone
<1>5. CancelsCounted'
  BY <1>2 DEF ResponsesInv, CancelsCounted
<1> QED BY <1>1, <1>3, <1>4, <1>5 DEF ResponsesInv

LEMMA CallBegins ==
  ASSUME ResponsesInv, NEW c \in Calls, NEW k \in ResponseCalls!Kinds, NEW i \in SUBSET Ids,
         NEW tools \in BOOLEAN, NEW input \in BOOLEAN,
         ResponseCalls!Begin(c, k, i, tools, input)
  PROVE  ResponsesInv'
<1>1. /\ ResponsesTyped /\ CallAt(call[c])
      /\ SpanAt(c, call[c], held[c], cleaned, span[c], first[c])
      /\ OwnAlone(c, call, held[c], responses) /\ IdsMade
      /\ call[c] \in CallRecords /\ span[c] \in SpanRecords /\ held[c] \in EntryOrNone
  BY DEF ResponsesInv, ResponsesTyped, CallsAccounted, CreatesAlone
<1> DEFINE w == [call[c] EXCEPT !.pc = "calling", !.kind = k, !.id = i, !.tools = tools,
                              !.input = input]
<1> DEFINE s == [span[c] EXCEPT !.on = k # "cancel"]
<1>2. /\ call[c].pc = "idle" /\ ResponseCalls!Names(k, i)
      /\ call' = [call EXCEPT ![c] = w]
      /\ held' = held
      /\ span' = [span EXCEPT ![c] = s]
      /\ UNCHANGED <<foreign, seen, cleaned, first, server, responses, early, stored>>
  BY <1>1 DEF ResponseCalls!Begin, ResponseCalls!At, ResponseCalls!stream
<1>3. w \in CallRecords
  BY <1>1 DEF CallRecords, ResponseCalls!Kinds
<1>4. s \in SpanRecords
  BY <1>1, <1>2 DEF SpanRecords, SpanAt
<1>5. /\ call'[c] = w /\ held'[c] = held[c] /\ span'[c] = s
      /\ call' \in [Calls -> CallRecords] /\ span' \in [Calls -> SpanRecords]
      /\ held' \in [Calls -> EntryOrNone]
      /\ \A d \in Calls \ {c} : call'[d] = call[d] /\ held'[d] = held[d] /\ span'[d] = span[d]
  BY <1>1, <1>2, <1>3, <1>4 DEF ResponsesTyped
<1>6. \A j \in i :
        /\ server[j] # "none"
        /\ \A d \in Calls \ {c} : Making(call[d]) => j \notin call[d].id
  <2>1. ASSUME NEW j \in i PROVE j \in foreign \/ \E e \in Calls : ResponseCalls!Tells(e) /\ j \in call[e].id
    BY <1>2 DEF ResponseCalls!Names, ResponseCalls!Known
  <2>2. ASSUME NEW j \in i, NEW d \in Calls, Making(call[d]) PROVE j \notin call[d].id
    <3>1. OwnAlone(d, call, held[d], responses) /\ ~ResponseCalls!Tells(d)
      BY <2>2 DEF ResponsesInv, CreatesAlone, Making, ResponseCalls!Tells
    <3> QED BY <2>1, <2>2, <3>1 DEF OwnAlone
  <2> QED BY <1>1, <2>1, <2>2 DEF IdsMade
<1>7. ResponsesTyped'
  BY <1>1, <1>2, <1>5 DEF ResponsesTyped
<1>8. Alone(c)
  BY <1>1, <1>2, <1>5 DEF Alone, ResponsesTyped
<1>9. NamesMade(c)
  BY <1>2, <1>5, <1>8, <1>6 DEF NamesMade
<1>10. CallAt(w)
  BY <1>1, <1>2 DEF CallAt, CallRecords, ResponseCalls!Names, ResponseCalls!Kinds
<1>11. SpanAt(c, w, held[c], cleaned', s, first'[c])
  BY <1>1, <1>2 DEF SpanAt, CallAt, CallRecords, SpanRecords, ResponseCalls!Kinds
<1>12. UsageKnown(w, s, early')
  BY <1>1, <1>2 DEF UsageKnown, CallRecords, CallAt
<1>13. OwnAlone(c, call', held[c], responses')
  BY <1>1, <1>2, <1>5 DEF OwnAlone, Making, CallRecords
<1>14. CancelsCounted'
  <2>1. \A j \in Ids : Cancelled(w, s, j) <=> Cancelled(call[c], span[c], j)
    BY <1>1, <1>2 DEF Cancelled, CallRecords, SpanRecords, CallAt, SpanAt
  <2> QED BY <1>2, <1>5, <1>8, <2>1, CancelsStill
<1> HIDE DEF w, s
<1>15. CallsAccounted'
  BY <1>5, <1>8, <1>10, <1>11, <1>12, CallsStill
<1>16. IdsMade' /\ CreatesAlone'
  BY <1>5, <1>8, <1>9, <1>13, MadeStill, CreatesStill
<1> QED BY <1>7, <1>14, <1>15, <1>16 DEF ResponsesInv

LEMMA FailKeeps ==
  ASSUME ResponsesInv, NEW c \in Calls, ResponseCalls!Fail(c)
  PROVE  ResponsesInv'
<1>1. /\ ResponsesTyped /\ CallAt(call[c])
      /\ SpanAt(c, call[c], held[c], cleaned, span[c], first[c])
      /\ OwnAlone(c, call, held[c], responses) /\ IdsMade
      /\ call[c] \in CallRecords /\ span[c] \in SpanRecords /\ held[c] \in EntryOrNone
  BY DEF ResponsesInv, ResponsesTyped, CallsAccounted, CreatesAlone
<1> DEFINE w == [call[c] EXCEPT !.pc = "raised"]
<1> DEFINE s == IF span[c].on THEN [on |-> span[c].on, ends |-> span[c].ends + 1, status |-> "error",
                                usage |-> FALSE, parent |-> span[c].parent]
                   ELSE span[c]
<1>2. /\ call[c].pc = "calling"
      /\ call' = [call EXCEPT ![c] = w]
      /\ held' = held
      /\ span' = [span EXCEPT ![c] = s]
      /\ UNCHANGED <<foreign, seen, cleaned, first, server, responses, early, stored>>
  BY <1>1 DEF ResponseCalls!Fail, ResponseCalls!At, ResponseCalls!stream, ResponseCalls!Goto,
     ResponseCalls!Ended, ResponsesTyped
<1>3. w \in CallRecords
  BY <1>1 DEF CallRecords
<1>4. s \in SpanRecords
  BY <1>1, <1>2 DEF SpanRecords, SpanAt
<1>5. /\ call'[c] = w /\ held'[c] = held[c] /\ span'[c] = s
      /\ call' \in [Calls -> CallRecords] /\ span' \in [Calls -> SpanRecords]
      /\ held' \in [Calls -> EntryOrNone]
      /\ \A d \in Calls \ {c} : call'[d] = call[d] /\ held'[d] = held[d] /\ span'[d] = span[d]
  BY <1>1, <1>2, <1>3, <1>4 DEF ResponsesTyped
<1>6. ResponsesTyped'
  BY <1>1, <1>2, <1>5 DEF ResponsesTyped
<1>7. Alone(c)
  BY <1>1, <1>2, <1>5 DEF Alone, ResponsesTyped
<1>8. NamesMade(c)
  <2>1. ASSUME NEW i \in call[c].id
        PROVE  /\ server[i] # "none"
               /\ \A d \in Calls \ {c} : Making(call[d]) => i \notin call[d].id
    BY <1>1 DEF IdsMade, CallRecords, ResponsesInv, CreatesAlone, OwnAlone
  <2> QED BY <1>1, <1>2, <1>5, <1>7, <2>1 DEF NamesMade, CallRecords, Alone
<1>9. CallAt(w)
  BY <1>1, <1>2 DEF CallAt, CallRecords
<1>10. SpanAt(c, w, held[c], cleaned', s, first'[c])
  BY <1>1, <1>2 DEF SpanAt, CallAt, CallRecords, SpanRecords
<1>11. UsageKnown(w, s, early')
  BY <1>1, <1>2 DEF UsageKnown, CallRecords, CallAt
<1>12. OwnAlone(c, call', held[c], responses')
  BY <1>1, <1>2, <1>5 DEF OwnAlone, Making, CallRecords
<1>13. CancelsCounted'
  <2>1. \A i \in Ids : Cancelled(w, s, i) <=> Cancelled(call[c], span[c], i)
    BY <1>1, <1>2 DEF Cancelled, CallRecords, SpanRecords, CallAt, SpanAt
  <2> QED BY <1>2, <1>5, <1>7, <2>1, CancelsStill
<1> HIDE DEF w, s
<1>14. CallsAccounted'
  BY <1>5, <1>7, <1>9, <1>10, <1>11, CallsStill
<1>15. IdsMade' /\ CreatesAlone'
  BY <1>5, <1>7, <1>8, <1>12, MadeStill, CreatesStill
<1> QED BY <1>6, <1>13, <1>14, <1>15 DEF ResponsesInv

LEMMA FailFindsKeeps ==
  ASSUME ResponsesInv, NEW c \in Calls, ResponseCalls!FailFinds(c)
  PROVE  ResponsesInv'
<1>1. /\ ResponsesTyped /\ CallAt(call[c])
      /\ SpanAt(c, call[c], held[c], cleaned, span[c], first[c])
      /\ OwnAlone(c, call, held[c], responses) /\ IdsMade
      /\ call[c] \in CallRecords /\ span[c] \in SpanRecords /\ held[c] \in EntryOrNone
  BY DEF ResponsesInv, ResponsesTyped, CallsAccounted, CreatesAlone
<1> DEFINE w == [call[c] EXCEPT !.pc = "failing"]
<1> DEFINE s == span[c]
<1>2. /\ call[c].pc = "calling" /\ call[c].kind \in {"retrieve", "stream"} /\ call[c].id # {}
      /\ call' = [call EXCEPT ![c] = w]
      /\ held' = held
      /\ span' = [span EXCEPT ![c] = s]
      /\ UNCHANGED <<foreign, seen, cleaned, first, server, responses, early, stored>>
  BY <1>1 DEF ResponseCalls!FailFinds, ResponseCalls!At, ResponseCalls!stream, ResponseCalls!Goto,
     ResponsesTyped
<1>3. w \in CallRecords
  BY <1>1 DEF CallRecords
<1>4. s \in SpanRecords
  BY <1>1, <1>2 DEF SpanRecords, SpanAt
<1>5. /\ call'[c] = w /\ held'[c] = held[c] /\ span'[c] = s
      /\ call' \in [Calls -> CallRecords] /\ span' \in [Calls -> SpanRecords]
      /\ held' \in [Calls -> EntryOrNone]
      /\ \A d \in Calls \ {c} : call'[d] = call[d] /\ held'[d] = held[d] /\ span'[d] = span[d]
  BY <1>1, <1>2, <1>3, <1>4 DEF ResponsesTyped
<1>6. ResponsesTyped'
  BY <1>1, <1>2, <1>5 DEF ResponsesTyped
<1>7. Alone(c)
  BY <1>1, <1>2, <1>5 DEF Alone, ResponsesTyped
<1>8. NamesMade(c)
  <2>1. ASSUME NEW i \in call[c].id
        PROVE  /\ server[i] # "none"
               /\ \A d \in Calls \ {c} : Making(call[d]) => i \notin call[d].id
    BY <1>1 DEF IdsMade, CallRecords, ResponsesInv, CreatesAlone, OwnAlone
  <2> QED BY <1>1, <1>2, <1>5, <1>7, <2>1 DEF NamesMade, CallRecords, Alone
<1>9. CallAt(w)
  BY <1>1, <1>2 DEF CallAt, CallRecords
<1>10. SpanAt(c, w, held[c], cleaned', s, first'[c])
  BY <1>1, <1>2 DEF SpanAt, CallAt, CallRecords, SpanRecords
<1>11. UsageKnown(w, s, early')
  BY <1>1, <1>2 DEF UsageKnown, CallRecords, CallAt
<1>12. OwnAlone(c, call', held[c], responses')
  BY <1>1, <1>2, <1>5 DEF OwnAlone, Making, CallRecords
<1>13. CancelsCounted'
  <2>1. \A i \in Ids : Cancelled(w, s, i) <=> Cancelled(call[c], span[c], i)
    BY <1>1, <1>2 DEF Cancelled, CallRecords, SpanRecords, CallAt, SpanAt
  <2> QED BY <1>2, <1>5, <1>7, <2>1, CancelsStill
<1> HIDE DEF w, s
<1>14. CallsAccounted'
  BY <1>5, <1>7, <1>9, <1>10, <1>11, CallsStill
<1>15. IdsMade' /\ CreatesAlone'
  BY <1>5, <1>7, <1>8, <1>12, MadeStill, CreatesStill
<1> QED BY <1>6, <1>13, <1>14, <1>15 DEF ResponsesInv

LEMMA InterruptKeeps ==
  ASSUME ResponsesInv, NEW c \in Calls, ResponseCalls!Interrupt(c)
  PROVE  ResponsesInv'
<1>1. /\ ResponsesTyped /\ CallAt(call[c])
      /\ SpanAt(c, call[c], held[c], cleaned, span[c], first[c])
      /\ OwnAlone(c, call, held[c], responses) /\ IdsMade
      /\ call[c] \in CallRecords /\ span[c] \in SpanRecords /\ held[c] \in EntryOrNone
  BY DEF ResponsesInv, ResponsesTyped, CallsAccounted, CreatesAlone
<1> DEFINE w == [call[c] EXCEPT !.pc = "interrupted"]
<1> DEFINE s == span[c]
<1>2. /\ call[c].pc \in {"calling", "answered"}
      /\ call' = [call EXCEPT ![c] = w]
      /\ held' = held
      /\ span' = [span EXCEPT ![c] = s]
      /\ UNCHANGED <<foreign, seen, cleaned, first, server, responses, early, stored>>
  BY <1>1 DEF ResponseCalls!Interrupt, ResponseCalls!At, ResponseCalls!stream, ResponseCalls!Goto,
     ResponsesTyped
<1>3. w \in CallRecords
  BY <1>1 DEF CallRecords
<1>4. s \in SpanRecords
  BY <1>1, <1>2 DEF SpanRecords, SpanAt
<1>5. /\ call'[c] = w /\ held'[c] = held[c] /\ span'[c] = s
      /\ call' \in [Calls -> CallRecords] /\ span' \in [Calls -> SpanRecords]
      /\ held' \in [Calls -> EntryOrNone]
      /\ \A d \in Calls \ {c} : call'[d] = call[d] /\ held'[d] = held[d] /\ span'[d] = span[d]
  BY <1>1, <1>2, <1>3, <1>4 DEF ResponsesTyped
<1>6. ResponsesTyped'
  BY <1>1, <1>2, <1>5 DEF ResponsesTyped
<1>7. Alone(c)
  BY <1>1, <1>2, <1>5 DEF Alone, ResponsesTyped
<1>8. NamesMade(c)
  <2>1. ASSUME NEW i \in call[c].id
        PROVE  /\ server[i] # "none"
               /\ \A d \in Calls \ {c} : Making(call[d]) => i \notin call[d].id
    BY <1>1 DEF IdsMade, CallRecords, ResponsesInv, CreatesAlone, OwnAlone
  <2> QED BY <1>1, <1>2, <1>5, <1>7, <2>1 DEF NamesMade, CallRecords, Alone
<1>9. CallAt(w)
  BY <1>1, <1>2 DEF CallAt, CallRecords
<1>10. SpanAt(c, w, held[c], cleaned', s, first'[c])
  BY <1>1, <1>2 DEF SpanAt, CallAt, CallRecords, SpanRecords
<1>11. UsageKnown(w, s, early')
  BY <1>1, <1>2 DEF UsageKnown, CallRecords, CallAt
<1>12. OwnAlone(c, call', held[c], responses')
  BY <1>1, <1>2, <1>5 DEF OwnAlone, Making, CallRecords
<1>13. CancelsCounted'
  <2>1. \A i \in Ids : Cancelled(w, s, i) <=> Cancelled(call[c], span[c], i)
    BY <1>1, <1>2 DEF Cancelled, CallRecords, SpanRecords, CallAt, SpanAt
  <2> QED BY <1>2, <1>5, <1>7, <2>1, CancelsStill
<1> HIDE DEF w, s
<1>14. CallsAccounted'
  BY <1>5, <1>7, <1>9, <1>10, <1>11, CallsStill
<1>15. IdsMade' /\ CreatesAlone'
  BY <1>5, <1>7, <1>8, <1>12, MadeStill, CreatesStill
<1> QED BY <1>6, <1>13, <1>14, <1>15 DEF ResponsesInv

LEMMA FailTellsKeeps ==
  ASSUME ResponsesInv, NEW c \in Calls, ResponseCalls!FailTells(c)
  PROVE  ResponsesInv'
<1>1. /\ ResponsesTyped /\ CallAt(call[c])
      /\ SpanAt(c, call[c], held[c], cleaned, span[c], first[c])
      /\ OwnAlone(c, call, held[c], responses) /\ IdsMade
      /\ call[c] \in CallRecords /\ span[c] \in SpanRecords /\ held[c] \in EntryOrNone
  BY DEF ResponsesInv, ResponsesTyped, CallsAccounted, CreatesAlone
<1>2. PICK i \in call[c].id :
        /\ held' = [held EXCEPT ![c] = responses[i]]
        /\ \/ /\ responses[i] = <<>> \/ ~responses[i][1].input
              /\ call' = [call EXCEPT ![c].pc = "broken"]
              /\ \/ UNCHANGED span
                 \/ span' = [span EXCEPT ![c].status = "error"]
           \/ /\ call' = [call EXCEPT ![c].pc = "raised"]
              /\ \E told \in BOOLEAN : span' = ResponseCalls!Ended(c, "error", told)
  <2>1. ASSUME NEW i \in call[c].id, responses[i] # <<>> PROVE responses[i][1].usage \in BOOLEAN
    BY <1>1, <2>1 DEF CallRecords, ResponsesTyped, EntryOrNone, DataRecords
  <2> QED BY <2>1 DEF ResponseCalls!FailTells, ResponseCalls!Goto
<1>3. /\ call[c].pc = "failing" /\ call[c].kind \in {"retrieve", "stream"}
      /\ i \in Ids /\ responses[i] \in EntryOrNone
      /\ UNCHANGED <<foreign, seen, cleaned, first, server, responses, early, stored>>
  BY <1>1 DEF ResponseCalls!FailTells, ResponseCalls!At, ResponseCalls!stream, CallAt,
     CallRecords, ResponsesTyped
<1>4. PICK w \in CallRecords, s \in SpanRecords :
        /\ call' = [call EXCEPT ![c] = w] /\ span' = [span EXCEPT ![c] = s]
        /\ w.kind = call[c].kind /\ w.id = call[c].id /\ w.status = call[c].status
        /\ s.on = span[c].on
        /\ \/ /\ w.pc = "broken" /\ s.ends = 0
              /\ responses[i] = <<>> \/ ~responses[i][1].input
           \/ w.pc = "raised" /\ s.ends = 1 /\ s.status = "error"
  <2> DEFINE Moved(x) == [call[c] EXCEPT !.pc = x]
  <2> DEFINE Told(told) == [on |-> span[c].on, ends |-> 1, status |-> "error", usage |-> told,
                             parent |-> span[c].parent]
  <2>1. span[c].ends = 0
    BY <1>1, <1>3 DEF SpanAt
  <2>2. ASSUME NEW x \in {"broken", "raised"}
        PROVE  /\ Moved(x) \in CallRecords /\ Moved(x).pc = x /\ Moved(x).kind = call[c].kind
               /\ Moved(x).id = call[c].id /\ Moved(x).status = call[c].status
    BY <1>1 DEF CallRecords
  <2>3. CASE call' = [call EXCEPT ![c] = Moved("broken")] /\ UNCHANGED span
             /\ (responses[i] = <<>> \/ ~responses[i][1].input)
    <3>1. span' = [span EXCEPT ![c] = span[c]]
      BY <1>1, <2>3 DEF ResponsesTyped
    <3> HIDE DEF Moved
    <3> QED BY <1>1, <2>1, <2>2, <2>3, <3>1
  <2>4. CASE call' = [call EXCEPT ![c] = Moved("broken")]
             /\ span' = [span EXCEPT ![c] = [span[c] EXCEPT !.status = "error"]]
             /\ (responses[i] = <<>> \/ ~responses[i][1].input)
    <3> DEFINE s == [span[c] EXCEPT !.status = "error"]
    <3>1. s \in SpanRecords /\ s.on = span[c].on /\ s.ends = 0
      BY <1>1, <2>1 DEF SpanRecords
    <3> HIDE DEF Moved, s
    <3>2. span' = [span EXCEPT ![c] = s]
      BY <2>4 DEF s
    <3> QED BY <2>2, <2>4, <3>1, <3>2
  <2>5. ASSUME NEW told \in BOOLEAN, call' = [call EXCEPT ![c] = Moved("raised")],
               span' = ResponseCalls!Ended(c, "error", told)
        PROVE  \E w \in CallRecords, s \in SpanRecords :
                 /\ call' = [call EXCEPT ![c] = w] /\ span' = [span EXCEPT ![c] = s]
                 /\ w.kind = call[c].kind /\ w.id = call[c].id /\ w.status = call[c].status
                 /\ s.on = span[c].on
                 /\ w.pc = "raised" /\ s.ends = 1 /\ s.status = "error"
    <3>1. Told(told) \in SpanRecords /\ Told(told).on = span[c].on
          /\ Told(told).ends = 1 /\ Told(told).status = "error"
      BY <1>1 DEF SpanRecords
    <3>2. span' = [span EXCEPT ![c] = Told(told)]
      BY <1>1, <2>1, <2>5 DEF ResponseCalls!Ended, ResponsesTyped
    <3> HIDE DEF Moved, Told
    <3> QED BY <2>2, <2>5, <3>1, <3>2
  <2> HIDE DEF Told
  <2> QED BY <1>2, <2>3, <2>4, <2>5
<1>5. /\ call'[c] = w /\ held'[c] = responses[i] /\ span'[c] = s
      /\ call' \in [Calls -> CallRecords] /\ span' \in [Calls -> SpanRecords]
      /\ held' \in [Calls -> EntryOrNone]
      /\ \A d \in Calls \ {c} : call'[d] = call[d] /\ held'[d] = held[d] /\ span'[d] = span[d]
  BY <1>1, <1>2, <1>3, <1>4 DEF ResponsesTyped
<1>6. ResponsesTyped'
  BY <1>1, <1>3, <1>5 DEF ResponsesTyped
<1>7. Alone(c)
  BY <1>1, <1>3, <1>5 DEF Alone, ResponsesTyped
<1>8. NamesMade(c)
  <2>1. ASSUME NEW j \in call[c].id
        PROVE  /\ server[j] # "none"
               /\ \A d \in Calls \ {c} : Making(call[d]) => j \notin call[d].id
    BY <1>1 DEF IdsMade, CallRecords, ResponsesInv, CreatesAlone, OwnAlone
  <2> QED BY <1>1, <1>3, <1>4, <1>5, <1>7, <2>1 DEF NamesMade, CallRecords, Alone
<1>9. CallAt(w)
  BY <1>1, <1>3, <1>4 DEF CallAt
<1>10. SpanAt(c, w, responses[i], cleaned', s, first'[c])
  BY <1>1, <1>3, <1>4 DEF SpanAt, SpanRecords
<1>11. UsageKnown(w, s, early')
  BY <1>4 DEF UsageKnown
<1>12. OwnAlone(c, call', responses[i], responses')
  BY <1>4, <1>5 DEF OwnAlone, Making
<1>13. CancelsCounted'
  <2>1. \A j \in Ids : Cancelled(w, s, j) <=> Cancelled(call[c], span[c], j)
    BY <1>3, <1>4 DEF Cancelled
  <2> QED BY <1>3, <1>5, <1>7, <2>1, CancelsStill
<1>14. CallsAccounted'
  BY <1>5, <1>7, <1>9, <1>10, <1>11, CallsStill
<1>15. IdsMade' /\ CreatesAlone'
  BY <1>5, <1>7, <1>8, <1>12, MadeStill, CreatesStill
<1> QED BY <1>6, <1>13, <1>14, <1>15 DEF ResponsesInv

LEMMA KeepFailsKeeps ==
  ASSUME ResponsesInv, NEW c \in Calls, ResponseCalls!KeepFails(c)
  PROVE  ResponsesInv'
<1>1. /\ ResponsesTyped /\ CallAt(call[c])
      /\ SpanAt(c, call[c], held[c], cleaned, span[c], first[c])
      /\ OwnAlone(c, call, held[c], responses) /\ IdsMade
      /\ call[c] \in CallRecords /\ span[c] \in SpanRecords /\ held[c] \in EntryOrNone
  BY DEF ResponsesInv, ResponsesTyped, CallsAccounted, CreatesAlone
<1> DEFINE w == [call[c] EXCEPT !.pc = "unkept"]
<1> DEFINE s == [on |-> span[c].on, ends |-> span[c].ends + 1, status |-> "unset",
                  usage |-> FALSE, parent |-> span[c].parent]
<1>2. /\ call[c].pc = "merged"
      /\ call' = [call EXCEPT ![c] = w]
      /\ held' = held
      /\ span' = [span EXCEPT ![c] = s]
      /\ UNCHANGED <<foreign, seen, cleaned, first, server, responses, early, stored>>
  BY <1>1 DEF ResponseCalls!KeepFails, ResponseCalls!At, ResponseCalls!stream,
     ResponseCalls!Goto, ResponseCalls!Ended, ResponsesTyped
<1>3. w \in CallRecords
  BY <1>1 DEF CallRecords
<1>4. s \in SpanRecords
  BY <1>1, <1>2 DEF SpanRecords, SpanAt
<1>5. /\ call'[c] = w /\ held'[c] = held[c] /\ span'[c] = s
      /\ call' \in [Calls -> CallRecords] /\ span' \in [Calls -> SpanRecords]
      /\ held' \in [Calls -> EntryOrNone]
      /\ \A d \in Calls \ {c} : call'[d] = call[d] /\ held'[d] = held[d] /\ span'[d] = span[d]
  BY <1>1, <1>2, <1>3, <1>4 DEF ResponsesTyped
<1>6. ResponsesTyped'
  BY <1>1, <1>2, <1>5 DEF ResponsesTyped
<1>7. Alone(c)
  BY <1>1, <1>2, <1>5 DEF Alone, ResponsesTyped
<1>8. NamesMade(c)
  <2>1. ASSUME NEW i \in call[c].id
        PROVE  /\ server[i] # "none"
               /\ \A d \in Calls \ {c} : Making(call[d]) => i \notin call[d].id
    BY <1>1 DEF IdsMade, CallRecords, ResponsesInv, CreatesAlone, OwnAlone
  <2> QED BY <1>1, <1>2, <1>5, <1>7, <2>1 DEF NamesMade, CallRecords, Alone
<1>9. CallAt(w)
  BY <1>1, <1>2 DEF CallAt, CallRecords
<1>10. SpanAt(c, w, held[c], cleaned', s, first'[c])
  BY <1>1, <1>2 DEF SpanAt, CallAt, CallRecords, SpanRecords
<1>11. UsageKnown(w, s, early')
  BY <1>1, <1>2 DEF UsageKnown, CallRecords, CallAt
<1>12. OwnAlone(c, call', held[c], responses')
  BY <1>1, <1>2, <1>5 DEF OwnAlone, Making, CallRecords
<1>13. CancelsCounted'
  <2>1. \A i \in Ids : Cancelled(w, s, i) <=> Cancelled(call[c], span[c], i)
    BY <1>1, <1>2 DEF Cancelled, CallRecords, SpanRecords, CallAt, SpanAt
  <2> QED BY <1>2, <1>5, <1>7, <2>1, CancelsStill
<1> HIDE DEF w, s
<1>14. CallsAccounted'
  BY <1>5, <1>7, <1>9, <1>10, <1>11, CallsStill
<1>15. IdsMade' /\ CreatesAlone'
  BY <1>5, <1>7, <1>8, <1>12, MadeStill, CreatesStill
<1> QED BY <1>6, <1>13, <1>14, <1>15 DEF ResponsesInv

LEMMA AnswerCreateKeeps ==
  ASSUME ResponsesInv, NEW c \in Calls, ResponseCalls!Answer(c), call[c].kind = "create"
  PROVE  ResponsesInv'
<1>1. /\ ResponsesTyped /\ CallAt(call[c])
      /\ SpanAt(c, call[c], held[c], cleaned, span[c], first[c])
      /\ OwnAlone(c, call, held[c], responses) /\ IdsMade
      /\ call[c] \in CallRecords /\ span[c] \in SpanRecords /\ held[c] \in EntryOrNone
  BY DEF ResponsesInv, ResponsesTyped, CallsAccounted, CreatesAlone
<1>2. PICK i \in Ids, x \in {"working", "completed"} :
        /\ server[i] = "none" /\ server' = [server EXCEPT ![i] = x]
        /\ call' = [call EXCEPT ![c] = [call[c] EXCEPT !.pc = "answered", !.id = {i}, !.status = x]]
  BY DEF ResponseCalls!Answer
<1> DEFINE w == [call[c] EXCEPT !.pc = "answered", !.id = {i}, !.status = x]
<1>3. /\ call[c].pc = "calling" /\ server[i] = "none"
      /\ server' = [server EXCEPT ![i] = x]
      /\ call' = [call EXCEPT ![c] = w]
      /\ held' = held
      /\ span' = span
      /\ UNCHANGED <<foreign, seen, cleaned, first, responses, early, stored>>
  BY <1>1, <1>2 DEF ResponseCalls!Answer, ResponseCalls!At, ResponseCalls!stream
<1>4. w \in CallRecords
  BY <1>1 DEF CallRecords
<1>5. /\ call'[c] = w /\ held'[c] = held[c] /\ span'[c] = span[c]
      /\ call' \in [Calls -> CallRecords] /\ span' \in [Calls -> SpanRecords]
      /\ held' \in [Calls -> EntryOrNone]
      /\ \A d \in Calls \ {c} : call'[d] = call[d] /\ held'[d] = held[d] /\ span'[d] = span[d]
  BY <1>1, <1>3, <1>4 DEF ResponsesTyped
<1>6. ResponsesTyped'
  BY <1>1, <1>3, <1>5 DEF ResponsesTyped
<1>7. Alone(c)
  BY <1>1, <1>3, <1>5 DEF Alone, ResponsesTyped
<1>8. NamesMade(c)
  BY <1>1, <1>3, <1>5 DEF NamesMade, IdsMade, ResponsesTyped
<1>9. CallAt(w)
  BY <1>1, <1>3 DEF CallAt, CallRecords
<1>10. SpanAt(c, w, held[c], cleaned', span[c], first'[c])
  BY <1>1, <1>3 DEF SpanAt, CallAt, CallRecords, SpanRecords
<1>11. UsageKnown(w, span[c], early')
  BY <1>1, <1>3 DEF UsageKnown, CallRecords, CallAt
<1>12. OwnAlone(c, call', held[c], responses')
  BY <1>1, <1>3, <1>5 DEF OwnAlone, IdsMade
<1>13. CancelsCounted'
  <2>1. \A j \in Ids : Cancelled(w, span[c], j) <=> Cancelled(call[c], span[c], j)
    BY <1>1, <1>3 DEF Cancelled, CallRecords, SpanRecords, CallAt, SpanAt
  <2> QED BY <1>3, <1>5, <1>7, <2>1, CancelsStill
<1> HIDE DEF w
<1>14. CallsAccounted'
  BY <1>5, <1>7, <1>9, <1>10, <1>11, CallsStill
<1>15. IdsMade' /\ CreatesAlone'
  BY <1>5, <1>7, <1>8, <1>12, MadeStill, CreatesStill
<1> QED BY <1>6, <1>13, <1>14, <1>15 DEF ResponsesInv

LEMMA AnswerRetrieveKeeps ==
  ASSUME ResponsesInv, NEW c \in Calls, ResponseCalls!Answer(c), call[c].kind = "retrieve"
  PROVE  ResponsesInv'
<1>1. /\ ResponsesTyped /\ CallAt(call[c])
      /\ SpanAt(c, call[c], held[c], cleaned, span[c], first[c])
      /\ OwnAlone(c, call, held[c], responses) /\ IdsMade
      /\ call[c] \in CallRecords /\ span[c] \in SpanRecords /\ held[c] \in EntryOrNone
  BY DEF ResponsesInv, ResponsesTyped, CallsAccounted, CreatesAlone
<1>2. PICK i \in call[c].id :
        call' = [call EXCEPT ![c] = [call[c] EXCEPT !.pc = "answered", !.status = server[i]]]
  BY DEF ResponseCalls!Answer
<1>3. i \in Ids /\ server[i] \in {"none", "working", "completed", "cancelled"}
  BY <1>1 DEF CallRecords, ResponsesTyped
<1> DEFINE w == [call[c] EXCEPT !.pc = "answered", !.status = server[i]]
<1>4. /\ call[c].pc = "calling"
      /\ call' = [call EXCEPT ![c] = w]
      /\ held' = held
      /\ span' = span
      /\ UNCHANGED <<foreign, seen, cleaned, first, server, responses, early, stored>>
  BY <1>1, <1>2 DEF ResponseCalls!Answer, ResponseCalls!At, ResponseCalls!stream
<1>5. w \in CallRecords
  BY <1>1, <1>3 DEF CallRecords
<1>6. /\ call'[c] = w /\ held'[c] = held[c] /\ span'[c] = span[c]
      /\ call' \in [Calls -> CallRecords] /\ span' \in [Calls -> SpanRecords]
      /\ held' \in [Calls -> EntryOrNone]
      /\ \A d \in Calls \ {c} : call'[d] = call[d] /\ held'[d] = held[d] /\ span'[d] = span[d]
  BY <1>1, <1>4, <1>5, <1>3 DEF ResponsesTyped
<1>7. ResponsesTyped'
  BY <1>1, <1>4, <1>6 DEF ResponsesTyped
<1>8. Alone(c)
  BY <1>1, <1>4, <1>6 DEF Alone, ResponsesTyped
<1>9. NamesMade(c)
  <2>1. ASSUME NEW j \in call[c].id
        PROVE  /\ server[j] # "none"
               /\ \A d \in Calls \ {c} : Making(call[d]) => j \notin call[d].id
    BY <1>1 DEF IdsMade, CallRecords, ResponsesInv, CreatesAlone, OwnAlone
  <2> QED BY <1>1, <1>4, <1>6, <1>8, <2>1 DEF NamesMade, CallRecords, Alone
<1>10. CallAt(w)
  BY <1>1, <1>4 DEF CallAt, CallRecords
<1>11. SpanAt(c, w, held[c], cleaned', span[c], first'[c])
  BY <1>1, <1>4 DEF SpanAt, CallAt, CallRecords, SpanRecords
<1>12. UsageKnown(w, span[c], early')
  BY <1>1, <1>4 DEF UsageKnown, CallRecords, CallAt
<1>13. OwnAlone(c, call', held[c], responses')
  BY <1>1, <1>4, <1>6 DEF OwnAlone, Making, CallRecords
<1>14. CancelsCounted'
  <2>1. \A j \in Ids : Cancelled(w, span[c], j) <=> Cancelled(call[c], span[c], j)
    BY <1>1, <1>4 DEF Cancelled, CallRecords, SpanRecords, CallAt, SpanAt
  <2> QED BY <1>4, <1>6, <1>8, <2>1, CancelsStill
<1> HIDE DEF w
<1>15. CallsAccounted'
  BY <1>6, <1>8, <1>10, <1>11, <1>12, CallsStill
<1>16. IdsMade' /\ CreatesAlone'
  BY <1>6, <1>8, <1>9, <1>13, MadeStill, CreatesStill
<1> QED BY <1>7, <1>14, <1>15, <1>16 DEF ResponsesInv

LEMMA MergeKeeps ==
  ASSUME ResponsesInv, NEW c \in Calls, ResponseCalls!Merge(c)
  PROVE  ResponsesInv'
<1>1. /\ ResponsesTyped /\ CallAt(call[c])
      /\ SpanAt(c, call[c], held[c], cleaned, span[c], first[c])
      /\ OwnAlone(c, call, held[c], responses) /\ IdsMade
      /\ call[c] \in CallRecords /\ span[c] \in SpanRecords /\ held[c] \in EntryOrNone
  BY DEF ResponsesInv, ResponsesTyped, CallsAccounted, CreatesAlone
<1>2. PICK i \in call[c].id :
        /\ held' = [held EXCEPT ![c] = responses[i]]
        /\ call' = [call EXCEPT ![c] = [call[c] EXCEPT !.pc = IF responses[i] # <<>> /\ ~responses[i][1].tools
                                     THEN "broken" ELSE "merged"]]
  BY DEF ResponseCalls!Merge, ResponseCalls!Goto
<1>3. i \in Ids /\ responses[i] \in EntryOrNone
  BY <1>1 DEF CallRecords, ResponsesTyped
<1> DEFINE w == [call[c] EXCEPT !.pc = IF responses[i] # <<>> /\ ~responses[i][1].tools
                                     THEN "broken" ELSE "merged"]
<1>4. /\ call[c].pc = "answered"
      /\ call' = [call EXCEPT ![c] = w]
      /\ held' = [held EXCEPT ![c] = responses[i]]
      /\ span' = span
      /\ UNCHANGED <<foreign, seen, cleaned, first, server, responses, early, stored>>
  BY <1>1, <1>2 DEF ResponseCalls!Merge, ResponseCalls!At, ResponseCalls!stream
<1>5. w \in CallRecords
  BY <1>1, <1>3 DEF CallRecords
<1>6. /\ call'[c] = w /\ held'[c] = responses[i] /\ span'[c] = span[c]
      /\ call' \in [Calls -> CallRecords] /\ span' \in [Calls -> SpanRecords]
      /\ held' \in [Calls -> EntryOrNone]
      /\ \A d \in Calls \ {c} : call'[d] = call[d] /\ held'[d] = held[d] /\ span'[d] = span[d]
  BY <1>1, <1>4, <1>5, <1>3 DEF ResponsesTyped
<1>7. ResponsesTyped'
  BY <1>1, <1>4, <1>6 DEF ResponsesTyped
<1>8. Alone(c)
  BY <1>1, <1>4, <1>6 DEF Alone, ResponsesTyped
<1>9. NamesMade(c)
  <2>1. ASSUME NEW j \in call[c].id
        PROVE  /\ server[j] # "none"
               /\ \A d \in Calls \ {c} : Making(call[d]) => j \notin call[d].id
    BY <1>1 DEF IdsMade, CallRecords, ResponsesInv, CreatesAlone, OwnAlone
  <2> QED BY <1>1, <1>4, <1>6, <1>8, <2>1 DEF NamesMade, CallRecords, Alone
<1>10. CallAt(w)
  BY <1>1, <1>2, <1>4 DEF CallAt, CallRecords, OwnAlone, Making
<1>11. SpanAt(c, w, responses[i], cleaned', span[c], first'[c])
  BY <1>1, <1>4 DEF SpanAt, CallAt, CallRecords, SpanRecords
<1>12. UsageKnown(w, span[c], early')
  BY <1>1, <1>4 DEF UsageKnown, CallRecords, CallAt
<1>13. OwnAlone(c, call', responses[i], responses')
  BY <1>1, <1>2, <1>4, <1>6 DEF OwnAlone, Making, CallRecords
<1>14. CancelsCounted'
  <2>1. \A j \in Ids : Cancelled(w, span[c], j) <=> Cancelled(call[c], span[c], j)
    BY <1>1, <1>4 DEF Cancelled, CallRecords, SpanRecords, CallAt, SpanAt
  <2> QED BY <1>4, <1>6, <1>8, <2>1, CancelsStill
<1> HIDE DEF w
<1>15. CallsAccounted'
  BY <1>6, <1>8, <1>10, <1>11, <1>12, CallsStill
<1>16. IdsMade' /\ CreatesAlone'
  BY <1>6, <1>8, <1>9, <1>13, MadeStill, CreatesStill
<1> QED BY <1>7, <1>14, <1>15, <1>16 DEF ResponsesInv

LEMMA KeepKeeps ==
  ASSUME ResponsesInv, NEW c \in Calls, ResponseCalls!Keep(c)
  PROVE  ResponsesInv'
<1>1. /\ ResponsesTyped /\ CallAt(call[c])
      /\ SpanAt(c, call[c], held[c], cleaned, span[c], first[c])
      /\ OwnAlone(c, call, held[c], responses) /\ IdsMade
      /\ call[c] \in CallRecords /\ span[c] \in SpanRecords /\ held[c] \in EntryOrNone
  BY DEF ResponsesInv, ResponsesTyped, CallsAccounted, CreatesAlone
<1> DEFINE data == ResponseCalls!Merged(c)
<1>2. PICK i \in call[c].id : ResponseCalls!Store(i, data)
  BY DEF ResponseCalls!Keep
<1>3. i \in Ids /\ call[c].id = {i}
  BY <1>1, <1>2 DEF CallRecords, CallAt
<1>4. /\ data \in DataRecords
      /\ data.input <=> IF held[c] = <<>> THEN call[c].input ELSE held[c][1].input
  <2>1. CASE held[c] = <<>>
    <3>1. call[c].tools \in BOOLEAN /\ call[c].input \in BOOLEAN
      BY <1>1 DEF CallRecords
    <3>2. /\ ResponseCalls!Merged(c).input = call[c].input
          /\ ResponseCalls!Merged(c) \in DataRecords
      BY <2>1, <3>1 DEF ResponseCalls!Merged, ResponseCalls!Data, DataRecords
    <3> QED BY <2>1, <3>2 DEF data
  <2>2. CASE held[c] # <<>>
    <3>1. held[c][1] \in DataRecords
      BY <1>1, <2>2 DEF EntryOrNone
    <3>2. /\ [held[c][1] EXCEPT !.tools = TRUE] \in DataRecords
          /\ [held[c][1] EXCEPT !.tools = TRUE].input = held[c][1].input
      BY <3>1 DEF DataRecords
    <3> QED BY <2>2, <3>2 DEF ResponseCalls!Merged, data
  <2> QED BY <2>1, <2>2
<1> HIDE DEF data
<1>5. /\ responses' = [responses EXCEPT ![i] = <<data>>]
      /\ stored' = [stored EXCEPT ![i] = @ + 1]
      /\ early' = IF data.usage THEN early ELSE early \cup {i}
  BY <1>2 DEF ResponseCalls!Store
<1>6. IF call[c].status # "completed"
      THEN call' = [call EXCEPT ![c] = [call[c] EXCEPT !.pc = "returned"]] /\ span' = span
      ELSE IF data.input
        THEN /\ call' = [call EXCEPT ![c] = [call[c] EXCEPT !.pc = "returned"]]
             /\ span' = [span EXCEPT ![c] =
                  [on |-> span[c].on, ends |-> span[c].ends + 1, status |-> "unset",
                   usage |-> data.usage, parent |-> span[c].parent]]
        ELSE call' = [call EXCEPT ![c] = [call[c] EXCEPT !.pc = "broken"]] /\ span' = span
  BY DEF ResponseCalls!Keep, ResponseCalls!Goto, ResponseCalls!Ended, data
<1> DEFINE w == [call[c] EXCEPT !.pc = IF call[c].status = "completed" /\ ~data.input
                                     THEN "broken" ELSE "returned"]
<1> DEFINE s == IF call[c].status = "completed" /\ data.input
                   THEN [on |-> span[c].on, ends |-> span[c].ends + 1, status |-> "unset",
                         usage |-> data.usage, parent |-> span[c].parent]
                   ELSE span[c]
<1>7. /\ call[c].pc = "merged"
      /\ call' = [call EXCEPT ![c] = w]
      /\ held' = held
      /\ span' = [span EXCEPT ![c] = s]
      /\ UNCHANGED <<foreign, seen, cleaned, first, server>>
  BY <1>1, <1>6 DEF ResponseCalls!Keep, ResponseCalls!At, ResponseCalls!stream, ResponsesTyped
<1>8. w \in CallRecords
  BY <1>1, <1>3, <1>4 DEF CallRecords
<1>9. s \in SpanRecords
  BY <1>1, <1>7, <1>3, <1>4 DEF SpanRecords, SpanAt, DataRecords
<1>10. /\ call'[c] = w /\ held'[c] = held[c] /\ span'[c] = s
       /\ call' \in [Calls -> CallRecords] /\ span' \in [Calls -> SpanRecords]
       /\ held' \in [Calls -> EntryOrNone]
       /\ \A d \in Calls \ {c} : call'[d] = call[d] /\ held'[d] = held[d] /\ span'[d] = span[d]
  BY <1>1, <1>7, <1>8, <1>9, <1>3, <1>4 DEF ResponsesTyped
<1>11. ResponsesTyped'
  <2>1. responses' \in [Ids -> EntryOrNone] /\ stored' \in [Ids -> Nat] /\ early' \subseteq Ids
    BY <1>1, <1>3, <1>4, <1>5 DEF ResponsesTyped, EntryOrNone
  <2> QED BY <1>1, <1>7, <1>10, <2>1 DEF ResponsesTyped
<1>12. Alone(c)
  <2>1. early \subseteq early' /\ \A j \in Ids : j # i => responses'[j] = responses[j]
    BY <1>1, <1>3, <1>5 DEF ResponsesTyped
  <2>2. call'[c].id = {i}
    BY <1>1, <1>3, <1>10 DEF CallRecords
  <2> QED BY <1>1, <1>7, <1>10, <2>1, <2>2 DEF Alone
<1>13. NamesMade(c)
  <2>1. ASSUME NEW j \in call[c].id
        PROVE  /\ server[j] # "none"
               /\ \A d \in Calls \ {c} : Making(call[d]) => j \notin call[d].id
    BY <1>1 DEF IdsMade, CallRecords, ResponsesInv, CreatesAlone, OwnAlone
  <2> QED BY <1>1, <1>7, <1>10, <1>12, <2>1 DEF NamesMade, CallRecords, Alone
<1>14. CallAt(w)
  BY <1>1, <1>4, <1>7 DEF CallAt, CallRecords, OwnAlone, Making
<1>15. SpanAt(c, w, held[c], cleaned', s, first'[c])
  BY <1>1, <1>4, <1>7 DEF SpanAt, CallAt, CallRecords, SpanRecords
<1>16. UsageKnown(w, s, early')
  BY <1>1, <1>3, <1>4, <1>5, <1>7 DEF UsageKnown, CallRecords, DataRecords
<1>17. OwnAlone(c, call', held[c], responses')
  BY <1>1, <1>7, <1>10 DEF OwnAlone, Making, CallRecords
<1>18. CancelsCounted'
  <2>1. \A j \in Ids : Cancelled(w, s, j) <=> Cancelled(call[c], span[c], j)
    BY <1>1, <1>7 DEF Cancelled, CallRecords, SpanRecords, CallAt, SpanAt
  <2> HIDE DEF w, s
  <2>2. \A j \in Ids : Cancelled(call'[c], span'[c], j) <=> Cancelled(call[c], span[c], j)
    BY <1>10, <2>1
  <2> QED BY ONLY ResponsesInv, c \in Calls, <1>3, <1>5, <1>12, <2>2, CancelsStored
<1> HIDE DEF w, s
<1>19. CallsAccounted'
  BY <1>10, <1>12, <1>14, <1>15, <1>16, CallsStill
<1>20. IdsMade' /\ CreatesAlone'
  BY <1>10, <1>12, <1>13, <1>17, MadeStill, CreatesStill
<1> QED BY <1>11, <1>18, <1>19, <1>20 DEF ResponsesInv

LEMMA CancelAnswerKeeps ==
  ASSUME ResponsesInv, NEW c \in Calls, ResponseCalls!CancelAnswer(c)
  PROVE  ResponsesInv'
<1>1. /\ ResponsesTyped /\ CallAt(call[c])
      /\ SpanAt(c, call[c], held[c], cleaned, span[c], first[c])
      /\ OwnAlone(c, call, held[c], responses) /\ IdsMade
      /\ call[c] \in CallRecords /\ span[c] \in SpanRecords /\ held[c] \in EntryOrNone
  BY DEF ResponsesInv, ResponsesTyped, CallsAccounted, CreatesAlone
<1>2. PICK i \in call[c].id :
        server' = [server EXCEPT ![i] = IF @ = "working" THEN "cancelled" ELSE @]
  BY DEF ResponseCalls!CancelAnswer
<1>3. /\ server' \in [Ids -> {"none", "working", "completed", "cancelled"}]
      /\ \A j \in Ids : server'[j] = "none" => server[j] = "none"
  BY <1>1, <1>2 DEF ResponsesTyped, CallRecords
<1> DEFINE w == [call[c] EXCEPT !.pc = "cancelled"]
<1>4. /\ call[c].pc = "calling" /\ call[c].kind = "cancel"
      /\ call' = [call EXCEPT ![c] = w]
      /\ held' = held
      /\ span' = span
      /\ UNCHANGED <<foreign, seen, cleaned, first, responses, early, stored>>
  BY <1>1 DEF ResponseCalls!CancelAnswer, ResponseCalls!At, ResponseCalls!stream,
     ResponseCalls!Goto
<1>5. w \in CallRecords
  BY <1>1 DEF CallRecords
<1>6. /\ call'[c] = w /\ held'[c] = held[c] /\ span'[c] = span[c]
      /\ call' \in [Calls -> CallRecords] /\ span' \in [Calls -> SpanRecords]
      /\ held' \in [Calls -> EntryOrNone]
      /\ \A d \in Calls \ {c} : call'[d] = call[d] /\ held'[d] = held[d] /\ span'[d] = span[d]
  BY <1>1, <1>4, <1>5 DEF ResponsesTyped
<1>7. ResponsesTyped'
  BY <1>1, <1>3, <1>4, <1>6 DEF ResponsesTyped
<1>8. Alone(c)
  BY <1>1, <1>3, <1>4, <1>6 DEF Alone, ResponsesTyped
<1>9. NamesMade(c)
  <2>1. ASSUME NEW j \in call[c].id
        PROVE  /\ server[j] # "none"
               /\ \A d \in Calls \ {c} : Making(call[d]) => j \notin call[d].id
    BY <1>1 DEF IdsMade, CallRecords, ResponsesInv, CreatesAlone, OwnAlone
  <2> QED BY <1>1, <1>4, <1>6, <1>8, <2>1 DEF NamesMade, CallRecords, Alone
<1>10. CallAt(w)
  BY <1>1, <1>2, <1>4 DEF CallAt, CallRecords
<1>11. SpanAt(c, w, held[c], cleaned', span[c], first'[c])
  BY <1>1, <1>4 DEF SpanAt, CallAt, CallRecords, SpanRecords
<1>12. UsageKnown(w, span[c], early')
  BY <1>1, <1>4 DEF UsageKnown, CallRecords, CallAt
<1>13. OwnAlone(c, call', held[c], responses')
  BY <1>1, <1>4, <1>6 DEF OwnAlone, Making, CallRecords
<1>14. CancelsCounted'
  <2>1. \A j \in Ids : Cancelled(w, span[c], j) <=> Cancelled(call[c], span[c], j)
    BY <1>1, <1>4 DEF Cancelled, CallRecords, SpanRecords, CallAt, SpanAt
  <2> QED BY <1>4, <1>6, <1>8, <2>1, CancelsStill
<1> HIDE DEF w
<1>15. CallsAccounted'
  BY <1>6, <1>8, <1>10, <1>11, <1>12, CallsStill
<1>16. IdsMade' /\ CreatesAlone'
  BY <1>6, <1>8, <1>9, <1>13, MadeStill, CreatesStill
<1> QED BY <1>7, <1>14, <1>15, <1>16 DEF ResponsesInv

LEMMA PopKeeps ==
  ASSUME ResponsesInv, NEW c \in Calls, ResponseCalls!Pop(c)
  PROVE  ResponsesInv'
<1>1. /\ ResponsesTyped /\ CallAt(call[c])
      /\ SpanAt(c, call[c], held[c], cleaned, span[c], first[c])
      /\ OwnAlone(c, call, held[c], responses) /\ IdsMade
      /\ call[c] \in CallRecords /\ span[c] \in SpanRecords /\ held[c] \in EntryOrNone
  BY DEF ResponsesInv, ResponsesTyped, CallsAccounted, CreatesAlone
<1>2. PICK i \in call[c].id :
        /\ responses' = [responses EXCEPT ![i] = <<>>]
        /\ IF responses[i] = <<>> THEN ResponseCalls!Goto(c, "returned") /\ UNCHANGED span
           ELSE LET data == responses[i][1] IN
            /\ ResponseCalls!Goto(c, IF data.input THEN "returned" ELSE "broken")
            /\ span' = [span EXCEPT ![c] =
                 [on |-> TRUE, ends |-> IF data.input THEN @.ends + 1 ELSE @.ends,
                  status |-> @.status, usage |-> data.usage,
                  parent |-> IF data.context = {} THEN {c} ELSE data.context]]
  BY DEF ResponseCalls!Pop
<1>3. /\ i \in Ids /\ call[c].id = {i} /\ responses[i] \in EntryOrNone
      /\ responses[i] # <<>> => responses[i][1] \in DataRecords
  BY <1>1, <1>2 DEF CallRecords, CallAt, ResponsesTyped, EntryOrNone
<1> DEFINE w == [call[c] EXCEPT !.pc = IF responses[i] = <<>> \/ responses[i][1].input
                                     THEN "returned" ELSE "broken"]
<1> DEFINE s == IF responses[i] = <<>> THEN span[c]
                ELSE [on |-> TRUE,
                      ends |-> IF responses[i][1].input THEN span[c].ends + 1 ELSE span[c].ends,
                      status |-> span[c].status, usage |-> responses[i][1].usage,
                      parent |-> IF responses[i][1].context = {} THEN {c}
                                                                 ELSE responses[i][1].context]
<1>4. /\ call[c].pc = "cancelled"
      /\ call' = [call EXCEPT ![c] = w]
      /\ held' = held
      /\ span' = [span EXCEPT ![c] = s]
      /\ UNCHANGED <<foreign, seen, cleaned, first, server, early, stored>>
  BY <1>1, <1>2 DEF ResponseCalls!Pop, ResponseCalls!At, ResponseCalls!stream,
     ResponseCalls!Goto, ResponsesTyped
<1>5. w \in CallRecords
  BY <1>1, <1>3 DEF CallRecords
<1>6. s \in SpanRecords
  BY <1>1, <1>4, <1>3 DEF SpanRecords, SpanAt, DataRecords
<1>7. /\ call'[c] = w /\ held'[c] = held[c] /\ span'[c] = s
      /\ call' \in [Calls -> CallRecords] /\ span' \in [Calls -> SpanRecords]
      /\ held' \in [Calls -> EntryOrNone]
      /\ \A d \in Calls \ {c} : call'[d] = call[d] /\ held'[d] = held[d] /\ span'[d] = span[d]
  BY <1>1, <1>4, <1>5, <1>6, <1>3 DEF ResponsesTyped
<1>8. ResponsesTyped'
  <2>1. responses' \in [Ids -> EntryOrNone]
    BY <1>1, <1>2, <1>3 DEF ResponsesTyped, EntryOrNone
  <2> QED BY <1>1, <1>4, <1>7, <2>1 DEF ResponsesTyped
<1>9. Alone(c)
  <2>1. \A j \in Ids : j # i => responses'[j] = responses[j]
    BY <1>1, <1>2, <1>3 DEF ResponsesTyped
  <2>2. call'[c].id = {i}
    BY <1>1, <1>3, <1>7 DEF CallRecords
  <2> QED BY <1>1, <1>4, <1>7, <2>1, <2>2 DEF Alone
<1>10. NamesMade(c)
  <2>1. ASSUME NEW j \in call[c].id
        PROVE  /\ server[j] # "none"
               /\ \A d \in Calls \ {c} : Making(call[d]) => j \notin call[d].id
    BY <1>1 DEF IdsMade, CallRecords, ResponsesInv, CreatesAlone, OwnAlone
  <2> QED BY <1>1, <1>4, <1>7, <1>9, <2>1 DEF NamesMade, CallRecords, Alone
<1>11. CallAt(w)
  BY <1>1, <1>4 DEF CallAt, CallRecords
<1>12. SpanAt(c, w, held[c], cleaned', s, first'[c])
  BY <1>1, <1>3, <1>4 DEF SpanAt, CallAt, CallRecords, SpanRecords, DataRecords
<1>13. UsageKnown(w, s, early')
  BY <1>1, <1>4 DEF UsageKnown, CallRecords, CallAt
<1>14. OwnAlone(c, call', held[c], responses')
  BY <1>1, <1>4, <1>7 DEF OwnAlone, Making, CallRecords
<1>15. CancelsCounted'
  <2>1. /\ \A j \in Ids \ {i} : Cancelled(w, s, j) <=> Cancelled(call[c], span[c], j)
        /\ ~Cancelled(call[c], span[c], i)
        /\ Cancelled(w, s, i) => responses[i] # <<>>
    BY <1>1, <1>3, <1>4 DEF Cancelled, CallRecords, SpanAt
  <2> HIDE DEF w, s
  <2>2. /\ \A j \in Ids \ {i} : Cancelled(call'[c], span'[c], j) <=> Cancelled(call[c], span[c], j)
        /\ Cancelled(call'[c], span'[c], i) => responses[i] # <<>>
    BY <1>7, <2>1
  <2> QED BY <1>2, <1>3, <1>4, <1>9, <2>1, <2>2, CancelsPopped
<1> HIDE DEF w, s
<1>16. CallsAccounted'
  BY <1>7, <1>9, <1>11, <1>12, <1>13, CallsStill
<1>17. IdsMade' /\ CreatesAlone'
  BY <1>7, <1>9, <1>10, <1>14, MadeStill, CreatesStill
<1> QED BY <1>8, <1>15, <1>16, <1>17 DEF ResponsesInv

LEMMA OpenKeeps ==
  ASSUME ResponsesInv, NEW c \in Calls, ResponseCalls!Open(c)
  PROVE  ResponsesInv'
<1>1. /\ ResponsesTyped /\ CallAt(call[c])
      /\ SpanAt(c, call[c], held[c], cleaned, span[c], first[c])
      /\ OwnAlone(c, call, held[c], responses) /\ IdsMade
      /\ call[c] \in CallRecords /\ span[c] \in SpanRecords /\ held[c] \in EntryOrNone
  BY DEF ResponsesInv, ResponsesTyped, CallsAccounted, CreatesAlone
<1>2. PICK i \in Ids :
        /\ server[i] = "none" /\ server' = [server EXCEPT ![i] = "working"]
        /\ call' = [call EXCEPT ![c] = [@ EXCEPT !.pc = "reading", !.id = {i}]]
  BY DEF ResponseCalls!Open
<1> DEFINE h == IF \E j \in call[c].id : responses[j] # <<>>
                  THEN responses[CHOOSE j \in call[c].id : TRUE] ELSE <<>>
<1>3. h \in EntryOrNone
  <2>1. \A j \in call[c].id : responses[j] \in EntryOrNone
    BY <1>1 DEF CallRecords, ResponsesTyped
  <2>2. (\E j \in call[c].id : TRUE) => (CHOOSE j \in call[c].id : TRUE) \in call[c].id
    OBVIOUS
  <2> QED BY <2>1, <2>2 DEF EntryOrNone
<1>4. held' = [held EXCEPT ![c] = h]
  BY DEF ResponseCalls!Open
<1> HIDE DEF h
<1> DEFINE w == [call[c] EXCEPT !.pc = "reading", !.id = {i}]
<1>5. /\ call[c].pc = "calling" /\ call[c].kind = "stream" /\ server[i] = "none"
      /\ server' = [server EXCEPT ![i] = "working"]
      /\ call' = [call EXCEPT ![c] = w]
      /\ held' = [held EXCEPT ![c] = h]
      /\ span' = span
      /\ UNCHANGED <<foreign, seen, cleaned, first, responses, early, stored>>
  BY <1>1, <1>2, <1>4 DEF ResponseCalls!Open, ResponseCalls!At, ResponseCalls!stream
<1>6. w \in CallRecords
  BY <1>1, <1>3 DEF CallRecords
<1>7. /\ call'[c] = w /\ held'[c] = h /\ span'[c] = span[c]
      /\ call' \in [Calls -> CallRecords] /\ span' \in [Calls -> SpanRecords]
      /\ held' \in [Calls -> EntryOrNone]
      /\ \A d \in Calls \ {c} : call'[d] = call[d] /\ held'[d] = held[d] /\ span'[d] = span[d]
  BY <1>1, <1>5, <1>6, <1>3 DEF ResponsesTyped
<1>8. ResponsesTyped'
  BY <1>1, <1>5, <1>7 DEF ResponsesTyped
<1>9. Alone(c)
  BY <1>1, <1>5, <1>7 DEF Alone, ResponsesTyped
<1>10. NamesMade(c)
  BY <1>1, <1>5, <1>7 DEF NamesMade, IdsMade, ResponsesTyped
<1>11. CallAt(w)
  BY <1>1, <1>5 DEF CallAt, CallRecords
<1>12. SpanAt(c, w, h, cleaned', span[c], first'[c])
  BY <1>1, <1>5 DEF SpanAt, CallAt, CallRecords, SpanRecords
<1>13. UsageKnown(w, span[c], early')
  BY <1>1, <1>5 DEF UsageKnown, CallRecords, CallAt
<1>14. OwnAlone(c, call', h, responses')
  BY <1>1, <1>5, <1>7 DEF OwnAlone, Making, CallRecords
<1>15. CancelsCounted'
  <2>1. \A j \in Ids : Cancelled(w, span[c], j) <=> Cancelled(call[c], span[c], j)
    BY <1>1, <1>5 DEF Cancelled, CallRecords, SpanRecords, CallAt, SpanAt
  <2> QED BY <1>5, <1>7, <1>9, <2>1, CancelsStill
<1> HIDE DEF w
<1>16. CallsAccounted'
  BY <1>7, <1>9, <1>11, <1>12, <1>13, CallsStill
<1>17. IdsMade' /\ CreatesAlone'
  BY <1>7, <1>9, <1>10, <1>14, MadeStill, CreatesStill
<1> QED BY <1>8, <1>15, <1>16, <1>17 DEF ResponsesInv

LEMMA ChunkKeeps ==
  ASSUME ResponsesInv, NEW c \in Calls, ResponseCalls!Chunk(c)
  PROVE  ResponsesInv'
<1>1. /\ ResponsesTyped /\ CallAt(call[c])
      /\ SpanAt(c, call[c], held[c], cleaned, span[c], first[c])
      /\ OwnAlone(c, call, held[c], responses) /\ IdsMade
      /\ call[c] \in CallRecords /\ span[c] \in SpanRecords /\ held[c] \in EntryOrNone
  BY DEF ResponsesInv, ResponsesTyped, CallsAccounted, CreatesAlone
<1>2. /\ call[c].pc = "reading"
      /\ call' = call
      /\ held' = held
      /\ span' = span
      /\ UNCHANGED <<foreign, cleaned, first, server, responses, early, stored>>
  BY <1>1 DEF ResponseCalls!Chunk, ResponseCalls!At, ResponseCalls!stream
<1>3. /\ call'[c] = call[c] /\ held'[c] = held[c] /\ span'[c] = span[c]
      /\ call' \in [Calls -> CallRecords] /\ span' \in [Calls -> SpanRecords]
      /\ held' \in [Calls -> EntryOrNone]
      /\ \A d \in Calls \ {c} : call'[d] = call[d] /\ held'[d] = held[d] /\ span'[d] = span[d]
  BY <1>1, <1>2 DEF ResponsesTyped
<1>4. ResponsesTyped'
  <2>1. seen' \in [Calls -> {"nothing", "begun", "complete"}]
    BY <1>1 DEF ResponseCalls!Chunk, ResponsesTyped
  <2> QED BY <1>1, <1>2, <1>3, <2>1 DEF ResponsesTyped
<1>5. Alone(c)
  BY <1>1, <1>2, <1>3 DEF Alone, ResponsesTyped
<1>6. NamesMade(c)
  <2>1. ASSUME NEW i \in call[c].id
        PROVE  /\ server[i] # "none"
               /\ \A d \in Calls \ {c} : Making(call[d]) => i \notin call[d].id
    BY <1>1 DEF IdsMade, CallRecords, ResponsesInv, CreatesAlone, OwnAlone
  <2> QED BY <1>1, <1>2, <1>3, <1>5, <2>1 DEF NamesMade, CallRecords, Alone
<1>7. CallAt(call[c])
  BY <1>1
<1>8. SpanAt(c, call[c], held[c], cleaned', span[c], first'[c])
  BY <1>1, <1>2 DEF SpanAt, CallAt, CallRecords, SpanRecords
<1>9. UsageKnown(call[c], span[c], early')
  BY <1>1, <1>2 DEF UsageKnown, CallRecords
<1>10. OwnAlone(c, call', held[c], responses')
  BY <1>1, <1>2, <1>3 DEF OwnAlone, Making, CallRecords
<1>11. CancelsCounted'
  <2>1. \A i \in Ids : Cancelled(call[c], span[c], i) <=> Cancelled(call[c], span[c], i)
    BY <1>1, <1>2 DEF Cancelled, CallRecords, SpanRecords, CallAt, SpanAt
  <2> QED BY <1>2, <1>3, <1>5, <2>1, CancelsStill
<1>12. CallsAccounted'
  BY <1>3, <1>5, <1>7, <1>8, <1>9, CallsStill
<1>13. IdsMade' /\ CreatesAlone'
  BY <1>3, <1>5, <1>6, <1>10, MadeStill, CreatesStill
<1> QED BY <1>4, <1>11, <1>12, <1>13 DEF ResponsesInv

\* What the data of a stream is made of.
LEMMA StreamedData ==
  ASSUME ResponsesTyped, NEW c \in Calls
  PROVE  /\ ResponseCalls!Streamed(c) \in DataRecords
         /\ ResponseCalls!Streamed(c).input <=> (held[c] = <<>> \/ held[c][1].input)
<1>1. held[c] \in EntryOrNone /\ call[c].tools \in BOOLEAN
  BY DEF ResponsesTyped, CallRecords
<1>2. held[c] # <<>> => held[c][1] \in DataRecords
  BY <1>1 DEF EntryOrNone
<1> DEFINE context == IF held[c] = <<>> THEN {} ELSE held[c][1].context
<1>3. context \in SUBSET Calls
  BY <1>2 DEF DataRecords
<1>4. /\ (held[c] = <<>> \/ held[c][1].input) \in BOOLEAN
      /\ (call[c].tools \/ (held[c] # <<>> /\ held[c][1].tools)) \in BOOLEAN
      /\ (seen[c] = "complete" \/ (held[c] # <<>> /\ held[c][1].usage)) \in BOOLEAN
  OBVIOUS
<1> HIDE DEF context
<1>5. ASSUME NEW input \in BOOLEAN, NEW tools \in BOOLEAN, NEW known \in BOOLEAN,
             NEW x \in SUBSET Calls
      PROVE  /\ ResponseCalls!Data(input, tools, known, x) \in DataRecords
             /\ ResponseCalls!Data(input, tools, known, x).input = input
  BY DEF ResponseCalls!Data, DataRecords
<1> QED BY <1>3, <1>4, <1>5 DEF ResponseCalls!Streamed, context

\* The first end sets the flag, and any other changes nothing.
LEMMA FinishFirst ==
  ASSUME ResponsesInv, NEW c \in Calls, NEW how \in {"complete", "exception", "cleanup"},
         NEW status \in {"none", "ok", "error"}, call[c].pc = "reading",
         ResponseCalls!Finish(c, how, status)
  PROVE  /\ cleaned' \subseteq Calls /\ span' \in [Calls -> SpanRecords]
         /\ first' \in [Calls -> {"none", "complete", "exception", "cleanup"}]
         /\ \A d \in Calls \ {c} : /\ span'[d] = span[d] /\ first'[d] = first[d]
                                  /\ (d \in cleaned' <=> d \in cleaned)
         /\ span'[c].on = span[c].on /\ c \in cleaned'
         /\ c \in cleaned => span'[c] = span[c] /\ first'[c] = first[c]
         /\ c \notin cleaned =>
              /\ first'[c] = how
              /\ IF status = "none" THEN span'[c].ends = 0
                 ELSE span'[c].ends = 1 /\ span'[c].status = status
<1>1. /\ ResponsesTyped /\ SpanAt(c, call[c], held[c], cleaned, span[c], first[c])
      /\ span[c] \in SpanRecords
  BY DEF ResponsesInv, ResponsesTyped, CallsAccounted
<1>2. CASE c \in cleaned
  BY <1>1, <1>2 DEF ResponseCalls!Finish, ResponsesTyped
<1>3. CASE c \notin cleaned
  <2> DEFINE s == [on |-> span[c].on, ends |-> span[c].ends + 1, status |-> status,
                   usage |-> ResponseCalls!Streamed(c).usage, parent |-> span[c].parent]
  <2>1. /\ cleaned' = cleaned \cup {c} /\ span[c].ends = 0 /\ first[c] = "none"
        /\ first' = [first EXCEPT ![c] = how]
        /\ span' = IF status = "none" THEN span ELSE [span EXCEPT ![c] = s]
    BY <1>1, <1>3 DEF ResponseCalls!Finish, ResponseCalls!Ended, SpanAt, ResponsesTyped
  <2>2. status # "none" => s \in SpanRecords /\ s.ends = 1 /\ s.status = status /\ s.on = span[c].on
    BY <1>1, <2>1, StreamedData DEF SpanRecords, DataRecords
  <2> HIDE DEF s
  <2> QED BY <1>1, <1>3, <2>1, <2>2 DEF ResponsesTyped
<1> QED BY <1>2, <1>3

LEMMA CompleteKeeps ==
  ASSUME ResponsesInv, NEW c \in Calls, ResponseCalls!Complete(c)
  PROVE  ResponsesInv'
<1>1. /\ ResponsesTyped /\ CallAt(call[c])
      /\ SpanAt(c, call[c], held[c], cleaned, span[c], first[c])
      /\ OwnAlone(c, call, held[c], responses) /\ IdsMade /\ UsageKnown(call[c], span[c], early)
      /\ call[c] \in CallRecords /\ span[c] \in SpanRecords /\ held[c] \in EntryOrNone
  BY DEF ResponsesInv, ResponsesTyped, CallsAccounted, CreatesAlone
<1> DEFINE status == IF ResponseCalls!Streamed(c).input THEN "ok" ELSE "error"
<1>2. status \in {"none", "ok", "error"} /\ call[c].pc = "reading"
  BY DEF ResponseCalls!Complete, ResponseCalls!At
<1>3. ResponseCalls!Finish(c, "complete", status)
  BY DEF ResponseCalls!Complete
<1>4. (held[c] = <<>> \/ held[c][1].input) <=> ResponseCalls!Streamed(c).input
  BY <1>1, StreamedData
<1>5. status = IF held[c] = <<>> \/ held[c][1].input THEN "ok" ELSE "error"
  BY <1>4
<1> HIDE DEF status
<1>6. /\ cleaned' \subseteq Calls /\ span' \in [Calls -> SpanRecords]
      /\ first' \in [Calls -> {"none", "complete", "exception", "cleanup"}]
      /\ \A d \in Calls \ {c} : /\ span'[d] = span[d] /\ first'[d] = first[d]
                               /\ (d \in cleaned' <=> d \in cleaned)
      /\ span'[c].on = span[c].on /\ c \in cleaned'
      /\ c \in cleaned => span'[c] = span[c] /\ first'[c] = first[c]
      /\ c \notin cleaned =>
           /\ first'[c] = "complete"
           /\ IF status = "none" THEN span'[c].ends = 0
              ELSE span'[c].ends = 1 /\ span'[c].status = status
  BY <1>2, <1>3, FinishFirst
<1>7. span'[c] \in SpanRecords
  BY <1>6
<1>8. /\ UNCHANGED <<foreign, server, held, seen>>
      /\ call' \in [Calls -> CallRecords] /\ \A d \in Calls \ {c} : call'[d] = call[d]
      /\ call'[c].id = call[c].id /\ call'[c].kind = call[c].kind
      /\ call'[c].status = call[c].status /\ call'[c].pc \in {"reading", "gone"}
  BY <1>1, <1>2 DEF ResponseCalls!Complete, ResponseCalls!Goto, ResponsesTyped, CallRecords
<1>9. \/ UNCHANGED <<responses, early, stored>>
      \/ \E i \in call[c].id : ResponseCalls!Store(i, ResponseCalls!Streamed(c))
  BY DEF ResponseCalls!Complete
<1>10. /\ responses' \in [Ids -> EntryOrNone] /\ stored' \in [Ids -> Nat] /\ early' \subseteq Ids
       /\ early \subseteq early'
       /\ \A i \in Ids : i \notin call[c].id => responses'[i] = responses[i]
  <2>1. CASE UNCHANGED <<responses, early, stored>>
    BY <1>1, <2>1 DEF ResponsesTyped
  <2>2. ASSUME NEW i \in call[c].id, ResponseCalls!Store(i, ResponseCalls!Streamed(c))
        PROVE  <1>10!:
    <3>1. i \in Ids /\ <<ResponseCalls!Streamed(c)>> \in EntryOrNone
      BY <1>1, StreamedData DEF CallRecords, EntryOrNone
    <3> QED BY <1>1, <2>2, <3>1 DEF ResponseCalls!Store, ResponsesTyped
  <2> QED BY <1>9, <2>1, <2>2
<1>11. ResponsesTyped'
  BY <1>1, <1>6, <1>10, <1>8 DEF ResponsesTyped
<1>12. Alone(c)
  BY <1>1, <1>6, <1>10, <1>8 DEF Alone, ResponsesTyped
<1>13. NamesMade(c)
  <2>1. ASSUME NEW i \in call[c].id
        PROVE  /\ server[i] # "none"
               /\ \A d \in Calls \ {c} : Making(call[d]) => i \notin call[d].id
    BY <1>1 DEF IdsMade, CallRecords, ResponsesInv, CreatesAlone, OwnAlone
  <2> QED BY <1>1, <1>8, <1>12, <2>1 DEF NamesMade, CallRecords, Alone
<1>14. CallAt(call'[c])
  BY <1>1, <1>2, <1>8 DEF CallAt
<1>15. SpanAt(c, call'[c], held'[c], cleaned', span'[c], first'[c])
  BY <1>1, <1>2, <1>5, <1>6, <1>7, <1>8 DEF SpanAt, SpanRecords
<1>16. UsageKnown(call'[c], span'[c], early')
  BY <1>8 DEF UsageKnown
<1>17. OwnAlone(c, call', held'[c], responses')
  BY <1>8 DEF OwnAlone, Making
<1>18. CancelsCounted'
  <2>1. \A i \in Ids : Cancelled(call'[c], span'[c], i) <=> Cancelled(call[c], span[c], i)
    BY <1>1, <1>6, <1>8 DEF Cancelled
  <2>2. CASE UNCHANGED <<responses, early, stored>>
    BY <1>12, <2>1, <2>2, CancelsStill
  <2>3. ASSUME NEW i \in call[c].id, ResponseCalls!Store(i, ResponseCalls!Streamed(c))
        PROVE  CancelsCounted'
    <3>1. /\ responses' = [responses EXCEPT ![i] = <<ResponseCalls!Streamed(c)>>]
          /\ stored' = [stored EXCEPT ![i] = @ + 1] /\ i \in Ids
      BY <1>1, <2>3 DEF ResponseCalls!Store, CallRecords
    <3> QED BY <1>12, <2>1, <3>1, CancelsStored
  <2> QED BY <1>9, <2>2, <2>3
<1>19. CallsAccounted'
  BY <1>8, <1>12, <1>14, <1>15, <1>16, CallsStill
<1>20. IdsMade' /\ CreatesAlone'
  BY <1>8, <1>12, <1>13, <1>17, MadeStill, CreatesStill
<1> QED BY <1>11, <1>18, <1>19, <1>20 DEF ResponsesInv

LEMMA BreakKeeps ==
  ASSUME ResponsesInv, NEW c \in Calls, ResponseCalls!Break(c)
  PROVE  ResponsesInv'
<1>1. /\ ResponsesTyped /\ CallAt(call[c])
      /\ SpanAt(c, call[c], held[c], cleaned, span[c], first[c])
      /\ OwnAlone(c, call, held[c], responses) /\ IdsMade /\ UsageKnown(call[c], span[c], early)
      /\ call[c] \in CallRecords /\ span[c] \in SpanRecords /\ held[c] \in EntryOrNone
  BY DEF ResponsesInv, ResponsesTyped, CallsAccounted, CreatesAlone
<1> DEFINE status == "error"
<1>2. status \in {"none", "ok", "error"} /\ call[c].pc = "reading"
  BY DEF ResponseCalls!Break, ResponseCalls!At
<1>3. ResponseCalls!Finish(c, "exception", status)
  BY DEF ResponseCalls!Break
<1>4. (held[c] = <<>> \/ held[c][1].input) <=> ResponseCalls!Streamed(c).input
  BY <1>1, StreamedData
<1>5. status = "error"
  BY <1>4
<1> HIDE DEF status
<1>6. /\ cleaned' \subseteq Calls /\ span' \in [Calls -> SpanRecords]
      /\ first' \in [Calls -> {"none", "complete", "exception", "cleanup"}]
      /\ \A d \in Calls \ {c} : /\ span'[d] = span[d] /\ first'[d] = first[d]
                               /\ (d \in cleaned' <=> d \in cleaned)
      /\ span'[c].on = span[c].on /\ c \in cleaned'
      /\ c \in cleaned => span'[c] = span[c] /\ first'[c] = first[c]
      /\ c \notin cleaned =>
           /\ first'[c] = "exception"
           /\ IF status = "none" THEN span'[c].ends = 0
              ELSE span'[c].ends = 1 /\ span'[c].status = status
  BY <1>2, <1>3, FinishFirst
<1>7. span'[c] \in SpanRecords
  BY <1>6
<1>8. /\ UNCHANGED <<foreign, server, held, seen>>
      /\ UNCHANGED <<responses, early, stored>>
      /\ call' \in [Calls -> CallRecords] /\ \A d \in Calls \ {c} : call'[d] = call[d]
      /\ call'[c].id = call[c].id /\ call'[c].kind = call[c].kind
      /\ call'[c].status = call[c].status /\ call'[c].pc \in {"reading", "gone"}
  BY <1>1, <1>2 DEF ResponseCalls!Break, ResponseCalls!Goto, ResponsesTyped, CallRecords
<1>9. ResponsesTyped'
  BY <1>1, <1>6, <1>8 DEF ResponsesTyped
<1>10. Alone(c)
  BY <1>1, <1>6, <1>8 DEF Alone, ResponsesTyped
<1>11. NamesMade(c)
  <2>1. ASSUME NEW i \in call[c].id
        PROVE  /\ server[i] # "none"
               /\ \A d \in Calls \ {c} : Making(call[d]) => i \notin call[d].id
    BY <1>1 DEF IdsMade, CallRecords, ResponsesInv, CreatesAlone, OwnAlone
  <2> QED BY <1>1, <1>8, <1>10, <2>1 DEF NamesMade, CallRecords, Alone
<1>12. CallAt(call'[c])
  BY <1>1, <1>2, <1>8 DEF CallAt
<1>13. SpanAt(c, call'[c], held'[c], cleaned', span'[c], first'[c])
  BY <1>1, <1>2, <1>5, <1>6, <1>7, <1>8 DEF SpanAt, SpanRecords
<1>14. UsageKnown(call'[c], span'[c], early')
  BY <1>8 DEF UsageKnown
<1>15. OwnAlone(c, call', held'[c], responses')
  BY <1>8 DEF OwnAlone, Making
<1>16. CancelsCounted'
  <2>1. \A i \in Ids : Cancelled(call'[c], span'[c], i) <=> Cancelled(call[c], span[c], i)
    BY <1>1, <1>6, <1>8 DEF Cancelled
  <2> QED BY <1>8, <1>10, <2>1, CancelsStill
<1>17. CallsAccounted'
  BY <1>8, <1>10, <1>12, <1>13, <1>14, CallsStill
<1>18. IdsMade' /\ CreatesAlone'
  BY <1>8, <1>10, <1>11, <1>15, MadeStill, CreatesStill
<1> QED BY <1>9, <1>16, <1>17, <1>18 DEF ResponsesInv

LEMMA CleanupKeeps ==
  ASSUME ResponsesInv, NEW c \in Calls, ResponseCalls!Cleanup(c)
  PROVE  ResponsesInv'
<1>1. /\ ResponsesTyped /\ CallAt(call[c])
      /\ SpanAt(c, call[c], held[c], cleaned, span[c], first[c])
      /\ OwnAlone(c, call, held[c], responses) /\ IdsMade /\ UsageKnown(call[c], span[c], early)
      /\ call[c] \in CallRecords /\ span[c] \in SpanRecords /\ held[c] \in EntryOrNone
  BY DEF ResponsesInv, ResponsesTyped, CallsAccounted, CreatesAlone
<1> DEFINE status == IF ResponseCalls!Streamed(c).input THEN "ok" ELSE "none"
<1>2. status \in {"none", "ok", "error"} /\ call[c].pc = "reading"
  BY DEF ResponseCalls!Cleanup, ResponseCalls!At
<1>3. ResponseCalls!Finish(c, "cleanup", status)
  BY DEF ResponseCalls!Cleanup
<1>4. (held[c] = <<>> \/ held[c][1].input) <=> ResponseCalls!Streamed(c).input
  BY <1>1, StreamedData
<1>5. status = IF held[c] = <<>> \/ held[c][1].input THEN "ok" ELSE "none"
  BY <1>4
<1> HIDE DEF status
<1>6. /\ cleaned' \subseteq Calls /\ span' \in [Calls -> SpanRecords]
      /\ first' \in [Calls -> {"none", "complete", "exception", "cleanup"}]
      /\ \A d \in Calls \ {c} : /\ span'[d] = span[d] /\ first'[d] = first[d]
                               /\ (d \in cleaned' <=> d \in cleaned)
      /\ span'[c].on = span[c].on /\ c \in cleaned'
      /\ c \in cleaned => span'[c] = span[c] /\ first'[c] = first[c]
      /\ c \notin cleaned =>
           /\ first'[c] = "cleanup"
           /\ IF status = "none" THEN span'[c].ends = 0
              ELSE span'[c].ends = 1 /\ span'[c].status = status
  BY <1>2, <1>3, FinishFirst
<1>7. span'[c] \in SpanRecords
  BY <1>6
<1>8. /\ UNCHANGED <<foreign, server, held, seen>>
      /\ UNCHANGED <<responses, early, stored>>
      /\ call' \in [Calls -> CallRecords] /\ \A d \in Calls \ {c} : call'[d] = call[d]
      /\ call'[c].id = call[c].id /\ call'[c].kind = call[c].kind
      /\ call'[c].status = call[c].status /\ call'[c].pc \in {"reading", "gone"}
  <2> DEFINE w == [call[c] EXCEPT !.pc = "gone"]
  <2>1. /\ w \in CallRecords /\ w.id = call[c].id /\ w.kind = call[c].kind
        /\ w.status = call[c].status /\ w.pc = "gone"
    BY <1>1 DEF CallRecords
  <2>2. /\ UNCHANGED <<responses, foreign, server, held, seen, early, stored>>
        /\ call' = call \/ call' = [call EXCEPT ![c] = w]
    BY DEF ResponseCalls!Cleanup, ResponseCalls!Goto
  <2> HIDE DEF w
  <2>3. call \in [Calls -> CallRecords]
    BY <1>1 DEF ResponsesTyped
  <2> QED BY <1>2, <2>1, <2>2, <2>3
<1>9. ResponsesTyped'
  BY <1>1, <1>6, <1>8 DEF ResponsesTyped
<1>10. Alone(c)
  BY <1>1, <1>6, <1>8 DEF Alone, ResponsesTyped
<1>11. NamesMade(c)
  <2>1. ASSUME NEW i \in call[c].id
        PROVE  /\ server[i] # "none"
               /\ \A d \in Calls \ {c} : Making(call[d]) => i \notin call[d].id
    BY <1>1 DEF IdsMade, CallRecords, ResponsesInv, CreatesAlone, OwnAlone
  <2> QED BY <1>1, <1>8, <1>10, <2>1 DEF NamesMade, CallRecords, Alone
<1>12. CallAt(call'[c])
  BY <1>1, <1>2, <1>8 DEF CallAt
<1>13. SpanAt(c, call'[c], held'[c], cleaned', span'[c], first'[c])
  BY <1>1, <1>2, <1>5, <1>6, <1>7, <1>8 DEF SpanAt, SpanRecords
<1>14. UsageKnown(call'[c], span'[c], early')
  BY <1>8 DEF UsageKnown
<1>15. OwnAlone(c, call', held'[c], responses')
  BY <1>8 DEF OwnAlone, Making
<1>16. CancelsCounted'
  <2>1. \A i \in Ids : Cancelled(call'[c], span'[c], i) <=> Cancelled(call[c], span[c], i)
    BY <1>1, <1>6, <1>8 DEF Cancelled
  <2> QED BY <1>8, <1>10, <2>1, CancelsStill
<1>17. CallsAccounted'
  BY <1>8, <1>10, <1>12, <1>13, <1>14, CallsStill
<1>18. IdsMade' /\ CreatesAlone'
  BY <1>8, <1>10, <1>11, <1>15, MadeStill, CreatesStill
<1> QED BY <1>9, <1>16, <1>17, <1>18 DEF ResponsesInv

LEMMA ResponsesStep ==
  ASSUME ResponsesInv, ResponseCalls!Next
  PROVE  ResponsesInv'
<1>1. ASSUME NEW c \in Calls, ResponseCalls!Answer(c)
      PROVE  ResponsesInv'
  BY <1>1, AnswerCreateKeeps, AnswerRetrieveKeeps DEF ResponseCalls!Answer
<1> QED BY <1>1, ServerFinishesKeeps, CallBegins, FailKeeps, FailFindsKeeps, FailTellsKeeps,
   InterruptKeeps, MergeKeeps, KeepKeeps,
   KeepFailsKeeps,
      CancelAnswerKeeps, PopKeeps, OpenKeeps, ChunkKeeps, CompleteKeeps, BreakKeeps,
      CleanupKeeps DEF ResponseCalls!Next

LEMMA ResponsesServe ==
  ASSUME ResponsesInv
  PROVE  ResponseCalls!SpansAccounted /\ ResponseCalls!EntriesServe
<1>1. ResponsesTyped /\ CallsAccounted /\ CancelsCounted
  BY DEF ResponsesInv
<1>2. ResponseCalls!TypeOK
  BY <1>1 DEF ResponsesTyped, ResponseCalls!TypeOK, ResponseCalls!Kinds, ResponseCalls!Status,
     ResponseCalls!Entries, CallRecords, SpanRecords, DataRecords, EntryOrNone
<1>3. ResponseCalls!SpansLeftOpen
  BY <1>1, StreamedData DEF CallsAccounted, SpanAt, ResponseCalls!SpansLeftOpen
<1>4. ResponseCalls!FirstEndingTells /\ ResponseCalls!FailuresTold
  BY <1>1 DEF CallsAccounted, SpanAt, ResponseCalls!FirstEndingTells,
              ResponseCalls!FailuresTold
<1>5. ResponseCalls!CreatesReturn
  BY <1>1 DEF CallsAccounted, CallAt, ResponseCalls!CreatesReturn
<1>6. ResponseCalls!CancelledOnce
  <2>1. ASSUME NEW i \in Ids
        PROVE  Cardinality(CancelsOf(call, span, i)) <= stored[i]
    <3> DEFINE n == Cardinality(CancelsOf(call, span, i))
    <3>1. n \in Nat /\ stored[i] \in Nat /\ Counted(n, responses[i], stored[i])
      BY <1>1, FS_CardinalityType DEF CancelsCounted, ResponsesTyped
    <3> HIDE DEF n
    <3>2. n <= stored[i]
      BY <3>1 DEF Counted
    <3> QED BY <3>2 DEF n
  <2>2. ASSUME NEW i \in Ids
        PROVE  ResponseCalls!Cardinality({c \in Calls : call[c].kind = "cancel" /\ call[c].id = {i} /\ span[c].on})
                 <= stored[i]
    <3>1. CancelsOf(call, span, i)
            = {c \in Calls : call[c].kind = "cancel" /\ call[c].id = {i} /\ span[c].on}
      BY DEF CancelsOf, Cancelled
    <3>2. Cardinality(CancelsOf(call, span, i)) <= stored[i]
      BY <2>1
    <3>3. \A S : ResponseCalls!Cardinality(S) = Cardinality(S)
      BY DEF Cardinality, ResponseCalls!Cardinality
    <3> QED BY ONLY <3>1, <3>2, <3>3
  <2> QED BY ONLY <2>2, Zenon DEF ResponseCalls!CancelledOnce
<1>7. ResponseCalls!UsageLostEarly
  BY <1>1 DEF CallsAccounted, UsageKnown, ResponseCalls!UsageLostEarly
<1> QED BY <1>2, <1>3, <1>4, <1>5, <1>6, <1>7
        DEF ResponseCalls!SpansAccounted, ResponseCalls!EntriesServe

-----------------------------------------------------------------------------
(* All four. *)

ObjectsInv ==
  /\ ResponsesInv /\ SessionInv /\ RealtimeInv /\ AssistantsInv /\ EventsInv

\* A step of another part.
LEMMA ResponsesSame == ASSUME ResponsesInv, UNCHANGED ofResponses PROVE ResponsesInv'
<1> USE DEF ResponsesInv, ofResponses
<1>1. ResponsesTyped' /\ IdsMade' /\ CreatesAlone'
  BY DEF ResponsesTyped, IdsMade, CreatesAlone, OwnAlone
<1>2. CallsAccounted' /\ CancelsCounted'
  BY DEF CallsAccounted, CancelsCounted
<1> QED BY <1>1, <1>2

LEMMA RealtimeSame ==
  ASSUME SessionInv, RealtimeInv, UNCHANGED ofRealtime
  PROVE  SessionInv' /\ RealtimeInv'
<1>1. SessionInv'
  BY DEF SessionInv, Realtime!SessionAccounted, ofRealtime
<1> QED BY <1>1, ConnectionQuiet DEF ofRealtime

LEMMA AssistantsSame == ASSUME AssistantsInv, UNCHANGED ofAssistants PROVE AssistantsInv'
BY DEF AssistantsInv, AssistantsTyped, EntriesApart, LookedUp, ofAssistants

LEMMA EventsSame == ASSUME EventsInv, UNCHANGED ofEvents PROVE EventsInv'
<1>1. AssistantEvents!TypeOK' /\ AssistantEvents!StreamAccounted'
  BY DEF EventsInv, AssistantEvents!TypeOK, AssistantEvents!StreamAccounted, ofEvents
<1>2. UNCHANGED AssistantEvents!texts /\ stage' = stage
  BY DEF ofEvents, AssistantEvents!texts
<1> QED BY <1>1, <1>2, EventsStay

LEMMA ObjectsBegin == ObjectsInit => ObjectsInv
BY ResponsesBegin, RealtimeBegin, AssistantsBegin, EventsInit DEF ObjectsInit, ObjectsInv

LEMMA ObjectsStep == ObjectsInv /\ [ObjectsNext]_objectsVars => ObjectsInv'
<1> SUFFICES ASSUME ObjectsInv, [ObjectsNext]_objectsVars PROVE ObjectsInv'
  OBVIOUS
<1> USE DEF ObjectsInv
<1>1. CASE ResponseCalls!Next /\ UNCHANGED <<ofRealtime, ofAssistants, ofEvents>>
  BY <1>1, ResponsesStep, RealtimeSame, AssistantsSame, EventsSame
<1>2. CASE Realtime!Next /\ UNCHANGED <<ofResponses, ofAssistants, ofEvents>>
  BY <1>2, ResponsesSame, RealtimeStep, AssistantsSame, EventsSame
<1>3. CASE Assistants!Next /\ UNCHANGED <<ofResponses, ofRealtime, ofEvents>>
  BY <1>3, ResponsesSame, RealtimeSame, AssistantsStep, EventsSame
<1>4. CASE AssistantEvents!Next /\ UNCHANGED <<ofResponses, ofRealtime, ofAssistants>>
  BY <1>4, ResponsesSame, RealtimeSame, AssistantsSame, EventsStep
<1>5. CASE UNCHANGED objectsVars
  BY <1>5, ResponsesSame, RealtimeSame, AssistantsSame, EventsSame DEF objectsVars
<1> QED BY <1>1, <1>2, <1>3, <1>4, <1>5 DEF ObjectsNext

\* The invariants of the four parts, one beside the other, are inductive
\* (responses_wrappers.py, realtime_wrappers.py, assistant_wrappers.py,
\* event_handler_wrapper.py).
THEOREM ObjectsInvariant == ObjectsSpec => []ObjectsInv
BY ObjectsBegin, ObjectsStep, PTL DEF ObjectsSpec

\* Whatever calls are made, in whatever order they answer, fail, are
\* abandoned or shared, a span of OpenAI's stateful APIs is ended once and
\* tells how it ended, or is open for a reason (responses_wrappers.py,
\* realtime_wrappers.py, assistant_wrappers.py, event_handler_wrapper.py).
THEOREM SpansAlwaysTell == ObjectsSpec => []SpansTell
<1>1. ObjectsInv => SpansTell
  BY ResponsesServe, RealtimeServes, AssistantsServe
     DEF ObjectsInv, SpansTell, EventsInv
<1> QED BY <1>1, ObjectsInvariant, PTL

\* What a call leaves in a shared dictionary serves any other call that finds
\* it: an entry is one of its response, reported as cancelled no more often
\* than it was stored, and a list tells of runs of its own thread alone
\* (`responses` of responses_wrappers.py, `runs` of assistant_wrappers.py).
THEOREM EntriesAlwaysServe == ObjectsSpec => []SharedEntriesServe
<1>1. ObjectsInv => SharedEntriesServe
  BY ResponsesServe, AssistantsServe DEF ObjectsInv, SharedEntriesServe
<1> QED BY <1>1, ObjectsInvariant, PTL

\* Any number of pieces of text, of any number of responses or messages, cut
\* by the streaming safety wherever it likes, are told and shown once, in
\* order, whole and each by itself (realtime_wrappers.py,
\* event_handler_wrapper.py).
THEOREM TextsAlwaysTold == ObjectsSpec => []EventTextsTold
<1>1. ObjectsInv => EventTextsTold
  BY RealtimeServes DEF ObjectsInv, EventTextsTold, EventsInv
<1> QED BY <1>1, ObjectsInvariant, PTL
=============================================================================
