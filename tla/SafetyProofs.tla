----------------------------- MODULE SafetyProofs -----------------------------
(***************************************************************************)
(* Theorems about SafetyRuntime, for any set of callers, requests and      *)
(* configurations and any bounds, and about SafetyStream, for any rules,   *)
(* sizes and texts.                                                        *)
(*                                                                         *)
(* Of the runtime, the safety properties are not inductive.  ControlInv    *)
(* says what a control point of a call implies for the lock, the global    *)
(* runtime and the runtime the call works on; HookInv what it implies for  *)
(* the handler registrations; VersionInv orders a fetched snapshot after   *)
(* the stored one; RequestInv says what a request that was promised        *)
(* something holds.                                                        *)
(*                                                                         *)
(* Of a stream, StreamInv says that the blocks are the released text, in   *)
(* order and once, and that what is pending is bounded; IsolatedInv and    *)
(* AgreesInv compare the released part with an evaluation of the whole     *)
(* text.  They rest on what a scan of a prefix or of a suffix finds in     *)
(* comparison with a scan of the whole (MatchesOfPrefix, MatchesOfSuffix). *)
(* Induction over texts is by least and greatest elements.                 *)
(***************************************************************************)
EXTENDS SafetyRuntime, SafetyStream, FiniteSetTheorems, SequenceTheorems,
        WellFoundedInduction, TLAPS

Stopping == {"setStop", "join", "clearStore", "unhook"}
Unstarted == {"refresh", "fetch", "store", "register", "start"}
Building == Unstarted \cup {"publish"}

ControlInv ==
  /\ \A c \in Caller : pc[c] \in CallerPc
  /\ \A r \in Runtime : pc[r] \in PollerPc
  /\ \A c \in Caller : lock = c <=> pc[c] \notin {"idle", "acquire"}
  /\ \A c \in Caller : pc[c] \in Stopping => global # None /\ mine[c] = global
  /\ \A c \in Caller : pc[c] \in Stopping \ {"setStop"} => stopEvent[mine[c]]
  /\ \A c \in Caller : pc[c] \in Building \cup {"unhookOff"} => global = None
  /\ \A c \in Caller : pc[c] \in Building =>
       mine[c] \in Runtime /\ mine[c] =< made /\ ~stopEvent[mine[c]]
  /\ \A c \in Caller : pc[c] \in Unstarted => pc[mine[c]] = "new"
  /\ \A c \in Caller : pc[c] = "publish" => pc[mine[c]] # "new"
  /\ \A r \in Runtime : pc[r] = "ended" => stopEvent[r]
  /\ \A r \in Runtime : r > made => pc[r] = "new" /\ ~stopEvent[r]
  /\ global =< made
  /\ global # None => pc[global] # "new"
  /\ (global # None /\ stopEvent[global]) =>
       \E c \in Caller : pc[c] \in (Stopping \cup {"gate"}) \ {"setStop"}

-----------------------------------------------------------------------------
(* Type correctness and control. *)

\* Nothing is called, made or registered in the beginning.
LEMMA InitControl == Init => TypeOK /\ ControlInv
<1> SUFFICES ASSUME Init PROVE TypeOK /\ ControlInv
  OBVIOUS
<1> USE DEF Init, None
<1>1. TypeOK
  <2>1. Empty \in Snapshot /\ 0 \in Version
    BY BoundAssumption DEF Empty, Snapshot, Version
  <2>2. /\ published \in 1..MaxVersion
        /\ lock \in Caller \cup {Free}
        /\ global \in Runtime \cup {None}
        /\ made \in 0..MaxCalls
        /\ calls \in 0..MaxCalls
    BY BoundAssumption
  <2>3. /\ store \in [Runtime -> Snapshot]
        /\ reply \in [Process -> Snapshot]
        /\ etag \in [Process -> Version]
    BY <2>1
  <2>4. pc \in [Process -> CallerPc \cup PollerPc]
    BY DEF CallerPc, PollerPc
  <2>5. req \in [Request -> [at : {"idle", "captured"},
                            handler : Runtime \cup {None},
                            floor : Version, seen : Version]]
    BY <2>1
  <2>6. /\ udfEnabled \in BOOLEAN
        /\ conf \in [Runtime -> Config \cup {Off}]
        /\ stopEvent \in [Runtime -> BOOLEAN]
        /\ registered \in [Slot -> Runtime \cup {None}]
    OBVIOUS
  <2>7. /\ arg \in [Caller -> Config \cup {Off}]
        /\ mine \in [Caller -> Runtime \cup {None}]
        /\ slot \in [Caller -> 1..3]
    OBVIOUS
  <2> QED
    BY <2>2, <2>3, <2>4, <2>5, <2>6, <2>7 DEF TypeOK
<1>2. ControlInv
  <2>1. /\ \A c \in Caller : pc[c] = "idle" /\ lock # c
        /\ \A r \in Runtime : pc[r] = "new" /\ stopEvent[r] = FALSE
        /\ global = 0 /\ made = 0
    BY CallerAssumption, FreeAssumption DEF Process
  <2> QED
    BY ONLY <2>1, None = 0
    DEF ControlInv, CallerPc, PollerPc, Stopping, Building, Unstarted
<1> QED
  BY <1>1, <1>2

\* A write to a registration keeps both variables it touches in their types.
LEMMA WriteSlotType ==
  ASSUME registered \in [Slot -> Runtime \cup {None}],
         slot \in [Caller -> 1..3],
         NEW c \in Caller, NEW v \in Runtime \cup {None}, WriteSlot(c, v)
  PROVE  /\ registered' \in [Slot -> Runtime \cup {None}]
         /\ slot' \in [Caller -> 1..3]
<1>1. registered' \in [Slot -> Runtime \cup {None}]
  BY DEF WriteSlot
<1>2. slot' \in [Caller -> 1..3]
  BY DEF WriteSlot, LastSlot
<1> QED
  BY <1>1, <1>2

\* Every step preserves the types.
LEMMA TypeStep == TypeOK /\ ControlInv /\ [Next]_vars => TypeOK'
<1> SUFFICES ASSUME TypeOK, ControlInv, [Next]_vars PROVE TypeOK'
  OBVIOUS
<1> USE DEF TypeOK, None, Goto, Process, CallerPc, world, shared, callerVars,
            fetchVars, runtimeVars
<1>0. /\ Empty \in Snapshot /\ 0 \in Version
      /\ \A sn \in Snapshot : sn.version \in Version
  BY BoundAssumption DEF Empty, Snapshot, Version
<1>1. ASSUME NEW c \in Caller, InitCall(c) PROVE TypeOK'
  BY <1>1, BoundAssumption DEF InitCall
<1>2. ASSUME NEW c \in Caller, ShutdownCall(c) PROVE TypeOK'
  BY <1>2, BoundAssumption DEF ShutdownCall
<1>3. ASSUME NEW c \in Caller, KeepRuntime(c) PROVE TypeOK'
  BY <1>3 DEF KeepRuntime, Return
<1>4. ASSUME NEW c \in Caller, Acquire(c) PROVE TypeOK'
  BY <1>4, <1>0 DEF Acquire
<1>5. ASSUME NEW c \in Caller, SetStop(c) PROVE TypeOK'
  BY <1>5 DEF SetStop
<1>6. ASSUME NEW c \in Caller, Join(c) PROVE TypeOK'
  BY <1>6 DEF Join
<1>7. ASSUME NEW c \in Caller, ClearStore(c) PROVE TypeOK'
  BY <1>7, <1>0 DEF ClearStore
<1>8. ASSUME NEW c \in Caller, Unhook(c) PROVE TypeOK'
  BY <1>8, WriteSlotType DEF Unhook
<1>9. ASSUME NEW c \in Caller, Gate(c) PROVE TypeOK'
  <2>1. CASE arg[c] \in Startable
    <3>1. made + 1 \in Runtime /\ made + 1 \in 0..MaxCalls
      BY <1>9, <2>1, BoundAssumption DEF Gate, NewRuntime, Runtime
    <3> QED
      BY <1>9, <2>1, <3>1 DEF Gate, NewRuntime
  <2>2. CASE arg[c] \notin Startable
    BY <1>9, <2>2 DEF Gate
  <2> QED
    BY <2>1, <2>2
<1>10. ASSUME NEW c \in Caller, UnhookOff(c) PROVE TypeOK'
  BY <1>10, WriteSlotType DEF UnhookOff, Return
<1>11. ASSUME NEW c \in Caller, Register(c) PROVE TypeOK'
  BY <1>11, WriteSlotType DEF Register
<1>12. ASSUME NEW c \in Caller, StartThread(c) PROVE TypeOK'
  BY <1>12 DEF StartThread, PollerPc
<1>13. ASSUME NEW c \in Caller, StartThreadFails(c) PROVE TypeOK'
  BY <1>13 DEF StartThreadFails, Return
<1>14. ASSUME NEW c \in Caller, Publish(c) PROVE TypeOK'
  BY <1>14 DEF Publish, Return, ControlInv, Building
<1>15. ASSUME NEW p \in Process, RefreshRead(p) PROVE TypeOK'
  BY <1>15, <1>0 DEF RefreshRead, ControlInv, Target, Building, Unstarted
<1>16. ASSUME NEW p \in Process, FetchFails(p) PROVE TypeOK'
  BY <1>16, <1>0 DEF FetchFails, RefreshReturn, PollerPc
<1>17. ASSUME NEW p \in Process, FetchNotModified(p) PROVE TypeOK'
  BY <1>17, <1>0 DEF FetchNotModified, RefreshReturn, PollerPc
<1>18. ASSUME NEW p \in Process, FetchCompiles(p) PROVE TypeOK'
  BY <1>18, <1>0 DEF FetchCompiles, Snapshot, Version
<1>19. ASSUME NEW p \in Process, RefreshStore(p) PROVE TypeOK'
  BY <1>19, <1>0 DEF RefreshStore, RefreshReturn, PollerPc
<1>20. ASSUME NEW r \in Runtime, PollerWake(r) PROVE TypeOK'
  BY <1>20 DEF PollerWake, PollerPc
<1>21. ASSUME NEW q \in Request, NEW s \in Slot, Capture(q, s) PROVE TypeOK'
  BY <1>21, <1>0 DEF Capture, Snapshot
<1>22. ASSUME NEW q \in Request, Screen(q) PROVE TypeOK'
  <2>1. DEFINE saw == IF req[q].handler = None THEN 0
                      ELSE store[req[q].handler].version
  <2>2. saw \in Version
    <3>1. req[q].handler \in Runtime \cup {None}
      OBVIOUS
    <3> QED
      BY <3>1, <1>0
  <2>3. req' \in [Request -> [at : {"idle", "captured"},
                             handler : Runtime \cup {None},
                             floor : Version, seen : Version]]
    BY <1>22, <2>2 DEF Screen
  <2> QED
    BY <1>22, <2>3 DEF Screen
<1>23. CASE PublishProfile
  BY <1>23, BoundAssumption DEF PublishProfile
<1>24. CASE UNCHANGED vars
  BY <1>24 DEF vars
<1> QED
  BY <1>1, <1>2, <1>3, <1>4, <1>5, <1>6, <1>7, <1>8, <1>9, <1>10, <1>11,
     <1>12, <1>13, <1>14, <1>15, <1>16, <1>17, <1>18, <1>19, <1>20,
     <1>21, <1>22, <1>23, <1>24
  DEF Next, CallerStep, PollerStep, Refresh

\* Every step preserves what the control points imply.
LEMMA ControlStep == TypeOK /\ ControlInv /\ [Next]_vars => ControlInv'
<1> SUFFICES ASSUME TypeOK, ControlInv, [Next]_vars PROVE ControlInv'
  OBVIOUS
<1> USE CallerAssumption, FreeAssumption
    DEF TypeOK, ControlInv, None, Goto, Process, CallerPc, PollerPc, Stopping,
        Unstarted, Building, world, shared, callerVars, fetchVars, runtimeVars
<1>1. ASSUME NEW c \in Caller, InitCall(c) PROVE ControlInv'
  BY <1>1, SMTT(30) DEF InitCall
<1>2. ASSUME NEW c \in Caller, ShutdownCall(c) PROVE ControlInv'
  BY <1>2, SMTT(30) DEF ShutdownCall
<1>3. ASSUME NEW c \in Caller, KeepRuntime(c) PROVE ControlInv'
  BY <1>3, SMTT(30) DEF KeepRuntime, Return
<1>4. ASSUME NEW c \in Caller, Acquire(c) PROVE ControlInv'
  BY <1>4, SMTT(30) DEF Acquire
<1>5. ASSUME NEW c \in Caller, SetStop(c) PROVE ControlInv'
  BY <1>5, SMTT(30) DEF SetStop
<1>6. ASSUME NEW c \in Caller, Join(c) PROVE ControlInv'
  BY <1>6, SMTT(30) DEF Join
<1>7. ASSUME NEW c \in Caller, ClearStore(c) PROVE ControlInv'
  BY <1>7, SMTT(30) DEF ClearStore
<1>8. ASSUME NEW c \in Caller, Unhook(c) PROVE ControlInv'
  BY <1>8, SMTT(30) DEF Unhook, WriteSlot, LastSlot
<1>9. ASSUME NEW c \in Caller, Gate(c) PROVE ControlInv'
  <2>1. lock = c /\ \A d \in Caller : d # c => pc[d] \in {"idle", "acquire"}
    BY <1>9 DEF Gate
  <2>2. CASE arg[c] \in Startable
    <3>1. made + 1 \in Runtime /\ pc[made + 1] = "new" /\ ~stopEvent[made + 1]
      BY <1>9, <2>2, BoundAssumption DEF Gate, NewRuntime, Runtime
    <3>2. /\ \A d \in Caller : d # c => pc'[d] = pc[d]
          /\ \A r \in Runtime : pc'[r] = pc[r]
          /\ pc'[c] = "refresh"
          /\ mine'[c] = made + 1 /\ made' = made + 1
          /\ UNCHANGED <<lock, stopEvent>> /\ global' = None
      BY <1>9, <2>2 DEF Gate, NewRuntime
    <3>3. \A r \in Runtime : r > made' => r > made
      BY <3>2, BoundAssumption DEF Runtime
    <3>4. \A d \in Caller : pc'[d] \in CallerPc
      BY <3>2
    <3>5. \A d \in Caller : lock' = d <=> pc'[d] \notin {"idle", "acquire"}
      BY <2>1, <3>2
    <3>6. \A d \in Caller : d # c => pc'[d] \in {"idle", "acquire"}
      BY <2>1, <3>2
    <3>7. /\ pc'[mine'[c]] = "new" /\ ~stopEvent'[mine'[c]]
          /\ mine'[c] \in Runtime /\ mine'[c] =< made'
          /\ pc'[c] = "refresh"
      BY <3>1, <3>2, BoundAssumption DEF Runtime
    <3>8. \A r \in Runtime : /\ pc'[r] \in PollerPc
                             /\ pc'[r] = "ended" => stopEvent'[r]
                             /\ r > made' => pc'[r] = "new" /\ ~stopEvent'[r]
      BY <3>2, <3>3
    <3>9. global' = 0 /\ global' =< made'
      BY <3>2
    <3> QED
      BY <3>4, <3>5, <3>6, <3>7, <3>8, <3>9
  <2>3. CASE arg[c] \notin Startable
    BY <1>9, <2>1, <2>3 DEF Gate
  <2> QED
    BY <2>2, <2>3
<1>10. ASSUME NEW c \in Caller, UnhookOff(c) PROVE ControlInv'
  <2>1. CASE slot[c] = LastSlot
    <3>1. /\ pc[c] = "unhookOff" /\ global = 0 /\ lock = c
          /\ pc' = [pc EXCEPT ![c] = "idle"] /\ lock' = Free
          /\ mine' = [mine EXCEPT ![c] = 0]
          /\ UNCHANGED <<global, made, stopEvent>>
      BY <1>10, <2>1 DEF UnhookOff, Return
    <3>2. \A d \in Caller : d # c => pc[d] \in {"idle", "acquire"}
      BY <3>1
    <3> QED
      BY <3>1, <3>2, SMTT(30)
  <2>2. CASE slot[c] # LastSlot
    BY <1>10, <2>2 DEF UnhookOff
  <2> QED
    BY <2>1, <2>2
<1>11. ASSUME NEW c \in Caller, Register(c) PROVE ControlInv'
  BY <1>11, SMTT(30) DEF Register, WriteSlot, LastSlot
<1>12. ASSUME NEW c \in Caller, StartThread(c) PROVE ControlInv'
  <2>1. lock = c /\ \A d \in Caller : d # c => pc[d] \in {"idle", "acquire"}
    BY <1>12 DEF StartThread
  <2>2. /\ mine[c] \in Runtime /\ mine[c] =< made /\ ~stopEvent[mine[c]]
        /\ global = None
    BY <1>12 DEF StartThread
  <2>3. /\ \A d \in Caller : d # c => pc'[d] = pc[d]
        /\ \A r \in Runtime : r # mine[c] => pc'[r] = pc[r]
        /\ pc'[c] = "publish" /\ pc'[mine[c]] = "wait"
        /\ UNCHANGED <<lock, stopEvent, global, mine, made>>
    BY <1>12, <2>2 DEF StartThread
  <2>4. \A r \in Runtime : /\ pc'[r] \in PollerPc
                           /\ pc'[r] = "ended" => stopEvent'[r]
                           /\ r > made' => pc'[r] = "new" /\ ~stopEvent'[r]
    <3>1. \A r \in Runtime : r > made => r # mine[c]
      BY <2>2, BoundAssumption DEF Runtime
    <3> QED
      BY <2>2, <2>3, <3>1
  <2>5. \A d \in Caller : /\ pc'[d] \in CallerPc
                          /\ lock' = d <=> pc'[d] \notin {"idle", "acquire"}
                          /\ d # c => pc'[d] \in {"idle", "acquire"}
    BY <2>1, <2>3
  <2>6. global' = 0 /\ global' =< made'
    BY <2>2, <2>3
  <2> QED
    BY <2>2, <2>3, <2>4, <2>5, <2>6
<1>13. ASSUME NEW c \in Caller, StartThreadFails(c) PROVE ControlInv'
  BY <1>13, SMTT(30) DEF StartThreadFails, Return
<1>14. ASSUME NEW c \in Caller, Publish(c) PROVE ControlInv'
  BY <1>14, SMTT(30) DEF Publish, Return
<1>15. ASSUME NEW p \in Process, RefreshRead(p) PROVE ControlInv'
  BY <1>15, SMTT(30) DEF RefreshRead, Target
<1>16. ASSUME NEW p \in Process, FetchFails(p) PROVE ControlInv'
  BY <1>16, SMTT(30) DEF FetchFails, RefreshReturn
<1>17. ASSUME NEW p \in Process, FetchNotModified(p) PROVE ControlInv'
  BY <1>17, SMTT(30) DEF FetchNotModified, RefreshReturn
<1>18. ASSUME NEW p \in Process, FetchCompiles(p) PROVE ControlInv'
  BY <1>18, SMTT(30) DEF FetchCompiles
<1>19. ASSUME NEW p \in Process, RefreshStore(p) PROVE ControlInv'
  BY <1>19, SMTT(30) DEF RefreshStore, RefreshReturn
<1>20. ASSUME NEW r \in Runtime, PollerWake(r) PROVE ControlInv'
  BY <1>20, SMTT(30) DEF PollerWake
<1>21. ASSUME NEW q \in Request, NEW s \in Slot, Capture(q, s)
       PROVE ControlInv'
  BY <1>21 DEF Capture
<1>22. ASSUME NEW q \in Request, Screen(q) PROVE ControlInv'
  BY <1>22 DEF Screen
<1>23. CASE PublishProfile
  BY <1>23 DEF PublishProfile
<1>24. CASE UNCHANGED vars
  BY <1>24 DEF vars
<1> QED
  BY ONLY [Next]_vars, <1>1, <1>2, <1>3, <1>4, <1>5, <1>6, <1>7, <1>8, <1>9, <1>10, <1>11,
     <1>12, <1>13, <1>14, <1>15, <1>16, <1>17, <1>18, <1>19, <1>20,
     <1>21, <1>22, <1>23, <1>24
  DEF Next, CallerStep, PollerStep, Refresh, Process

-----------------------------------------------------------------------------
(* The handler registrations. *)

HookInv ==
  /\ \A c \in Caller :
       pc[c] \notin {"unhook", "unhookOff", "register"} => slot[c] = 1
  /\ \A c \in Caller : pc[c] = "unhookOff" =>
       \A i \in 1..3 : i < slot[c] => registered[SlotAt[i]] = None
  /\ \A c \in Caller : pc[c] = "register" =>
       \A i \in 1..3 : i < slot[c] => registered[SlotAt[i]] = mine[c]
  /\ \A c \in Caller : pc[c] \in {"start", "publish"} =>
       \A s \in Slot : registered[s] = mine[c]
  /\ HandlersAgree

\* Three writes with one value, in the order of SlotAt, reach every slot.
LEMMA WriteSlotFills ==
  ASSUME registered \in [Slot -> Runtime \cup {None}],
         slot \in [Caller -> 1..3],
         NEW c \in Caller, NEW v \in Runtime \cup {None}, WriteSlot(c, v),
         \A i \in 1..3 : i < slot[c] => registered[SlotAt[i]] = v
  PROVE  /\ \A d \in Caller : d # c => slot'[d] = slot[d]
         /\ slot[c] = 3 => /\ slot'[c] = 1
                           /\ \A s \in Slot : registered'[s] = v
         /\ slot[c] # 3 =>
              /\ slot'[c] = slot[c] + 1
              /\ \A i \in 1..3 : i < slot'[c] => registered'[SlotAt[i]] = v
<1>1. /\ SlotAt[1] = "prompt" /\ SlotAt[2] = "completion"
      /\ SlotAt[3] = "stream"
  BY DEF SlotAt
<1>2. slot[c] \in {1, 2, 3}
  OBVIOUS
<1>3. \A d \in Caller : d # c => slot'[d] = slot[d]
  BY DEF WriteSlot
<1>4. registered'[SlotAt[slot[c]]] = v
  BY <1>1, <1>2 DEF WriteSlot, Slot
<1>5. \A i \in 1..3 : registered[SlotAt[i]] = v => registered'[SlotAt[i]] = v
  BY <1>1, <1>2 DEF WriteSlot, Slot
<1>6. CASE slot[c] = 3
  <2>1. \A i \in 1..3 : registered'[SlotAt[i]] = v
    BY <1>4, <1>5, <1>6
  <2>2. \A s \in Slot : registered'[s] = v
    BY <1>1, <2>1 DEF Slot
  <2>3. slot'[c] = 1
    BY <1>6 DEF WriteSlot, LastSlot
  <2> QED
    BY <1>3, <1>6, <2>2, <2>3
<1>7. CASE slot[c] # 3
  <2>1. slot'[c] = slot[c] + 1
    BY <1>2, <1>7 DEF WriteSlot, LastSlot
  <2>2. \A i \in 1..3 : i < slot'[c] => registered'[SlotAt[i]] = v
    BY <1>2, <1>4, <1>5, <2>1
  <2> QED
    BY <1>3, <1>7, <2>1, <2>2
<1> QED
  BY <1>6, <1>7

\* Nothing is registered, so the registrations agree.
LEMMA InitHooks == Init => HookInv
BY CallerAssumption DEF Init, HookInv, HandlersAgree, Slot, SlotAt, None,
   Process

\* Every step preserves what the control points imply for the registrations.
LEMMA HookStep == TypeOK /\ ControlInv /\ HookInv /\ [Next]_vars => HookInv'
<1> SUFFICES ASSUME TypeOK, ControlInv, HookInv, [Next]_vars PROVE HookInv'
  OBVIOUS
<1> USE CallerAssumption, FreeAssumption
    DEF TypeOK, ControlInv, HookInv, HandlersAgree, None, Goto, Process,
        Stopping, Unstarted, Building, Slot, world, shared, callerVars, fetchVars,
        runtimeVars
<1>1. ASSUME NEW c \in Caller, InitCall(c) PROVE HookInv'
  BY <1>1 DEF InitCall
<1>2. ASSUME NEW c \in Caller, ShutdownCall(c) PROVE HookInv'
  BY <1>2 DEF ShutdownCall
<1>3. ASSUME NEW c \in Caller, KeepRuntime(c) PROVE HookInv'
  BY <1>3 DEF KeepRuntime, Return
<1>4. ASSUME NEW c \in Caller, Acquire(c) PROVE HookInv'
  BY <1>4 DEF Acquire
<1>5. ASSUME NEW c \in Caller, SetStop(c) PROVE HookInv'
  BY <1>5 DEF SetStop
<1>6. ASSUME NEW c \in Caller, Join(c) PROVE HookInv'
  BY <1>6 DEF Join
<1>7. ASSUME NEW c \in Caller, ClearStore(c) PROVE HookInv'
  BY <1>7 DEF ClearStore
<1>8. ASSUME NEW c \in Caller, Unhook(c) PROVE HookInv'
  BY <1>8 DEF Unhook, WriteSlot, LastSlot
<1>9. ASSUME NEW c \in Caller, Gate(c) PROVE HookInv'
  BY <1>9 DEF Gate, NewRuntime
<1>10. ASSUME NEW c \in Caller, UnhookOff(c) PROVE HookInv'
  <2>1. /\ pc[c] = "unhookOff" /\ WriteSlot(c, 0) /\ lock = c /\ global = 0
        /\ UNCHANGED <<made, stopEvent, global>>
    BY <1>10 DEF UnhookOff
  <2>2. \A d \in Caller : d # c => pc[d] \in {"idle", "acquire"}
    BY <2>1
  <2>3. CASE slot[c] = LastSlot
    <3>1. /\ pc' = [pc EXCEPT ![c] = "idle"] /\ lock' = Free
          /\ mine' = [mine EXCEPT ![c] = 0]
      BY <1>10, <2>3 DEF UnhookOff, Return
    <3> QED
      BY <2>1, <2>2, <2>3, <3>1, WriteSlotFills DEF LastSlot
  <2>4. CASE slot[c] # LastSlot
    <3>1. UNCHANGED <<pc, lock, mine>>
      BY <1>10, <2>4 DEF UnhookOff
    <3> QED
      BY <2>1, <2>2, <2>4, <3>1, WriteSlotFills DEF LastSlot
  <2> QED
    BY <2>3, <2>4
<1>11. ASSUME NEW c \in Caller, Register(c) PROVE HookInv'
  BY <1>11, WriteSlotFills DEF Register, LastSlot
<1>12. ASSUME NEW c \in Caller, StartThread(c) PROVE HookInv'
  BY <1>12 DEF StartThread
<1>13. ASSUME NEW c \in Caller, StartThreadFails(c) PROVE HookInv'
  BY <1>13 DEF StartThreadFails, Return
<1>14. ASSUME NEW c \in Caller, Publish(c) PROVE HookInv'
  BY <1>14 DEF Publish, Return
<1>15. ASSUME NEW p \in Process, RefreshRead(p) PROVE HookInv'
  BY <1>15 DEF RefreshRead
<1>16. ASSUME NEW p \in Process, FetchFails(p) PROVE HookInv'
  BY <1>16 DEF FetchFails, RefreshReturn
<1>17. ASSUME NEW p \in Process, FetchNotModified(p) PROVE HookInv'
  BY <1>17 DEF FetchNotModified, RefreshReturn
<1>18. ASSUME NEW p \in Process, FetchCompiles(p) PROVE HookInv'
  BY <1>18 DEF FetchCompiles
<1>19. ASSUME NEW p \in Process, RefreshStore(p) PROVE HookInv'
  BY <1>19 DEF RefreshStore, RefreshReturn
<1>20. ASSUME NEW r \in Runtime, PollerWake(r) PROVE HookInv'
  BY <1>20 DEF PollerWake
<1>21. ASSUME NEW q \in Request, NEW s \in Slot, Capture(q, s)
       PROVE HookInv'
  BY <1>21 DEF Capture
<1>22. ASSUME NEW q \in Request, Screen(q) PROVE HookInv'
  BY <1>22 DEF Screen
<1>23. CASE PublishProfile
  BY <1>23 DEF PublishProfile
<1>24. CASE UNCHANGED vars
  BY <1>24 DEF vars
<1> QED
  BY <1>1, <1>2, <1>3, <1>4, <1>5, <1>6, <1>7, <1>8, <1>9, <1>10, <1>11,
     <1>12, <1>13, <1>14, <1>15, <1>16, <1>17, <1>18, <1>19, <1>20,
     <1>21, <1>22, <1>23, <1>24
  DEF Next, CallerStep, PollerStep, Refresh, Process

-----------------------------------------------------------------------------
(* Versions of rules. *)

VersionInv ==
  /\ \A r \in Runtime : store[r].version =< published
  /\ \A p \in Process : pc[p] = "store" =>
       /\ reply[p].version =< published
       /\ store[Target(p)].version =< reply[p].version

\* The control points leave each runtime with at most one refresher.
LEMMA ControlOneRefresher == TypeOK /\ ControlInv => OneRefresher
<1> SUFFICES ASSUME TypeOK, ControlInv,
                    NEW r \in Runtime, NEW p \in Process, NEW o \in Process,
                    Refreshing(p, r), Refreshing(o, r)
             PROVE  p = o
  BY DEF OneRefresher
<1>1. CASE p \in Caller /\ o \in Caller
  BY <1>1, FreeAssumption DEF ControlInv, Refreshing
<1>2. CASE p \in Caller /\ o \in Runtime
  BY <1>2, CallerAssumption DEF ControlInv, Refreshing, Target, Unstarted
<1>3. CASE p \in Runtime /\ o \in Caller
  BY <1>3, CallerAssumption DEF ControlInv, Refreshing, Target, Unstarted
<1>4. CASE p \in Runtime /\ o \in Runtime
  BY <1>4, CallerAssumption DEF Refreshing, Target
<1> QED
  BY <1>1, <1>2, <1>3, <1>4 DEF Process

\* A process that refreshes works on a runtime.
LEMMA TargetType ==
  ASSUME TypeOK, ControlInv, NEW p \in Process,
         pc[p] \in {"refresh", "fetch", "store"}
  PROVE  Target(p) \in Runtime
BY CallerAssumption
DEF ControlInv, Target, Process, Building, Unstarted

\* A compiled snapshot stays the newest until it is stored, since nobody else
\* refreshes that runtime.
LEMMA VersionStep ==
  TypeOK /\ ControlInv /\ VersionInv /\ [Next]_vars => VersionInv'
<1> SUFFICES ASSUME TypeOK, ControlInv, VersionInv, [Next]_vars
             PROVE VersionInv'
  OBVIOUS
<1>0. /\ \A r \in Runtime : store[r].version \in Nat
      /\ \A p \in Process : reply[p].version \in Nat
      /\ published \in Nat
  BY BoundAssumption DEF TypeOK, Snapshot, Version
<1> USE CallerAssumption
    DEF VersionInv, Goto, Process, Target, world, shared, callerVars,
        fetchVars, runtimeVars
<1>1. ASSUME NEW c \in Caller, InitCall(c) PROVE VersionInv'
  BY <1>1 DEF InitCall
<1>2. ASSUME NEW c \in Caller, ShutdownCall(c) PROVE VersionInv'
  BY <1>2 DEF ShutdownCall
<1>3. ASSUME NEW c \in Caller, KeepRuntime(c) PROVE VersionInv'
  BY <1>3 DEF KeepRuntime, Return
<1>4. ASSUME NEW c \in Caller, Acquire(c) PROVE VersionInv'
  BY <1>4 DEF Acquire
<1>5. ASSUME NEW c \in Caller, SetStop(c) PROVE VersionInv'
  BY <1>5 DEF SetStop
<1>6. ASSUME NEW c \in Caller, Join(c) PROVE VersionInv'
  BY <1>6 DEF Join
<1>7. ASSUME NEW c \in Caller, ClearStore(c) PROVE VersionInv'
  <2>1. \A r \in Runtime : store'[r].version =< store[r].version
    BY <1>7, <1>0 DEF ClearStore, Empty, TypeOK
  <2>2. \A r \in Runtime : store'[r].version \in Nat
    BY <1>7, <1>0 DEF ClearStore, Empty, TypeOK
  <2>3. \A p \in Process : pc'[p] = "store" => pc[p] = "store"
    BY <1>7 DEF ClearStore, TypeOK
  <2>4. UNCHANGED <<published, reply, mine>>
    BY <1>7 DEF ClearStore
  <2>5. \A p \in Process : pc[p] = "store" => Target(p) \in Runtime
    BY TargetType
  <2> QED
    BY <1>0, <2>1, <2>2, <2>3, <2>4, <2>5
<1>8. ASSUME NEW c \in Caller, Unhook(c) PROVE VersionInv'
  BY <1>8 DEF Unhook
<1>9. ASSUME NEW c \in Caller, Gate(c) PROVE VersionInv'
  <2>1. \A p \in Process : pc'[p] = "store" => pc[p] = "store" /\ p # c
    BY <1>9 DEF Gate, NewRuntime, TypeOK
  <2>2. \A d \in Caller : d # c => mine'[d] = mine[d]
    BY <1>9 DEF Gate, NewRuntime, TypeOK
  <2>3. UNCHANGED <<published, reply, store>>
    BY <1>9 DEF Gate
  <2> QED
    BY <2>1, <2>2, <2>3
<1>10. ASSUME NEW c \in Caller, UnhookOff(c) PROVE VersionInv'
  <2>1. \A p \in Process : pc'[p] = "store" => pc[p] = "store" /\ p # c
    BY <1>10 DEF UnhookOff, Return, TypeOK
  <2>2. \A d \in Caller : d # c => mine'[d] = mine[d]
    BY <1>10 DEF UnhookOff, Return, TypeOK
  <2>3. UNCHANGED <<published, reply, store>>
    BY <1>10 DEF UnhookOff
  <2> QED
    BY <2>1, <2>2, <2>3
<1>11. ASSUME NEW c \in Caller, Register(c) PROVE VersionInv'
  BY <1>11 DEF Register
<1>12. ASSUME NEW c \in Caller, StartThread(c) PROVE VersionInv'
  <2>1. \A p \in Process : pc'[p] = "store" => pc[p] = "store"
    BY <1>12 DEF StartThread, TypeOK
  <2>2. UNCHANGED <<published, reply, store, mine>>
    BY <1>12 DEF StartThread
  <2> QED
    BY <2>1, <2>2
<1>13. ASSUME NEW c \in Caller, StartThreadFails(c) PROVE VersionInv'
  BY <1>13 DEF StartThreadFails, Return
<1>14. ASSUME NEW c \in Caller, Publish(c) PROVE VersionInv'
  BY <1>14 DEF Publish, Return
<1>15. ASSUME NEW p \in Process, RefreshRead(p) PROVE VersionInv'
  BY <1>15 DEF RefreshRead
<1>16. ASSUME NEW p \in Process, FetchFails(p) PROVE VersionInv'
  BY <1>16 DEF FetchFails, RefreshReturn
<1>17. ASSUME NEW p \in Process, FetchNotModified(p) PROVE VersionInv'
  BY <1>17 DEF FetchNotModified, RefreshReturn
<1>18. ASSUME NEW p \in Process, FetchCompiles(p) PROVE VersionInv'
  <2>1. Target(p) \in Runtime
    BY <1>18, TargetType DEF FetchCompiles
  <2>2. reply'[p].version = published
    BY <1>18 DEF FetchCompiles, TypeOK
  <2>3. \A o \in Process : o # p => reply'[o] = reply[o] /\ pc'[o] = pc[o]
    BY <1>18 DEF FetchCompiles, TypeOK
  <2>4. UNCHANGED <<published, store, mine>>
    BY <1>18 DEF FetchCompiles
  <2> QED
    BY <1>0, <2>1, <2>2, <2>3, <2>4
<1>19. ASSUME NEW p \in Process, RefreshStore(p) PROVE VersionInv'
  <2>1. Target(p) \in Runtime
    BY <1>19, TargetType DEF RefreshStore
  <2>2. \A r \in Runtime :
          store'[r] = IF r = Target(p) THEN reply[p] ELSE store[r]
    BY <1>19, <2>1 DEF RefreshStore, TypeOK
  <2>3. \A o \in Process : o # p => reply'[o] = reply[o] /\ pc'[o] = pc[o]
    BY <1>19 DEF RefreshStore, RefreshReturn, TypeOK
  <2>4. pc'[p] # "store" /\ UNCHANGED <<published, mine>>
    BY <1>19 DEF RefreshStore, RefreshReturn, TypeOK
  <2>5. \A o \in Process : o # p /\ pc[o] = "store" => Target(o) # Target(p)
    BY <1>19, <2>1, ControlOneRefresher
    DEF RefreshStore, OneRefresher, Refreshing
  <2>6. \A o \in Process : pc[o] = "store" => Target(o) \in Runtime
    BY TargetType
  <2>7. \A o \in Process : Target(o)' = Target(o)
    BY <2>4
  <2>8. \A r \in Runtime : store'[r].version =< published'
    BY <1>19, <2>2, <2>4 DEF RefreshStore
  <2>9. \A o \in Process : pc'[o] = "store" =>
          /\ reply'[o].version =< published'
          /\ store'[Target(o)].version =< reply'[o].version
    BY <2>2, <2>3, <2>4, <2>5, <2>6
  <2> QED
    BY <2>7, <2>8, <2>9
<1>20. ASSUME NEW r \in Runtime, PollerWake(r) PROVE VersionInv'
  BY <1>20 DEF PollerWake
<1>21. ASSUME NEW q \in Request, NEW s \in Slot, Capture(q, s)
       PROVE VersionInv'
  BY <1>21 DEF Capture
<1>22. ASSUME NEW q \in Request, Screen(q) PROVE VersionInv'
  BY <1>22 DEF Screen
<1>23. CASE PublishProfile
  BY <1>23, <1>0 DEF PublishProfile
<1>24. CASE UNCHANGED vars
  BY <1>24 DEF vars
<1> QED
  BY <1>1, <1>2, <1>3, <1>4, <1>5, <1>6, <1>7, <1>8, <1>9, <1>10, <1>11,
     <1>12, <1>13, <1>14, <1>15, <1>16, <1>17, <1>18, <1>19, <1>20,
     <1>21, <1>22, <1>23, <1>24
  DEF Next, CallerStep, PollerStep, Refresh, Process

\* One step never takes rules away from a runtime that was not told to stop.
LEMMA RegressStep ==
  ASSUME TypeOK, ControlInv, VersionInv, [Next]_vars
  PROVE  \A r \in Runtime :
           ~stopEvent'[r] => store'[r].version >= store[r].version
<1> DEFINE Keeps == \A r \in Runtime :
                      ~stopEvent'[r] => store'[r].version >= store[r].version
<1>1. \A r \in Runtime : store[r].version \in Nat
  BY DEF TypeOK, Snapshot, Version
<1>2. store' = store => Keeps
  BY <1>1
<1>3. ASSUME NEW c \in Caller, ClearStore(c) PROVE Keeps
  <2>1. stopEvent[mine[c]] /\ stopEvent' = stopEvent
    BY <1>3 DEF ClearStore, ControlInv, Stopping, runtimeVars
  <2>2. \A r \in Runtime : r # mine[c] => store'[r] = store[r]
    BY <1>3 DEF ClearStore, TypeOK
  <2> QED
    BY <1>1, <2>1, <2>2
<1>4. ASSUME NEW p \in Process, RefreshStore(p) PROVE Keeps
  <2>1. store[Target(p)].version =< reply[p].version
    BY <1>4 DEF RefreshStore, VersionInv
  <2>2. Target(p) \in Runtime /\ reply[p].version \in Nat
    BY <1>4, TargetType DEF RefreshStore, TypeOK, Snapshot, Version
  <2>3. \A r \in Runtime :
          store'[r] = IF r = Target(p) THEN reply[p] ELSE store[r]
    BY <1>4, <2>2 DEF RefreshStore, TypeOK
  <2> QED
    BY <1>1, <2>1, <2>2, <2>3
<1>5. \/ \E c \in Caller : ClearStore(c)
      \/ \E p \in Process : RefreshStore(p)
      \/ store' = store
  BY DEF Next, CallerStep, PollerStep, Refresh, Process, vars, runtimeVars,
     InitCall, ShutdownCall, KeepRuntime, Acquire, SetStop, Join, Unhook, Gate,
     UnhookOff, Register, StartThread, StartThreadFails, Publish, RefreshRead,
     FetchFails, FetchNotModified, FetchCompiles, PollerWake, Capture, Screen,
     PublishProfile
<1> HIDE DEF Keeps
<1>6. Keeps
  BY <1>2, <1>3, <1>4, <1>5
<1> QED
  BY <1>6 DEF Keeps

-----------------------------------------------------------------------------
(* Requests. *)

RequestInv ==
  /\ \A q \in Request :
       req[q].at = "captured" /\ req[q].floor # 0 =>
         /\ lock = Free /\ global # None
         /\ req[q].handler = global
         /\ req[q].floor =< store[global].version
  /\ RequestsKeepUp

\* What a request was promised, and what it has seen, survives every step.
LEMMA RequestStep ==
  TypeOK /\ ControlInv /\ HookInv /\ VersionInv /\ RequestInv /\ [Next]_vars
  => RequestInv'
<1> SUFFICES ASSUME TypeOK, ControlInv, HookInv, VersionInv, RequestInv,
                    [Next]_vars
             PROVE RequestInv'
  OBVIOUS
<1>a. /\ \A r \in Runtime : store[r].version \in Nat
      /\ \A q \in Request : req[q].floor \in Nat /\ req[q].seen \in Nat
      /\ \A r \in Runtime : store'[r].version \in Nat
  BY TypeStep DEF TypeOK, Snapshot, Version
<1>b. lock = Free /\ global # None => global \in Runtime /\ ~stopEvent[global]
  BY FreeAssumption
  DEF TypeOK, ControlInv, Stopping, None
\* While the lock is free and the requests are left alone, what the current
\* promises rest on cannot change.
<1>c. ASSUME UNCHANGED <<lock, global, stopEvent, req>> PROVE RequestInv'
  BY <1>a, <1>b, <1>c, RegressStep DEF RequestInv, RequestsKeepUp
<1>d. ASSUME NEW c \in Caller, lock = c, req' = req PROVE RequestInv'
  BY <1>d, FreeAssumption DEF RequestInv, RequestsKeepUp
<1> USE DEF Goto, world, shared, callerVars, fetchVars, runtimeVars
<1>1. ASSUME NEW c \in Caller, InitCall(c) PROVE RequestInv'
  BY <1>1, <1>c DEF InitCall
<1>2. ASSUME NEW c \in Caller, ShutdownCall(c) PROVE RequestInv'
  BY <1>2, <1>c DEF ShutdownCall
<1>3. ASSUME NEW c \in Caller, KeepRuntime(c) PROVE RequestInv'
  BY <1>3, <1>c DEF KeepRuntime, Return
<1>4. ASSUME NEW c \in Caller, Acquire(c) PROVE RequestInv'
  <2>1. \A q \in Request : /\ req'[q].floor = 0
                           /\ req'[q].seen \in Nat
    BY <1>4, <1>a DEF Acquire, TypeOK
  <2> QED
    BY <2>1 DEF RequestInv, RequestsKeepUp
<1>5. ASSUME NEW c \in Caller, SetStop(c) PROVE RequestInv'
  BY <1>5, <1>d DEF SetStop, ControlInv
<1>6. ASSUME NEW c \in Caller, Join(c) PROVE RequestInv'
  BY <1>6, <1>c DEF Join
<1>7. ASSUME NEW c \in Caller, ClearStore(c) PROVE RequestInv'
  BY <1>7, <1>c DEF ClearStore
<1>8. ASSUME NEW c \in Caller, Unhook(c) PROVE RequestInv'
  BY <1>8, <1>c DEF Unhook
<1>9. ASSUME NEW c \in Caller, Gate(c) PROVE RequestInv'
  BY <1>9, <1>d DEF Gate, ControlInv
<1>10. ASSUME NEW c \in Caller, UnhookOff(c) PROVE RequestInv'
  BY <1>10, <1>d DEF UnhookOff, ControlInv
<1>11. ASSUME NEW c \in Caller, Register(c) PROVE RequestInv'
  BY <1>11, <1>c DEF Register
<1>12. ASSUME NEW c \in Caller, StartThread(c) PROVE RequestInv'
  BY <1>12, <1>c DEF StartThread
<1>13. ASSUME NEW c \in Caller, StartThreadFails(c) PROVE RequestInv'
  BY <1>13, <1>d DEF StartThreadFails, ControlInv
<1>14. ASSUME NEW c \in Caller, Publish(c) PROVE RequestInv'
  BY <1>14, <1>d DEF Publish, ControlInv
<1>15. ASSUME NEW p \in Process, RefreshRead(p) PROVE RequestInv'
  BY <1>15, <1>c DEF RefreshRead
<1>16. ASSUME NEW p \in Process, FetchFails(p) PROVE RequestInv'
  BY <1>16, <1>c DEF FetchFails
<1>17. ASSUME NEW p \in Process, FetchNotModified(p) PROVE RequestInv'
  BY <1>17, <1>c DEF FetchNotModified
<1>18. ASSUME NEW p \in Process, FetchCompiles(p) PROVE RequestInv'
  BY <1>18, <1>c DEF FetchCompiles
<1>19. ASSUME NEW p \in Process, RefreshStore(p) PROVE RequestInv'
  BY <1>19, <1>c DEF RefreshStore
<1>20. ASSUME NEW r \in Runtime, PollerWake(r) PROVE RequestInv'
  BY <1>20, <1>c DEF PollerWake
<1>21. ASSUME NEW q \in Request, NEW s \in Slot, Capture(q, s)
       PROVE RequestInv'
  <2>1. \A o \in Request : o # q => req'[o] = req[o]
    BY <1>21 DEF Capture, TypeOK
  <2>2. UNCHANGED <<lock, global, store>>
    BY <1>21 DEF Capture
  <2>3. /\ req'[q].at = "captured" /\ req'[q].handler = registered[s]
        /\ req'[q].floor = IF lock = Free /\ global # None
                             THEN store[global].version ELSE 0
    BY <1>21 DEF Capture, TypeOK
  <2>4. lock = Free /\ global # None => registered[s] = global
    BY DEF HookInv, HandlersAgree
  <2> QED
    BY <1>a, <1>b, <2>1, <2>2, <2>3, <2>4 DEF RequestInv, RequestsKeepUp
<1>22. ASSUME NEW q \in Request, Screen(q) PROVE RequestInv'
  <2>1. \A o \in Request : o # q => req'[o] = req[o]
    BY <1>22 DEF Screen, TypeOK
  <2>2. UNCHANGED <<lock, global, store>> /\ req[q].at = "captured"
    BY <1>22 DEF Screen
  <2>3. /\ req'[q].at = "idle" /\ req'[q].floor = req[q].floor
        /\ req'[q].seen = IF req[q].handler = None
                            THEN 0 ELSE store[req[q].handler].version
    BY <1>22 DEF Screen, TypeOK
  <2>4. req[q].handler \in Runtime \cup {None}
    BY DEF TypeOK
  <2>5. req'[q].seen >= req'[q].floor
    BY <1>a, <2>2, <2>3, <2>4 DEF RequestInv
  <2> QED
    BY <2>1, <2>2, <2>3, <2>5 DEF RequestInv, RequestsKeepUp
<1>23. CASE PublishProfile
  BY <1>23, <1>c DEF PublishProfile
<1>24. CASE UNCHANGED vars
  BY <1>24, <1>c DEF vars
<1> QED
  BY <1>1, <1>2, <1>3, <1>4, <1>5, <1>6, <1>7, <1>8, <1>9, <1>10, <1>11,
     <1>12, <1>13, <1>14, <1>15, <1>16, <1>17, <1>18, <1>19, <1>20,
     <1>21, <1>22, <1>23, <1>24
  DEF Next, CallerStep, PollerStep, Refresh, Process

-----------------------------------------------------------------------------
(* The theorems. *)

IInv == TypeOK /\ ControlInv /\ HookInv /\ VersionInv /\ RequestInv

\* The invariant holds in the beginning.
LEMMA InitInv == Init => IInv
<1> SUFFICES ASSUME Init PROVE IInv
  OBVIOUS
<1>1. VersionInv
  <2>1. \A r \in Runtime : store[r].version = 0
    BY DEF Init, Empty
  <2>2. \A p \in Process : pc[p] # "store"
    BY DEF Init
  <2> QED
    BY <2>1, <2>2 DEF Init, VersionInv
<1>2. RequestInv
  BY DEF Init, RequestInv, RequestsKeepUp
<1> QED
  BY <1>1, <1>2, InitControl, InitHooks DEF IInv

\* Every step preserves the invariant.
LEMMA StepInv == IInv /\ [Next]_vars => IInv'
BY TypeStep, ControlStep, HookStep, VersionStep, RequestStep DEF IInv

\* The inductive invariant holds of every behaviour.
THEOREM Invariant == Spec => []IInv
<1>1. Init => IInv
  BY InitInv
<1>2. IInv /\ [Next]_vars => IInv'
  BY StepInv
<1> QED
  BY <1>1, <1>2, PTL DEF Spec

\* Every variable of the runtime model has its type, for any number of calling
\* threads, configurations and requests.
THEOREM TypeCorrect == Spec => []TypeOK
<1>1. IInv => TypeOK
  BY DEF IInv
<1> QED
  BY <1>1, Invariant, PTL

\* Outside the lock the three registrations always belong together and to the
\* global runtime (runtime.py: configure, stop, start), even if threads fail
\* to start.
THEOREM HandlersAlwaysAgree == Spec => []HandlersAgree
<1>1. IInv => HandlersAgree
  BY DEF IInv, HookInv
<1> QED
  BY <1>1, Invariant, PTL

\* Outside the lock the global runtime is not stopped and its poller runs.
THEOREM GlobalRuntimeAlwaysLives == Spec => []GlobalRuntimeLives
<1>1. IInv => GlobalRuntimeLives
  BY FreeAssumption
  DEF IInv, TypeOK, ControlInv, GlobalRuntimeLives, Stopping, None
<1> QED
  BY <1>1, Invariant, PTL

\* init() and the pollers never refresh one runtime at the same time.
THEOREM AlwaysOneRefresher == Spec => []OneRefresher
<1>1. IInv => OneRefresher
  BY ControlOneRefresher DEF IInv
<1> QED
  BY <1>1, Invariant, PTL

\* No interleaving of polls, calls and failures makes the rules of a running
\* runtime older or drops them.
THEOREM RulesNeverGoBack == Spec => RulesNeverRegress
<1>1. IInv /\ [Next]_vars =>
        [\A r \in Runtime :
           ~stopEvent'[r] => store'[r].version >= store[r].version]_vars
  BY RegressStep DEF IInv
<1> QED
  BY <1>1, Invariant, PTL DEF Spec, RulesNeverRegress

\* A request that no call overlaps is screened with rules at least as new as
\* those in force when it began.
THEOREM RequestsAlwaysKeepUp == Spec => []RequestsKeepUp
<1>1. IInv => RequestsKeepUp
  BY DEF IInv, RequestInv
<1> QED
  BY <1>1, Invariant, PTL


-----------------------------------------------------------------------------
(* Least and greatest elements, which stand for induction here.            *)

LEMMA LeastNumber ==
  ASSUME NEW S \in SUBSET Nat, S # {}
  PROVE  \E x \in S : \A y \in S : x <= y
<1> DEFINE less == {ss \in Nat \X Nat : ss[1] < ss[2]}
<1>1. IsWellFoundedOn(less, Nat)
  BY NatLessThanWellFounded DEF OpToRel
<1>2. \A x, y \in Nat : <<y, x>> \in less <=> y < x
  OBVIOUS
<1> HIDE DEF less
<1>3. PICK x \in S : \A y \in S : <<y, x>> \notin less
  BY <1>1, WFMin
<1>4. S \subseteq Nat
  OBVIOUS
<1>5. ASSUME NEW y \in S
      PROVE  x <= y
  <2>1. x \in Nat /\ y \in Nat
    BY <1>4
  <2>2. ~(y < x)
    BY <1>2, <1>3, <2>1
  <2> QED BY ONLY <2>1, <2>2
<1> QED BY <1>5

LEMMA GreatestNumber ==
  ASSUME NEW n \in Nat, NEW S \in SUBSET (0..n), S # {}
  PROVE  \E x \in S : \A y \in S : y <= x
<1> DEFINE left == {n - i : i \in S}
<1>1. \A i \in S : i \in 0..n /\ n - i \in Nat
  BY S \subseteq 0..n
<1>1a. left \in SUBSET Nat /\ left # {}
  BY <1>1
<1> HIDE DEF left
<1>2. PICK x \in left : \A y \in left : x <= y
  BY <1>1a, LeastNumber
<1> USE DEF left
<1>3. PICK i \in S : x = n - i
  BY <1>2
<1>4. ASSUME NEW j \in S
      PROVE  j <= i
  <2>1. n - i <= n - j
    BY <1>2, <1>3
  <2>2. i \in 0..n /\ j \in 0..n
    BY <1>1
  <2> QED BY ONLY <2>1, <2>2, n \in Nat
<1> QED BY <1>4

-----------------------------------------------------------------------------
(* A left-to-right scan.                                                    *)

\* What a scan takes: it takes only spans there are, no two that overlap, and
\* passes over none but for one taken before that covers its beginning.
Scanned(n, length, S) ==
  /\ \A i \in 0..(n - 1) : length[i] \in Nat
  /\ S \subseteq {i \in 0..(n - 1) : length[i] > 0}
  /\ \A i, j \in S : i < j => i + length[i] <= j
  /\ \A i \in 0..(n - 1) :
       (length[i] > 0 /\ i \notin S) =>
         \E j \in S : j < i /\ i < j + length[j]

\* The recurrence that defines the ends of the spans a scan took.
EndsOf(n, length, end) ==
  end = [i \in 0..n |->
           IF i = 0 THEN 0
           ELSE IF length[i - 1] > 0 /\ end[i - 1] <= i - 1
                  THEN i - 1 + length[i - 1] ELSE end[i - 1]]

LEMMA EndsExist ==
  ASSUME NEW n \in Nat, NEW length
  PROVE  \E end : EndsOf(n, length, end)
<1> DEFINE Bad == {m \in Nat : ~ \E end : EndsOf(m, length, end)}
<1>1. SUFFICES ASSUME Bad # {} PROVE FALSE
  OBVIOUS
<1>2. PICK m \in Bad : \A k \in Bad : m <= k
  BY <1>1, LeastNumber
<1>3. m # 0
  <2>1. EndsOf(0, length, [i \in 0..0 |-> 0])
    BY DEF EndsOf
  <2> QED BY <2>1
<1>4. m - 1 \in Nat /\ m - 1 \notin Bad
  BY <1>2, <1>3
<1>5. PICK e : EndsOf(m - 1, length, e)
  BY <1>4
<1> DEFINE last == IF length[m - 1] > 0 /\ e[m - 1] <= m - 1
                     THEN m - 1 + length[m - 1] ELSE e[m - 1]
           d == [i \in 0..m |-> IF i = m THEN last ELSE e[i]]
<1>6. EndsOf(m, length, d)
  <2> HIDE DEF last
  <2>1. \A i \in 0..(m - 1) : d[i] = e[i]
    BY m \in Nat
  <2>2. ASSUME NEW i \in 0..m
        PROVE  d[i] = IF i = 0 THEN 0
                 ELSE IF length[i - 1] > 0 /\ d[i - 1] <= i - 1
                        THEN i - 1 + length[i - 1] ELSE d[i - 1]
    <3>1. CASE i = m
      <4>1. d[i] = last /\ i # 0 /\ d[i - 1] = e[i - 1]
        BY <3>1, <1>3, <2>1
      <4> QED BY <4>1, <3>1 DEF last
    <3>2. CASE i # m /\ i # 0
      <4>1. i \in 0..(m - 1) /\ i - 1 \in 0..(m - 1)
        BY <3>2
      <4>2. d[i] = e[i] /\ d[i - 1] = e[i - 1]
        BY <2>1, <4>1
      <4>3. e[i] = IF length[i - 1] > 0 /\ e[i - 1] <= i - 1
                     THEN i - 1 + length[i - 1] ELSE e[i - 1]
        BY <1>5, <4>1, <3>2 DEF EndsOf
      <4> QED BY <4>2, <4>3, <3>2
    <3>3. CASE i # m /\ i = 0
      <4>1. e[0] = 0
        BY <1>5, <1>4 DEF EndsOf
      <4>2. 0 \in 0..(m - 1)
        BY <1>4
      <4> QED BY <4>1, <4>2, <2>1, <3>3
    <3> QED BY <3>1, <3>2, <3>3
  <2>3. d = [i \in 0..m |-> d[i]]
    OBVIOUS
  <2> HIDE DEF d
  <2>4. d = [i \in 0..m |-> IF i = 0 THEN 0
                 ELSE IF length[i - 1] > 0 /\ d[i - 1] <= i - 1
                        THEN i - 1 + length[i - 1] ELSE d[i - 1]]
    BY <2>2, <2>3
  <2> QED BY <2>4 DEF EndsOf
<1> QED BY <1>6

\* The scan as the model defines it takes what a scan takes.
LEMMA ScanTakes ==
  ASSUME NEW n \in Nat, NEW D, 0..(n - 1) \subseteq D, NEW length \in [D -> Nat]
  PROVE  Scanned(n, length, LeftToRight(n, length))
<1> DEFINE end == CHOOSE e : EndsOf(n, length, e)
           S == {i \in 0..(n - 1) : length[i] > 0 /\ end[i] <= i}
<1>1. EndsOf(n, length, end)
  BY EndsExist
<1>2. LeftToRight(n, length) = S
  BY DEF LeftToRight, EndsOf
<1> HIDE DEF end
<1>3. \A i \in 0..(n - 1) : length[i] \in Nat
  OBVIOUS
<1>4. end[0] = 0
  BY <1>1 DEF EndsOf
<1>5. ASSUME NEW i \in 0..(n - 1)
      PROVE  end[i + 1] = IF length[i] > 0 /\ end[i] <= i
                            THEN i + length[i] ELSE end[i]
  <2>1. i + 1 \in 0..n /\ i + 1 # 0 /\ (i + 1) - 1 = i
    OBVIOUS
  <2> QED BY <1>1, <2>1 DEF EndsOf
\* What is true of end[i], for every i.
<1> DEFINE Told(i) ==
      /\ end[i] \in Nat
      /\ \A j \in S : j < i => j + length[j] <= end[i]
      /\ end[i] > 0 => \E j \in S : j < i /\ end[i] = j + length[j]
    Bad == {i \in 0..n : ~Told(i)}
<1>6. \A i \in 0..n : Told(i)
  <2>1. SUFFICES ASSUME Bad # {} PROVE FALSE
    BY DEF Bad
  <2>2. PICK m \in Bad : \A k \in Bad : m <= k
    <3>1. Bad \in SUBSET Nat
      OBVIOUS
    <3> QED BY <2>1, <3>1, LeastNumber
  <2>3. m \in 0..n /\ ~Told(m)
    OBVIOUS
  <2>4. Told(0)
    BY <1>4
  <2>5. m # 0
    BY <2>3, <2>4
  <2> DEFINE i == m - 1
  <2>6. i \in 0..(n - 1) /\ i \in 0..n /\ m = i + 1
    BY <2>3, <2>5
  <2>7. Told(i)
    <3>1. ~(m <= i)
      BY <2>6
    <3> QED BY <2>2, <2>6, <3>1
  <2> HIDE DEF i
  <2>8. CASE length[i] > 0 /\ end[i] <= i
    <3>1. i \in S /\ end[m] = i + length[i]
      BY <2>6, <2>8, <1>5
    <3>2. end[m] \in Nat
      BY <3>1, <2>6, <1>3
    <3>3. ASSUME NEW j \in S, j < m
          PROVE  j + length[j] <= end[m]
      <4>1. CASE j = i
        BY <4>1, <3>1, <3>2
      <4>2. CASE j # i
        <5>1. j < i
          BY <4>2, <3>3, <2>6
        <5>2. j + length[j] <= end[i]
          BY <5>1, <2>7
        <5>3. length[j] \in Nat /\ length[i] \in Nat /\ j \in Int /\ end[i] \in Nat
          BY <2>6, <2>7, <1>3
        <5> QED BY <5>2, <5>3, <3>1, <2>8, <2>6
      <4> QED BY <4>1, <4>2
    <3>4. \E j \in S : j < m /\ end[m] = j + length[j]
      BY <3>1, <2>6
    <3> QED BY <3>2, <3>3, <3>4, <2>3
  <2>9. CASE ~(length[i] > 0 /\ end[i] <= i)
    <3>1. end[m] = end[i] /\ i \notin S
      BY <2>6, <2>9, <1>5
    <3>2. \A j \in S : j < m <=> j < i
      BY <3>1, <2>6
    <3> QED BY <3>1, <3>2, <2>7, <2>3
  <2> QED BY <2>8, <2>9
<1>7. ASSUME NEW i \in S, NEW j \in S, i < j
      PROVE  i + length[i] <= j
  <2>1. j \in 0..n /\ end[j] <= j /\ i \in 0..n
    OBVIOUS
  <2>2. end[j] \in Nat /\ i + length[i] <= end[j]
    BY <1>6, <1>7, <2>1
  <2>3. length[i] \in Nat
    BY <1>3
  <2> QED BY <2>1, <2>2, <2>3
<1>8. ASSUME NEW i \in 0..(n - 1), length[i] > 0, i \notin S
      PROVE  \E j \in S : j < i /\ i < j + length[j]
  <2>1. ~(end[i] <= i)
    BY <1>8
  <2>2. i \in 0..n
    OBVIOUS
  <2>3. end[i] \in Nat /\ end[i] > i
    BY <2>1, <2>2, <1>6
  <2>4. end[i] > 0
    BY <2>3
  <2> QED BY <2>2, <2>3, <2>4, <1>6
<1>9. S \subseteq {i \in 0..(n - 1) : length[i] > 0}
  OBVIOUS
<1> HIDE DEF S
<1> QED BY <1>2, <1>3, <1>7, <1>8, <1>9 DEF Scanned

\* Only one set can be what a scan takes.
LEMMA ScanUnique ==
  ASSUME NEW n \in Nat, NEW length, NEW S, NEW T,
         Scanned(n, length, S), Scanned(n, length, T)
  PROVE  S = T
<1> DEFINE Odd == {i \in 0..(n - 1) : ~(i \in S <=> i \in T)}
<1>1. S \subseteq 0..(n - 1) /\ T \subseteq 0..(n - 1)
  BY DEF Scanned
<1>2. SUFFICES ASSUME Odd # {} PROVE FALSE
  BY <1>1
<1>3. PICK i \in Odd : \A j \in Odd : i <= j
  <2>1. Odd \in SUBSET Nat
    OBVIOUS
  <2> QED BY <1>2, <2>1, LeastNumber
<1>4. ASSUME NEW A, NEW B, Scanned(n, length, A), Scanned(n, length, B),
             i \in A, i \notin B,
             \A j \in 0..(n - 1) : j < i => (j \in A <=> j \in B)
      PROVE  FALSE
  <2>1. i \in 0..(n - 1) /\ length[i] > 0
    BY <1>4 DEF Scanned
  <2>2. PICK j \in B : j < i /\ i < j + length[j]
    BY <2>1, <1>4 DEF Scanned
  <2>3. j \in 0..(n - 1)
    BY <1>4 DEF Scanned
  <2>4. j \in A
    BY <2>2, <2>3, <1>4
  <2>5. j + length[j] <= i
    BY <2>2, <2>4, <1>4 DEF Scanned
  <2>6. j + length[j] > i
    BY <2>2
  <2>7. length[j] \in Nat
    BY <2>3, <1>4 DEF Scanned
  <2> QED BY <2>1, <2>3, <2>5, <2>6, <2>7
<1>5. \A j \in 0..(n - 1) : j < i => (j \in S <=> j \in T)
  <2>1. \A j \in 0..(n - 1) : j < i => ~(i <= j)
    OBVIOUS
  <2> QED BY <1>3, <2>1
<1>6. (i \in S /\ i \notin T) \/ (i \in T /\ i \notin S)
  OBVIOUS
<1> QED BY <1>4, <1>5, <1>6

-----------------------------------------------------------------------------
(* Occurrences and matches of one value in a text.                          *)

Values == Seq(Alphabet) \ {<<>>}

\* The text from position o on.
From(all, o) == SubSeq(all, o + 1, Len(all))

LEMMA FromFacts ==
  ASSUME NEW all \in Seq(Alphabet), NEW o \in 0..Len(all)
  PROVE  From(all, o) \in Seq(Alphabet) /\ Len(From(all, o)) = Len(all) - o
<1>1. Len(all) \in Nat
  BY LenProperties
<1>2. \A i \in (o + 1)..Len(all) : all[i] \in Alphabet
  BY <1>1, ElementOfSeq
<1>3. o + 1 \in Int /\ Len(all) \in Int
  BY <1>1
<1>4. /\ SubSeq(all, o + 1, Len(all)) \in Seq(Alphabet)
      /\ Len(SubSeq(all, o + 1, Len(all)))
           = IF o + 1 <= Len(all) THEN Len(all) - (o + 1) + 1 ELSE 0
  BY <1>2, <1>3, SubSeqProperties
<1> DEFINE n == Len(all) m == Len(SubSeq(all, o + 1, Len(all)))
<1>5. m = n - o
  <2>1. m = (IF o + 1 <= n THEN n - (o + 1) + 1 ELSE 0) /\ n \in Nat /\ o \in 0..n
    BY <1>1, <1>4
  <2> QED BY ONLY <2>1
<1> QED BY <1>4, <1>5 DEF From

LEMMA ValueLength ==
  ASSUME NEW value \in Values
  PROVE  Len(value) \in Nat /\ Len(value) > 0
<1>1. value \in Seq(Alphabet) /\ value # <<>>
  BY DEF Values
<1>2. Len(value) \in Nat /\ Len(value) # 0
  BY <1>1, LenProperties, EmptySeq
<1> QED BY <1>2

\* What is received later changes no occurrence in what was received.
LEMMA OccursInPrefix ==
  ASSUME NEW all \in Seq(Alphabet), NEW more \in Seq(Alphabet),
         NEW value \in Values, NEW i \in Nat, i + Len(value) <= Len(all)
  PROVE  OccursAt(all \o more, value, i) <=> OccursAt(all, value, i)
<1>1. Len(value) \in Nat /\ Len(value) > 0 /\ Len(all) \in Nat /\ Len(more) \in Nat
  BY ValueLength, LenProperties
<1>2. Len(all \o more) = Len(all) + Len(more)
  BY ConcatProperties
<1>3. i + 1 \in 1..Len(all) /\ i + Len(value) \in 1..Len(all)
  BY ONLY <1>1, i \in Nat, i + Len(value) <= Len(all)
<1>4. SubSeq(all \o more, i + 1, i + Len(value)) = SubSeq(all, i + 1, i + Len(value))
  BY <1>3, SubSeqOfConcat1
<1>5. i + Len(value) <= Len(all) + Len(more)
  BY ONLY <1>1, i \in Nat, i + Len(value) <= Len(all)
<1> QED BY <1>2, <1>4, <1>5 DEF OccursAt

\* An occurrence in the pending text is one in the text, and conversely.
LEMMA OccursInSuffix ==
  ASSUME NEW all \in Seq(Alphabet), NEW o \in 0..Len(all),
         NEW value \in Values, NEW i \in Nat
  PROVE  OccursAt(From(all, o), value, i) <=> OccursAt(all, value, i + o)
<1> DEFINE n == Len(all) v == Len(value) u == From(all, o)
<1>1. v \in Nat /\ v > 0 /\ n \in Nat
  BY ValueLength, LenProperties
<1>2. Len(u) = n - o
  BY FromFacts
<1>3. i + v <= n - o <=> (i + o) + v <= n
  BY ONLY <1>1, i \in Nat, o \in 0..n
<1>4. ASSUME i + v <= n - o
      PROVE  SubSeq(u, i + 1, i + v) = SubSeq(all, (i + o) + 1, (i + o) + v)
  <2>1. o + 1 \in 1..n /\ n \in 1..n
    BY ONLY <1>1, <1>4, i \in Nat, o \in 0..n
  <2>2. i + 1 \in 1..(n - (o + 1) + 1) /\ i + v \in 1..(n - (o + 1) + 1)
    BY ONLY <1>1, <1>4, i \in Nat, o \in 0..n
  <2>3. SubSeq(SubSeq(all, o + 1, n), i + 1, i + v)
          = SubSeq(all, (o + 1) + (i + 1) - 1, (o + 1) + (i + v) - 1)
    BY <2>1, <2>2, SubSeqOfSubSeq
  <2>4. (o + 1) + (i + 1) - 1 = (i + o) + 1 /\ (o + 1) + (i + v) - 1 = (i + o) + v
    BY ONLY <1>1, i \in Nat, o \in 0..n
  <2> QED BY <2>3, <2>4 DEF From
<1> QED BY <1>2, <1>3, <1>4 DEF OccursAt

\* S is what a scan for one value takes of a text.
Taken(all, value, S) ==
  /\ \A i \in S : i \in Nat /\ OccursAt(all, value, i) /\ i + Len(value) <= Len(all)
  /\ \A i, j \in S : i < j => i + Len(value) <= j
  /\ \A i \in Nat :
       (OccursAt(all, value, i) /\ i \notin S) =>
         \E j \in S : j < i /\ i < j + Len(value)

LEMMA TakenOnce ==
  ASSUME NEW all \in Seq(Alphabet), NEW value \in Values
  PROVE  /\ Taken(all, value, LiteralMatches(all, value))
         /\ \A S : Taken(all, value, S) => S = LiteralMatches(all, value)
<1> DEFINE n == Len(all) v == Len(value)
           length == [i \in 0..(n - 1) |-> IF OccursAt(all, value, i) THEN v ELSE 0]
           L == LiteralMatches(all, value)
<1>1. v \in Nat /\ v > 0 /\ n \in Nat
  BY ValueLength, LenProperties
<1>2. length \in [0..(n - 1) -> Nat]
  BY <1>1
<1>3. L = LeftToRight(n, length)
  BY DEF LiteralMatches
<1>4. \A i \in 0..(n - 1) :
        /\ length[i] > 0 <=> OccursAt(all, value, i)
        /\ OccursAt(all, value, i) => length[i] = v
  BY <1>1
<1>5. \A i \in Nat : OccursAt(all, value, i) => i \in 0..(n - 1) /\ i + v <= n
  BY <1>1 DEF OccursAt
<1> HIDE DEF length
<1>6. Scanned(n, length, L)
  BY <1>1, <1>2, <1>3, ScanTakes
<1>7. ASSUME NEW S
      PROVE  Taken(all, value, S) <=> Scanned(n, length, S)
  <2> HIDE DEF n, v, L
  <2>1. \A i \in 0..(n - 1) : i \in Nat /\ length[i] \in Nat
    BY <1>1, <1>2
  <2>2. ASSUME Taken(all, value, S)
        PROVE  Scanned(n, length, S)
    <3>1. \A i \in S : i \in 0..(n - 1) /\ length[i] > 0 /\ length[i] = v
      BY <2>2, <1>4, <1>5 DEF Taken
    <3>2. \A i, j \in S : i < j => i + length[i] <= j
      BY <2>2, <3>1 DEF Taken, v
    <3>3. \A i \in 0..(n - 1) : (length[i] > 0 /\ i \notin S) =>
             \E j \in S : j < i /\ i < j + length[j]
      BY <2>1, <2>2, <3>1, <1>4 DEF Taken, v
    <3> QED BY <2>1, <3>1, <3>2, <3>3 DEF Scanned
  <2>3. ASSUME Scanned(n, length, S)
        PROVE  Taken(all, value, S)
    <3>1. \A i \in S : i \in 0..(n - 1) /\ OccursAt(all, value, i) /\ length[i] = v
      BY <2>3, <1>4 DEF Scanned
    <3>2. \A i \in S : i \in Nat /\ OccursAt(all, value, i) /\ i + Len(value) <= Len(all)
      BY <3>1, <2>1, <1>5 DEF n, v
    <3>3. \A i, j \in S : i < j => i + Len(value) <= j
      BY <2>3, <3>1 DEF Scanned, v
    <3>4. \A i \in Nat : (OccursAt(all, value, i) /\ i \notin S) =>
             \E j \in S : j < i /\ i < j + Len(value)
      <4>1. \A i \in 0..(n - 1) : (OccursAt(all, value, i) /\ i \notin S) =>
             \E j \in S : j < i /\ i < j + length[j]
        BY <2>3, <1>4 DEF Scanned
      <4> QED BY <4>1, <3>1, <1>5 DEF v
    <3> QED BY <3>2, <3>3, <3>4 DEF Taken
  <2> QED BY <2>2, <2>3
<1>8. ASSUME NEW S, Taken(all, value, S)
      PROVE  S = L
  BY <1>1, <1>6, <1>7, <1>8, ScanUnique
<1> QED BY <1>6, <1>7, <1>8

\* The matches in a beginning of a text are those that end in it.
LEMMA MatchesOfPrefix ==
  ASSUME NEW all \in Seq(Alphabet), NEW more \in Seq(Alphabet), NEW value \in Values
  PROVE  LiteralMatches(all, value)
           = {i \in LiteralMatches(all \o more, value) : i + Len(value) <= Len(all)}
<1> DEFINE v == Len(value)
           W == LiteralMatches(all \o more, value)
           T == {i \in W : i + v <= Len(all)}
<1>1. v \in Nat /\ v > 0 /\ Len(all) \in Nat /\ all \o more \in Seq(Alphabet)
  BY ValueLength, LenProperties, ConcatProperties
<1>2. Taken(all \o more, value, W)
  BY <1>1, TakenOnce
<1> HIDE DEF v, W
<1>3. ASSUME NEW i \in T
      PROVE  i \in Nat /\ OccursAt(all, value, i) /\ i + v <= Len(all)
  <2>1. i \in W /\ i + v <= Len(all)
    BY <1>3
  <2>2. i \in Nat /\ OccursAt(all \o more, value, i)
    BY <2>1, <1>2 DEF Taken
  <2>3. OccursAt(all, value, i)
    BY <2>1, <2>2, OccursInPrefix DEF v
  <2> QED BY <2>1, <2>2, <2>3
<1>4. \A i, j \in T : i < j => i + v <= j
  BY <1>2 DEF Taken, v
<1>5. ASSUME NEW i \in Nat, OccursAt(all, value, i), i \notin T
      PROVE  \E j \in T : j < i /\ i < j + v
  <2>1. i + v <= Len(all)
    BY <1>5 DEF OccursAt, v
  <2>2. OccursAt(all \o more, value, i)
    BY <2>1, <1>5, OccursInPrefix DEF v
  <2>3. i \notin W
    BY <2>1, <1>5
  <2>4. PICK j \in W : j < i /\ i < j + v
    BY <2>2, <2>3, <1>2 DEF Taken, v
  <2>5. j \in Nat
    BY <1>2 DEF Taken
  <2>6. j + v <= Len(all)
    BY ONLY <2>1, <2>4, <2>5, <1>1, i \in Nat
  <2> QED BY <2>4, <2>6
<1> HIDE DEF T
<1>6. Taken(all, value, T)
  BY <1>3, <1>4, <1>5 DEF Taken, v
<1>7. T = LiteralMatches(all, value)
  BY <1>6, TakenOnce
<1> QED BY <1>7 DEF T, W, v

\* Where no match goes across o, the scan may as well start at o.
LEMMA MatchesOfSuffix ==
  ASSUME NEW all \in Seq(Alphabet), NEW o \in 0..Len(all), NEW value \in Values,
         \A j \in LiteralMatches(all, value) : ~(j < o /\ o < j + Len(value))
  PROVE  \A i \in Nat : i \in LiteralMatches(From(all, o), value)
                          <=> i + o \in LiteralMatches(all, value)
<1> DEFINE v == Len(value)
           W == LiteralMatches(all, value)
           T == {i \in Nat : i + o \in W}
           u == From(all, o)
<1>1. v \in Nat /\ v > 0 /\ Len(all) \in Nat /\ o \in Nat
  BY ValueLength, LenProperties
<1>2. u \in Seq(Alphabet) /\ Len(u) = Len(all) - o
  BY FromFacts
<1>3. Taken(all, value, W)
  BY TakenOnce
<1>4. \A j \in W : j \in Nat /\ ~(j < o /\ o < j + v)
  BY <1>3 DEF Taken
<1> HIDE DEF v, W, u
<1>5. ASSUME NEW i \in T
      PROVE  i \in Nat /\ OccursAt(u, value, i) /\ i + v <= Len(u)
  <2>1. i \in Nat /\ i + o \in W
    BY <1>5
  <2>2. OccursAt(all, value, i + o) /\ (i + o) + v <= Len(all)
    BY <2>1, <1>3 DEF Taken, v
  <2>3. OccursAt(u, value, i)
    BY <2>1, <2>2, OccursInSuffix DEF u
  <2>4. i + v <= Len(u)
    BY ONLY <2>1, <2>2, <1>1, <1>2
  <2> QED BY <2>1, <2>3, <2>4
<1>6. ASSUME NEW i \in T, NEW j \in T, i < j
      PROVE  i + v <= j
  <2>1. i \in Nat /\ j \in Nat /\ i + o \in W /\ j + o \in W
    OBVIOUS
  <2>2. (i + o) + v <= j + o
    <3>1. i + o < j + o
      BY ONLY <1>1, <1>6, <2>1
    <3> QED BY <3>1, <2>1, <1>3 DEF Taken, v
  <2> QED BY ONLY <2>1, <2>2, <1>1
<1>7. ASSUME NEW i \in Nat, OccursAt(u, value, i), i \notin T
      PROVE  \E j \in T : j < i /\ i < j + v
  <2>1. OccursAt(all, value, i + o)
    BY <1>7, OccursInSuffix DEF u
  <2>2. i + o \notin W /\ i + o \in Nat
    BY <1>1, <1>7
  <2>3. PICK j \in W : j < i + o /\ i + o < j + v
    BY <2>1, <2>2, <1>3 DEF Taken, v
  <2>4. j \in Nat /\ ~(j < o /\ o < j + v)
    BY <1>4
  <2>5. j - o \in Nat /\ (j - o) + o = j /\ j - o < i /\ i < (j - o) + v
    BY ONLY <2>3, <2>4, <1>1, i \in Nat
  <2>6. j - o \in T
    BY <2>3, <2>5
  <2> QED BY <2>5, <2>6
<1> HIDE DEF T
<1>8. Taken(u, value, T)
  BY <1>5, <1>6, <1>7 DEF Taken, v
<1>9. T = LiteralMatches(u, value)
  BY <1>2, <1>8, TakenOnce
<1> QED BY <1>9 DEF T, W, u

\* A match behind o that no other occurrence of its value overlaps is a match
\* of the text from o on.
LEMMA LoneMatchOfSuffix ==
  ASSUME NEW all \in Seq(Alphabet), NEW o \in 0..Len(all), NEW value \in Values,
         NEW i \in Nat, OccursAt(all, value, i + o),
         \A j \in Nat : OccursAt(all, value, j) => ~(j < i + o /\ i + o < j + Len(value))
  PROVE  i \in LiteralMatches(From(all, o), value)
<1> DEFINE v == Len(value) u == From(all, o) S == LiteralMatches(u, value)
<1>1. v \in Nat /\ v > 0 /\ o \in Nat
  BY ValueLength, LenProperties
<1>2. u \in Seq(Alphabet)
  BY FromFacts
<1>3. Taken(u, value, S)
  BY <1>2, TakenOnce
<1>4. OccursAt(u, value, i)
  BY OccursInSuffix
<1> HIDE DEF u, S
<1>5. SUFFICES ASSUME i \notin S PROVE FALSE
  BY DEF S, u
<1>6. PICK j \in S : j < i /\ i < j + v
  BY <1>3, <1>4, <1>5 DEF Taken
<1>7. j \in Nat /\ OccursAt(u, value, j)
  BY <1>3 DEF Taken
<1>8. OccursAt(all, value, j + o)
  BY <1>7, OccursInSuffix DEF u
<1>9. j + o \in Nat /\ j + o < i + o /\ i + o < (j + o) + v
  BY ONLY <1>1, <1>6, <1>7, i \in Nat
<1> QED BY <1>8, <1>9

-----------------------------------------------------------------------------
(* Findings.                                                                *)

LEMMA ValueOfRule ==
  ASSUME NEW r \in Rules, NEW k \in DOMAIN r.values
  PROVE  r.values[k] \in Values /\ k \in Nat /\ r.action \in {"ALLOW", "MASK"}
<1>1. r.values \in Seq(Values) /\ r.action \in {"ALLOW", "MASK"}
  BY RulesAssumption DEF Values
<1> DEFINE s == r.values
<1>2. k \in DOMAIN s /\ s \in Seq(Values)
  BY <1>1
<1> HIDE DEF s
<1>3. k \in 1..Len(s) /\ s[k] \in Values
  BY <1>2, LenProperties, ElementOfSeq
<1> QED BY <1>1, <1>3 DEF s

\* What is known of a finding, cut off at MaxMatches or not.
Found(all, f) ==
  /\ f.rule \in Rules /\ f.value \in DOMAIN f.rule.values /\ f.value \in Nat
  /\ f.rule.values[f.value] \in Values
  /\ f.start \in Nat /\ f.end \in Nat
  /\ f.end = f.start + Len(f.rule.values[f.value])
  /\ f.start < f.end /\ f.end <= Len(all)
  /\ OccursAt(all, f.rule.values[f.value], f.start)
  /\ f.start \in LiteralMatches(all, f.rule.values[f.value])
  /\ f = FindingAt(f.rule, f.value, f.start)
  /\ f \in Occurrences(all)

LEMMA FindingFields ==
  ASSUME NEW r, NEW k, NEW i
  PROVE  /\ FindingAt(r, k, i).rule = r /\ FindingAt(r, k, i).value = k
         /\ FindingAt(r, k, i).start = i
         /\ FindingAt(r, k, i).end = i + Len(r.values[k])
BY DEF FindingAt

LEMMA OccurrenceIs ==
  ASSUME NEW all \in Seq(Alphabet), NEW r \in Rules, NEW k \in DOMAIN r.values,
         NEW i \in Nat, OccursAt(all, r.values[k], i)
  PROVE  FindingAt(r, k, i) \in Occurrences(all)
<1>1. i \in 0..Len(all)
  <2>1. i + Len(r.values[k]) <= Len(all)
    BY DEF OccursAt
  <2>2. Len(r.values[k]) \in Nat /\ Len(all) \in Nat
    BY ValueOfRule, ValueLength, LenProperties
  <2> QED BY ONLY <2>1, <2>2, i \in Nat
<1> QED BY <1>1 DEF Occurrences, OccurrencesOf

LEMMA FoundOfRule ==
  ASSUME NEW all \in Seq(Alphabet), NEW r \in Rules, NEW f \in AllFindings(r, all)
  PROVE  Found(all, f) /\ f.rule = r
<1>0. PICK k \in DOMAIN r.values :
        f \in {FindingAt(r, k, i) : i \in LiteralMatches(all, r.values[k])}
  BY DEF AllFindings
<1> DEFINE v == r.values[k]
<1>1. PICK i \in LiteralMatches(all, v) : f = FindingAt(r, k, i)
  BY <1>0
<1>2. v \in Values /\ k \in Nat
  BY ValueOfRule
<1>3. Len(v) \in Nat /\ Len(v) > 0
  BY <1>2, ValueLength
<1>4. i \in Nat /\ OccursAt(all, v, i) /\ i + Len(v) <= Len(all)
  BY <1>1, <1>2, TakenOnce DEF Taken
<1>5. f.rule = r /\ f.value = k /\ f.start = i /\ f.end = i + Len(v)
  BY <1>1, FindingFields
<1>6. f \in Occurrences(all)
  BY <1>1, <1>4, OccurrenceIs
<1>7. f.end \in Nat /\ f.start < f.end /\ f.end <= Len(all)
  BY ONLY <1>3, <1>4, <1>5
<1> HIDE DEF v
<1> QED BY <1>1, <1>2, <1>4, <1>5, <1>6, <1>7 DEF Found, v

LEMMA FoundOfText ==
  ASSUME NEW all \in Seq(Alphabet), NEW f \in Evaluate(all)
  PROVE  /\ Found(all, f)
         /\ f \in AllFindings(f.rule, all) /\ f \in EvaluateRule(f.rule, all)
<1>1. PICK r \in Rules : f \in EvaluateRule(r, all)
  BY DEF Evaluate
<1>2. f \in AllFindings(r, all)
  BY <1>1 DEF EvaluateRule
<1>3. Found(all, f) /\ f.rule = r
  BY <1>2, FoundOfRule
<1> QED BY <1>1, <1>2, <1>3

LEMMA FindingsFinite ==
  ASSUME NEW all \in Seq(Alphabet), NEW r \in Rules
  PROVE  IsFiniteSet(AllFindings(r, all))
<1> DEFINE P == (DOMAIN r.values) \X (0..Len(all))
           place == [f \in AllFindings(r, all) |-> <<f.value, f.start>>]
<1>1. Len(all) \in Nat
  BY LenProperties
<1>2. IsFiniteSet(DOMAIN r.values)
  <2>1. r.values \in Seq(Values)
    BY RulesAssumption DEF Values
  <2>2. DOMAIN r.values = 1..Len(r.values) /\ Len(r.values) \in Nat
    BY <2>1, LenProperties
  <2> QED BY <2>2, FS_Interval
<1>3. IsFiniteSet(P)
  <2>1. IsFiniteSet(0..Len(all))
    BY <1>1, FS_Interval
  <2> QED BY <2>1, <1>2, FS_Product
<1>4. ASSUME NEW f \in AllFindings(r, all)
      PROVE  <<f.value, f.start>> \in P /\ f = FindingAt(r, f.value, f.start)
  <2>1. Found(all, f) /\ f.rule = r
    BY FoundOfRule
  <2>2. f.start \in Nat /\ f.end \in Nat /\ f.start < f.end /\ f.end <= Len(all)
    BY <2>1 DEF Found
  <2>3. f.start \in 0..Len(all)
    BY ONLY <2>2, <1>1
  <2>4. f.value \in DOMAIN r.values /\ f = FindingAt(r, f.value, f.start)
    BY <2>1 DEF Found
  <2> QED BY <2>3, <2>4
<1> HIDE DEF P
<1>5. place \in [AllFindings(r, all) -> P]
  BY <1>4
<1>6. ASSUME NEW f \in AllFindings(r, all), NEW g \in AllFindings(r, all),
             place[f] = place[g]
      PROVE  f = g
  <2>1. f.value = g.value /\ f.start = g.start
    BY <1>6
  <2> QED BY <2>1, <1>4
<1>7. place \in Injection(AllFindings(r, all), P)
  <2> HIDE DEF place
  <2> QED BY <1>5, <1>6 DEF Injection, IsInjective
<1> HIDE DEF place
<1> QED BY <1>3, <1>7, FS_Injection

LEMMA MatchIsFinding ==
  ASSUME NEW all, NEW r, NEW k \in DOMAIN r.values,
         NEW i \in LiteralMatches(all, r.values[k])
  PROVE  FindingAt(r, k, i) \in AllFindings(r, all)
BY DEF AllFindings

LEMMA FindingsOfPrefix ==
  ASSUME NEW all \in Seq(Alphabet), NEW more \in Seq(Alphabet), NEW r \in Rules
  PROVE  AllFindings(r, all) = {f \in AllFindings(r, all \o more) : f.end <= Len(all)}
<1>0. all \o more \in Seq(Alphabet)
  BY ConcatProperties
<1>1. ASSUME NEW f \in AllFindings(r, all)
      PROVE  f \in AllFindings(r, all \o more) /\ f.end <= Len(all)
  <2>1. Found(all, f) /\ f.rule = r
    BY FoundOfRule
  <2>2. /\ f = FindingAt(r, f.value, f.start) /\ f.end <= Len(all)
        /\ f.value \in DOMAIN r.values /\ r.values[f.value] \in Values
        /\ f.start \in LiteralMatches(all, r.values[f.value])
    BY <2>1 DEF Found
  <2>3. f.start \in LiteralMatches(all \o more, r.values[f.value])
    BY <2>2, MatchesOfPrefix
  <2> QED BY <2>2, <2>3, MatchIsFinding
<1>2. ASSUME NEW f \in AllFindings(r, all \o more), f.end <= Len(all)
      PROVE  f \in AllFindings(r, all)
  <2>1. Found(all \o more, f) /\ f.rule = r
    BY <1>0, FoundOfRule
  <2>2. /\ f = FindingAt(r, f.value, f.start)
        /\ f.end = f.start + Len(r.values[f.value])
        /\ f.value \in DOMAIN r.values /\ r.values[f.value] \in Values
        /\ f.start \in LiteralMatches(all \o more, r.values[f.value])
    BY <2>1 DEF Found
  <2>3. f.start \in LiteralMatches(all, r.values[f.value])
    BY <2>2, <1>2, MatchesOfPrefix
  <2> QED BY <2>2, <2>3, MatchIsFinding
<1> QED BY <1>1, <1>2

Before(r, all, f) == {g \in AllFindings(r, all) : FoundBefore(g, f)}

\* The cap keeps no less of a beginning of a text than of the text.
LEMMA CapOfPrefix ==
  ASSUME NEW all \in Seq(Alphabet), NEW more \in Seq(Alphabet), NEW r \in Rules,
         NEW f \in EvaluateRule(r, all \o more), f.end <= Len(all)
  PROVE  f \in EvaluateRule(r, all)
<1> DEFINE A == Before(r, all, f) B == Before(r, all \o more, f)
<1>1. f \in AllFindings(r, all \o more) /\ Cardinality(B) < MaxMatches
  BY DEF EvaluateRule, Before
<1>2. f \in AllFindings(r, all)
  BY <1>1, FindingsOfPrefix
<1>3. A \subseteq B
  BY FindingsOfPrefix DEF Before
<1>4. IsFiniteSet(B)
  <2>1. all \o more \in Seq(Alphabet)
    BY ConcatProperties
  <2>2. IsFiniteSet(AllFindings(r, all \o more))
    BY <2>1, FindingsFinite
  <2>3. B \subseteq AllFindings(r, all \o more)
    BY DEF Before
  <2> QED BY <2>2, <2>3, FS_Subset
<1> HIDE DEF A, B
<1>5. Cardinality(A) <= Cardinality(B) /\ Cardinality(A) \in Nat /\ Cardinality(B) \in Nat
  BY <1>3, <1>4, FS_Subset, FS_CardinalityType
<1>6. Cardinality(A) < MaxMatches
  BY <1>1, <1>5, MatchesAssumption
<1> QED BY <1>2, <1>6 DEF EvaluateRule, A, Before

\* A scan of the rest of a text may take other matches, but no more of them.
LEMMA MatchesCovered ==
  ASSUME NEW all \in Seq(Alphabet), NEW o \in 0..Len(all), NEW r \in Rules,
         NEW g \in AllFindings(r, From(all, o))
  PROVE  \E b \in AllFindings(r, all) :
           /\ b.value = g.value
           /\ b.start <= g.start + o /\ g.start + o < b.start + Len(r.values[g.value])
<1> DEFINE v == r.values[g.value] W == LiteralMatches(all, v)
<1>1. From(all, o) \in Seq(Alphabet)
  BY FromFacts
<1>2. Found(From(all, o), g) /\ g.rule = r
  BY <1>1, FoundOfRule
<1>3. /\ g.value \in DOMAIN r.values /\ v \in Values /\ g.start \in Nat
      /\ OccursAt(From(all, o), v, g.start)
  BY <1>2 DEF Found
<1>4. Len(v) \in Nat /\ Len(v) > 0 /\ o \in Nat
  BY <1>3, ValueLength
<1> HIDE DEF v
<1>5. OccursAt(all, v, g.start + o) /\ g.start + o \in Nat
  <2>1. v \in Values /\ g.start \in Nat
    BY <1>3
  <2>2. OccursAt(From(all, o), v, g.start) <=> OccursAt(all, v, g.start + o)
    BY <2>1, OccursInSuffix
  <2> QED BY <2>2, <1>3, <1>4
<1>6. Taken(all, v, W)
  BY <1>3, TakenOnce
<1>7. PICK j \in W : j <= g.start + o /\ g.start + o < j + Len(v)
  <2>1. CASE g.start + o \in W
    BY <2>1, <1>4, <1>5
  <2>2. CASE g.start + o \notin W
    <3>1. PICK j \in W : j < g.start + o /\ g.start + o < j + Len(v)
      BY <2>2, <1>5, <1>6 DEF Taken
    <3>2. j \in Nat
      BY <1>6 DEF Taken
    <3>3. j <= g.start + o
      BY <3>1, <3>2, <1>5
    <3> QED BY <3>1, <3>3
  <2> QED BY <2>1, <2>2
<1>8. FindingAt(r, g.value, j) \in AllFindings(r, all)
  BY <1>3, MatchIsFinding DEF v
<1>9. FindingAt(r, g.value, j).value = g.value /\ FindingAt(r, g.value, j).start = j
  BY FindingFields
<1> QED BY <1>7, <1>8, <1>9 DEF v

\* Nor does the cap keep less of the rest of a text.
LEMMA CapOfSuffix ==
  ASSUME NEW all \in Seq(Alphabet), NEW o \in 0..Len(all), NEW r \in Rules,
         NEW k \in DOMAIN r.values, NEW i \in Nat,
         FindingAt(r, k, i + o) \in EvaluateRule(r, all),
         FindingAt(r, k, i) \in AllFindings(r, From(all, o))
  PROVE  FindingAt(r, k, i) \in EvaluateRule(r, From(all, o))
<1> DEFINE u == From(all, o)
           A == Before(r, u, FindingAt(r, k, i))
           B == Before(r, all, FindingAt(r, k, i + o))
           Covers(b, g) == /\ b.value = g.value
                           /\ b.start <= g.start + o
                           /\ g.start + o < b.start + Len(r.values[g.value])
           h == [g \in A |-> CHOOSE b \in AllFindings(r, all) : Covers(b, g)]
<1>1. u \in Seq(Alphabet) /\ o \in Nat
  BY FromFacts
<1>2. ASSUME NEW g \in A
      PROVE  /\ g \in AllFindings(r, u) /\ g.value \in Nat /\ g.start \in Nat
             /\ g = FindingAt(r, g.value, g.start)
             /\ g.value \in DOMAIN r.values
             /\ g.start \in LiteralMatches(u, r.values[g.value])
             /\ g.value < k \/ (g.value = k /\ g.start < i)
  <2>1. g \in AllFindings(r, u) /\ FoundBefore(g, FindingAt(r, k, i))
    BY DEF Before
  <2>2. Found(u, g) /\ g.rule = r
    BY <2>1, <1>1, FoundOfRule
  <2>3. g.value < k \/ (g.value = k /\ g.start < i)
    BY <2>1, FindingFields DEF FoundBefore
  <2> HIDE DEF u
  <2> QED BY <2>1, <2>2, <2>3 DEF Found
<1>3. ASSUME NEW g \in A
      PROVE  h[g] \in AllFindings(r, all) /\ Covers(h[g], g)
  <2>1. \E b \in AllFindings(r, all) : Covers(b, g)
    BY <1>2, MatchesCovered
  <2> HIDE DEF A
  <2> QED BY <2>1
<1>4. ASSUME NEW b \in AllFindings(r, all)
      PROVE  b.value \in Nat /\ b.start \in Nat
  BY FoundOfRule DEF Found
<1>5. ASSUME NEW g \in A
      PROVE  h[g] \in B
  <2>1. FoundBefore(h[g], FindingAt(r, k, i + o))
    <3>1. /\ h[g].value = g.value /\ h[g].start <= g.start + o
          /\ h[g].start \in Nat /\ g.start \in Nat
          /\ g.value < k \/ (g.value = k /\ g.start < i)
      BY <1>2, <1>3, <1>4
    <3> HIDE DEF h
    <3>2. g.start < i => h[g].start < i + o
      BY <3>1, <1>1
    <3> QED BY <3>1, <3>2, FindingFields DEF FoundBefore
  <2> HIDE DEF h, A
  <2> QED BY <2>1, <1>3 DEF Before
<1>6. ASSUME NEW f \in A, NEW g \in A, h[f] = h[g]
      PROVE  f = g
  <2> DEFINE b == h[f] v == r.values[f.value]
  <2>1. /\ Covers(b, f) /\ Covers(b, g) /\ b.start \in Nat
    BY <1>3, <1>4, <1>6
  <2> HIDE DEF b, h
  <2>2. f.value = g.value /\ f.start \in Nat /\ g.start \in Nat
    BY <2>1, <1>2
  <2>3. /\ b.start <= f.start + o /\ f.start + o < b.start + Len(v)
        /\ b.start <= g.start + o /\ g.start + o < b.start + Len(v)
    BY <2>1, <2>2
  <2>4. v \in Values
    BY <1>2, ValueOfRule
  <2>5. Taken(u, v, LiteralMatches(u, v))
    BY <2>4, <1>1, TakenOnce
  <2>6. f.start \in LiteralMatches(u, v) /\ g.start \in LiteralMatches(u, v)
    BY <1>2, <2>2
  <2>7. /\ f.start < g.start => f.start + Len(v) <= g.start
        /\ g.start < f.start => g.start + Len(v) <= f.start
    BY <2>5, <2>6 DEF Taken
  <2>8. Len(v) \in Nat
    BY <2>4, ValueLength
  <2> HIDE DEF v
  <2>9. f.start = g.start
    BY ONLY <2>1, <2>2, <2>3, <2>7, <2>8, <1>1
  <2> QED BY <2>2, <2>9, <1>2
<1>7. IsFiniteSet(B)
  <2>1. B \subseteq AllFindings(r, all)
    BY DEF Before
  <2> QED BY <2>1, FindingsFinite, FS_Subset
<1> HIDE DEF A, B
<1>8. h \in Injection(A, B)
  <2>1. h \in [A -> B]
    BY <1>5
  <2>2. DOMAIN h = A
    OBVIOUS
  <2> HIDE DEF h
  <2> QED BY <2>1, <2>2, <1>6 DEF Injection, IsInjective
<1> HIDE DEF h
<1>9. IsFiniteSet(A) /\ Cardinality(A) <= Cardinality(B)
  BY <1>7, <1>8, FS_Injection
<1>10. Cardinality(A) \in Nat /\ Cardinality(B) \in Nat
  BY <1>7, <1>9, FS_CardinalityType
<1>11. Cardinality(B) < MaxMatches
  BY DEF EvaluateRule, B, Before
<1>12. Cardinality(A) < MaxMatches
  BY <1>9, <1>10, <1>11, MatchesAssumption
<1> QED BY <1>12 DEF EvaluateRule, A, Before

-----------------------------------------------------------------------------
(* Masks.                                                                   *)

\* Each finding covers a piece of the first n positions.
Spans(n, findings) ==
  \A f \in findings :
    f.start \in Nat /\ f.end \in Nat /\ f.start < f.end /\ f.end <= n

\* Length of the longest segment that begins at i, as MaskedPositions has it.
LengthAt(findings, i) ==
  LET ends == {f.end : f \in {g \in MaskSegments(findings) : g.start = i}}
  IN  IF ends = {} THEN 0
      ELSE (CHOOSE e \in ends : \A o \in ends : o <= e) - i

LEMMA LongestSegment ==
  ASSUME NEW n \in Nat, NEW findings, Spans(n, findings), NEW i \in Nat
  PROVE  /\ LengthAt(findings, i) \in Nat
         /\ LengthAt(findings, i) > 0 =>
              \E f \in MaskSegments(findings) :
                f.start = i /\ f.end = i + LengthAt(findings, i)
         /\ \A f \in MaskSegments(findings) :
              f.start = i => f.end <= i + LengthAt(findings, i)
<1> DEFINE here == {g \in MaskSegments(findings) : g.start = i}
           ends == {f.end : f \in here}
           e == CHOOSE e \in ends : \A o \in ends : o <= e
           l == LengthAt(findings, i)
<1>1. l = IF ends = {} THEN 0 ELSE e - i
  BY DEF LengthAt
<1>2. \A f \in here : f \in findings /\ f.start = i /\ f.end \in 0..n /\ i < f.end
  BY DEF Spans, MaskSegments
<1>3. ends \subseteq 0..n
  BY <1>2
<1>4. CASE ends = {}
  <2>1. here = {}
    BY <1>4
  <2> HIDE DEF ends
  <2> QED BY <2>1, <1>1, <1>4
<1>5. CASE ends # {}
  <2>1. \E x \in ends : \A y \in ends : y <= x
    BY <1>3, <1>5, GreatestNumber
  <2>2. e \in ends /\ \A y \in ends : y <= e
    BY <2>1
  <2> HIDE DEF e
  <2>3. PICK f \in here : f.end = e
    BY <2>2
  <2>4. e \in 0..n /\ i < e
    BY <2>3, <1>2
  <2>5. l = e - i
    BY <1>1, <1>5
  <2> HIDE DEF l
  <2>6. l \in Nat /\ i + l = e
    BY ONLY <2>4, <2>5, i \in Nat, n \in Nat
  <2>7. f \in MaskSegments(findings) /\ f.start = i /\ f.end = i + l
    BY <2>3, <2>6
  <2>8. \A g \in MaskSegments(findings) : g.start = i => g.end <= i + l
    BY <2>2, <2>6
  <2> QED BY <2>6, <2>7, <2>8 DEF l
<1> QED BY <1>4, <1>5

\* What _apply_masks() selects is a scan of the segments.
LEMMA MaskedIs ==
  ASSUME NEW n \in Nat, NEW findings, Spans(n, findings)
  PROVE  \E S \in SUBSET (0..(n - 1)) :
           /\ MaskedPositions(n, findings)
                = UNION {i..(i + LengthAt(findings, i) - 1) : i \in S}
           /\ \A i \in S : LengthAt(findings, i) > 0
           /\ \A i \in 0..(n - 1) :
                (LengthAt(findings, i) > 0 /\ i \notin S) =>
                   \E j \in S : j < i /\ i < j + LengthAt(findings, j)
<1> DEFINE length == [i \in 0..n |-> LengthAt(findings, i)]
           S == LeftToRight(n, length)
<1>1. length \in [0..n -> Nat]
  BY LongestSegment
<1>2. Scanned(n, length, S)
  BY <1>1, ScanTakes
<1>3. MaskedPositions(n, findings) = UNION {i..(i + length[i] - 1) : i \in S}
  BY DEF MaskedPositions, LengthAt
<1>4. \A i \in 0..(n - 1) : length[i] = LengthAt(findings, i)
  OBVIOUS
<1> HIDE DEF length, S
<1>5. S \subseteq 0..(n - 1)
  BY <1>2 DEF Scanned
<1>6. MaskedPositions(n, findings)
        = UNION {i..(i + LengthAt(findings, i) - 1) : i \in S}
  BY <1>3, <1>4, <1>5
<1>7. /\ \A i \in S : LengthAt(findings, i) > 0
      /\ \A i \in 0..(n - 1) :
           (LengthAt(findings, i) > 0 /\ i \notin S) =>
              \E j \in S : j < i /\ i < j + LengthAt(findings, j)
  BY <1>2, <1>4, <1>5 DEF Scanned
<1> QED BY <1>5, <1>6, <1>7

\* Only what a MASK finding covers is masked ...
LEMMA MaskedWithin ==
  ASSUME NEW n \in Nat, NEW findings, Spans(n, findings),
         NEW p \in MaskedPositions(n, findings)
  PROVE  /\ p \in 0..(n - 1)
         /\ \E f \in MaskSegments(findings) : p \in SpanOf(f)
<1>1. PICK S \in SUBSET (0..(n - 1)) :
        /\ MaskedPositions(n, findings)
             = UNION {i..(i + LengthAt(findings, i) - 1) : i \in S}
        /\ \A i \in S : LengthAt(findings, i) > 0
  BY MaskedIs
<1>2. PICK i \in S : p \in i..(i + LengthAt(findings, i) - 1)
  BY <1>1
<1>3. i \in Nat /\ LengthAt(findings, i) > 0
  BY <1>1
<1>4. PICK f \in MaskSegments(findings) :
        f.start = i /\ f.end = i + LengthAt(findings, i)
  BY <1>3, LongestSegment
<1>5. f.end \in Nat /\ f.end <= n
  BY DEF MaskSegments, Spans
<1>6. p \in i..(f.end - 1)
  <2> DEFINE l == LengthAt(findings, i)
  <2>1. l \in Nat
    BY <1>3, LongestSegment
  <2>2. p \in i..(i + l - 1) /\ f.end = i + l
    BY <1>2, <1>4
  <2> HIDE DEF l
  <2> QED BY ONLY <2>1, <2>2, <1>3
<1> QED BY <1>3, <1>4, <1>5, <1>6 DEF SpanOf

\* ... and what a MASK finding covers that no other one overlaps, all of it.
LEMMA MaskedWhole ==
  ASSUME NEW n \in Nat, NEW findings, Spans(n, findings),
         NEW f \in MaskSegments(findings), \A g \in findings : ~Overlap(f, g)
  PROVE  SpanOf(f) \subseteq MaskedPositions(n, findings)
<1> DEFINE i == f.start l == LengthAt(findings, f.start)
<1>1. /\ f \in findings /\ i \in Nat /\ f.end \in Nat /\ i < f.end /\ f.end <= n
  BY DEF MaskSegments, Spans
<1>2. PICK S \in SUBSET (0..(n - 1)) :
        /\ MaskedPositions(n, findings)
             = UNION {j..(j + LengthAt(findings, j) - 1) : j \in S}
        /\ \A j \in S : LengthAt(findings, j) > 0
        /\ \A j \in 0..(n - 1) :
             (LengthAt(findings, j) > 0 /\ j \notin S) =>
                \E m \in S : m < j /\ j < m + LengthAt(findings, m)
  BY MaskedIs
<1>3. l \in Nat /\ f.end <= i + l
  BY <1>1, LongestSegment
<1>4. l > 0 /\ i \in 0..(n - 1)
  BY ONLY <1>1, <1>3, n \in Nat
<1>5. i \in S
  <2>1. SUFFICES ASSUME i \notin S PROVE FALSE
    OBVIOUS
  <2>2. PICK m \in S : m < i /\ i < m + LengthAt(findings, m)
    BY <2>1, <1>2, <1>4
  <2>3. m \in Nat /\ LengthAt(findings, m) > 0
    BY <1>2
  <2>4. PICK g \in MaskSegments(findings) :
          g.start = m /\ g.end = m + LengthAt(findings, m)
    BY <2>3, LongestSegment
  <2>5. g \in findings /\ g.end \in Nat
    BY DEF MaskSegments, Spans
  <2>6. i \in g.start..(g.end - 1) /\ i \in i..(f.end - 1)
    <3>1. g.start = m /\ m < i /\ i < g.end
      BY <2>2, <2>4
    <3> QED BY ONLY <3>1, <2>3, <2>5, <1>1
  <2>7. g # f
    BY <2>2, <2>3, <2>4, <1>1
  <2>8. i \in SpanOf(f) \cap SpanOf(g)
    BY <2>6 DEF SpanOf
  <2> QED BY <2>5, <2>7, <2>8 DEF Overlap
<1>6. i..(i + l - 1) \subseteq MaskedPositions(n, findings)
  BY <1>2, <1>5
<1>7. SpanOf(f) \subseteq i..(i + l - 1)
  <2>1. ASSUME NEW p \in i..(f.end - 1)
        PROVE  p \in i..(i + l - 1)
    BY ONLY <2>1, <1>1, <1>3
  <2> QED BY <2>1 DEF SpanOf
<1> QED BY <1>6, <1>7

-----------------------------------------------------------------------------
(* The findings of the pending text and those of the whole text.            *)

\* The finding f of the rest of a text, as a finding of the text, is
\* Moved(f, o); Moved(f, -o) is the way back.
Moved(f, o) == FindingAt(f.rule, f.value, f.start + o)

Isolated(f, all) == \A g \in Occurrences(all) : ~Overlap(f, g)

OccursAs(all, f) ==
  /\ f.rule \in Rules /\ f.value \in DOMAIN f.rule.values
  /\ f.rule.values[f.value] \in Values
  /\ f.start \in Nat /\ f.end \in Nat
  /\ f.end = f.start + Len(f.rule.values[f.value])
  /\ f.start < f.end /\ f.end <= Len(all)
  /\ OccursAt(all, f.rule.values[f.value], f.start)
  /\ f = FindingAt(f.rule, f.value, f.start)

LEMMA OccurrenceFacts ==
  ASSUME NEW all \in Seq(Alphabet), NEW f \in Occurrences(all)
  PROVE  OccursAs(all, f)
<1>1. PICK r \in Rules : f \in OccurrencesOf(r, all)
  BY DEF Occurrences
<1>2. PICK k \in DOMAIN r.values :
        f \in {FindingAt(r, k, i) : i \in {j \in 0..Len(all) :
                                             OccursAt(all, r.values[k], j)}}
  BY <1>1 DEF OccurrencesOf
<1>3. PICK i \in 0..Len(all) : OccursAt(all, r.values[k], i) /\ f = FindingAt(r, k, i)
  BY <1>2
<1> DEFINE v == r.values[k]
<1>4. v \in Values
  BY ValueOfRule
<1>5. Len(v) \in Nat /\ Len(v) > 0 /\ Len(all) \in Nat
  BY <1>4, ValueLength, LenProperties
<1>6. f.rule = r /\ f.value = k /\ f.start = i /\ f.end = i + Len(v)
  BY <1>3, FindingFields
<1>7. i + Len(v) <= Len(all)
  BY <1>3 DEF OccursAt
<1>8. f.start \in Nat /\ f.end \in Nat /\ f.start < f.end /\ f.end <= Len(all)
  BY ONLY <1>5, <1>6, <1>7, i \in 0..Len(all)
<1>9. OccursAt(all, v, i)
  BY <1>3
<1> HIDE DEF v
<1> QED BY <1>3, <1>4, <1>6, <1>8, <1>9 DEF OccursAs, v

LEMMA OccurrenceInText ==
  ASSUME NEW all \in Seq(Alphabet), NEW o \in 0..Len(all),
         NEW f \in Occurrences(From(all, o))
  PROVE  /\ Moved(f, o) \in Occurrences(all)
         /\ Moved(f, o).start = f.start + o /\ Moved(f, o).end = f.end + o
         /\ Moved(f, o).rule = f.rule /\ Moved(f, o).value = f.value
<1> DEFINE v == f.rule.values[f.value]
<1>1. From(all, o) \in Seq(Alphabet) /\ o \in Nat
  BY FromFacts
<1>2. OccursAs(From(all, o), f)
  BY <1>1, OccurrenceFacts
<1>3. /\ f.rule \in Rules /\ f.value \in DOMAIN f.rule.values /\ v \in Values
      /\ f.start \in Nat /\ f.end = f.start + Len(v)
      /\ OccursAt(From(all, o), v, f.start)
  BY <1>2 DEF OccursAs
<1>4. Len(v) \in Nat
  BY <1>3, ValueLength
<1>5. OccursAt(all, v, f.start + o)
  <2>1. v \in Values /\ f.start \in Nat
    BY <1>3
  <2> HIDE DEF v
  <2>2. OccursAt(From(all, o), v, f.start) <=> OccursAt(all, v, f.start + o)
    BY <2>1, OccursInSuffix
  <2> QED BY <2>2, <1>3
<1>6. Moved(f, o) \in Occurrences(all)
  <2>1. f.start + o \in Nat
    BY <1>1, <1>3
  <2> QED BY <2>1, <1>3, <1>5, OccurrenceIs DEF Moved
<1>7. /\ Moved(f, o).start = f.start + o /\ Moved(f, o).end = f.start + o + Len(v)
      /\ Moved(f, o).rule = f.rule /\ Moved(f, o).value = f.value
  BY FindingFields DEF Moved
<1>8. f.start + o + Len(v) = f.end + o
  BY ONLY <1>1, <1>3, <1>4
<1> QED BY <1>6, <1>7, <1>8

\* An isolated finding behind o is an isolated finding of the text from o on.
LEMMA IsolatedInSuffix ==
  ASSUME NEW all \in Seq(Alphabet), NEW o \in 0..Len(all),
         NEW f \in Evaluate(all), o <= f.start, Isolated(f, all)
  PROVE  /\ Moved(f, -o) \in Evaluate(From(all, o))
         /\ Moved(f, -o).start = f.start - o /\ Moved(f, -o).end = f.end - o
         /\ Moved(f, -o).rule = f.rule
         /\ Isolated(Moved(f, -o), From(all, o))
<1> DEFINE r == f.rule k == f.value i == f.start - o v == r.values[k]
           u == From(all, o) m == Moved(f, -o)
<1>1. u \in Seq(Alphabet) /\ o \in Nat
  BY FromFacts
<1>2. Found(all, f) /\ f \in EvaluateRule(r, all)
  BY FoundOfText
<1>3. /\ r \in Rules /\ k \in DOMAIN r.values /\ v \in Values
      /\ f.start \in Nat /\ f.end \in Nat /\ f.end = f.start + Len(v)
      /\ OccursAt(all, v, f.start) /\ f = FindingAt(r, k, f.start)
      /\ f.start < f.end
  BY <1>2 DEF Found
<1>4. i \in Nat /\ i + o = f.start /\ f.start + (-o) = i
  BY <1>1, <1>3
<1>5. Len(v) \in Nat
  BY <1>3, ValueLength
<1>6. /\ m = FindingAt(r, k, i) /\ m.start = i /\ m.end = i + Len(v)
      /\ m.rule = r /\ m.value = k
  BY <1>4, FindingFields DEF Moved
<1>7. m.end = f.end - o /\ m.end \in Nat
  <2>1. /\ f.end = f.start + Len(v) /\ m.end = i + Len(v) /\ i + o = f.start
        /\ f.start \in Nat /\ i \in Nat /\ o \in Nat /\ Len(v) \in Nat
    BY <1>1, <1>3, <1>4, <1>5, <1>6
  <2> HIDE DEF v, i, m
  <2> QED BY ONLY <2>1
<1>8. i \in LiteralMatches(u, v)
  <2>1. ASSUME NEW j \in Nat, OccursAt(all, v, j), j < f.start, f.start < j + Len(v)
        PROVE  FALSE
    <3> DEFINE g == FindingAt(r, k, j)
    <3>1. g \in Occurrences(all)
      BY <2>1, <1>3, OccurrenceIs
    <3>2. g.start = j /\ g.end = j + Len(v)
      BY FindingFields
    <3>3. f.start \in j..(j + Len(v) - 1) /\ f.start \in f.start..(f.end - 1)
      BY ONLY <2>1, <1>3, <1>5
    <3>4. f.start \in SpanOf(f) \cap SpanOf(g)
      BY <3>2, <3>3 DEF SpanOf
    <3>5. f # g
      BY <3>2, <2>1, <1>3
    <3> QED BY <3>1, <3>4, <3>5 DEF Isolated, Overlap
  <2>2. OccursAt(all, v, i + o)
    BY <1>3, <1>4
  <2>3. \A j \in Nat : OccursAt(all, v, j) => ~(j < i + o /\ i + o < j + Len(v))
    BY <2>1, <1>4
  <2>4. v \in Values /\ i \in Nat
    BY <1>3, <1>4
  <2> HIDE DEF v, i
  <2> QED BY <2>2, <2>3, <2>4, LoneMatchOfSuffix
<1>9. m \in AllFindings(r, u)
  BY <1>3, <1>6, <1>8, MatchIsFinding
<1>10. m \in EvaluateRule(r, u)
  <2>1. FindingAt(r, k, i + o) \in EvaluateRule(r, all)
    BY <1>2, <1>3, <1>4
  <2>2. r \in Rules /\ k \in DOMAIN r.values /\ i \in Nat
    BY <1>3, <1>4
  <2> HIDE DEF i, r, k
  <2> QED BY <2>1, <2>2, <1>6, <1>9, CapOfSuffix
<1>11. m \in Evaluate(u)
  BY <1>10, <1>3 DEF Evaluate
<1>12. ASSUME NEW g \in Occurrences(u), Overlap(m, g)
       PROVE  FALSE
  <2> DEFINE b == Moved(g, o)
  <2>1. OccursAs(u, g)
    BY <1>1, OccurrenceFacts
  <2>2. /\ b \in Occurrences(all) /\ b.start = g.start + o /\ b.end = g.end + o
        /\ b.rule = g.rule /\ b.value = g.value
    BY OccurrenceInText
  <2>3. g.start \in Nat /\ g.end \in Nat /\ g = FindingAt(g.rule, g.value, g.start)
    BY <2>1 DEF OccursAs
  <2>4. PICK p : p \in m.start..(m.end - 1) /\ p \in g.start..(g.end - 1)
    BY <1>12 DEF Overlap, SpanOf
  <2>4a. /\ b.start = g.start + o /\ b.end = g.end + o
         /\ g.start \in Nat /\ g.end \in Nat /\ o \in Nat
         /\ m.start + o = f.start /\ m.end + o = f.end
         /\ m.start \in Nat /\ m.end \in Nat
    <3>1. f.end \in Nat /\ o \in Nat /\ m.end = f.end - o
      BY <1>1, <1>3, <1>7
    <3>2. m.end + o = f.end
      BY ONLY <3>1
    <3> QED BY <3>2, <2>2, <2>3, <1>1, <1>4, <1>6, <1>7
  <2> HIDE DEF b, m
  <2>5. p + o \in f.start..(f.end - 1) /\ p + o \in b.start..(b.end - 1)
    BY ONLY <2>4, <2>4a
  <2>6. f # b
    <3>1. SUFFICES ASSUME f = b PROVE m = g
      BY <1>12 DEF Overlap
    <3>2. g.rule = r /\ g.value = k /\ g.start + o = f.start
      BY <3>1, <2>2
    <3>3. g.start = i
      BY ONLY <3>2, <2>3, <1>1, <1>3
    <3> QED BY <3>2, <3>3, <2>3, <1>6
  <2> QED BY <2>2, <2>5, <2>6 DEF Isolated, Overlap, SpanOf
<1> QED BY <1>6, <1>7, <1>11, <1>12 DEF Isolated

-----------------------------------------------------------------------------
(* Plain texts: no findings overlap, and none are cut off at the cap.       *)

LEMMA PlainWhole ==
  ASSUME NEW all \in Seq(Alphabet), Plain(all),
         NEW r \in Rules, NEW f \in AllFindings(r, all)
  PROVE  f \in EvaluateRule(r, all) /\ f \in Evaluate(all)
<1> DEFINE A == Before(r, all, f) W == AllFindings(r, all)
<1>1. IsFiniteSet(W) /\ Cardinality(W) <= MaxMatches
  BY FindingsFinite DEF Plain
<1>2. A \subseteq W
  BY DEF Before
<1>3. f \notin A
  <2>1. Found(all, f)
    BY FoundOfRule
  <2>2. f.value \in Nat /\ f.start \in Nat
    BY <2>1 DEF Found
  <2>3. ~FoundBefore(f, f)
    BY <2>2 DEF FoundBefore
  <2> QED BY <2>3 DEF Before
<1> HIDE DEF A, W
<1>4. f \in W
  BY DEF W
<1>5. IsFiniteSet(A) /\ Cardinality(A) <= Cardinality(W) /\ Cardinality(A) # Cardinality(W)
  BY <1>1, <1>2, <1>3, <1>4, FS_Subset
<1>6. Cardinality(A) \in Nat /\ Cardinality(W) \in Nat
  BY <1>1, <1>5, FS_CardinalityType
<1>7. Cardinality(A) < MaxMatches
  BY <1>1, <1>5, <1>6, MatchesAssumption
<1>8. f \in EvaluateRule(r, all)
  BY <1>7 DEF EvaluateRule, A, Before
<1> QED BY <1>8 DEF Evaluate

LEMMA PlainPrefix ==
  ASSUME NEW all \in Seq(Alphabet), NEW more \in Seq(Alphabet), Plain(all \o more)
  PROVE  /\ Plain(all)
         /\ Evaluate(all) = {f \in Evaluate(all \o more) : f.end <= Len(all)}
<1> DEFINE later == all \o more
<1>1. later \in Seq(Alphabet)
  BY ConcatProperties
<1> HIDE DEF later
<1>2. \A r \in Rules : AllFindings(r, all) = {f \in AllFindings(r, later) : f.end <= Len(all)}
  BY FindingsOfPrefix DEF later
<1>3. Evaluate(all) \subseteq {f \in Evaluate(later) : f.end <= Len(all)}
  <2>1. ASSUME NEW f \in Evaluate(all)
        PROVE  f \in Evaluate(later) /\ f.end <= Len(all)
    <3>1. f.rule \in Rules /\ f \in AllFindings(f.rule, all)
      BY FoundOfText DEF Found
    <3>2. f \in AllFindings(f.rule, later) /\ f.end <= Len(all)
      BY <3>1, <1>2
    <3> QED BY <3>1, <3>2, <1>1, PlainWhole DEF later
  <2> QED BY <2>1
<1>4. \A r \in Rules : Cardinality(AllFindings(r, all)) <= MaxMatches
  <2> SUFFICES ASSUME NEW r \in Rules
               PROVE  Cardinality(AllFindings(r, all)) <= MaxMatches
    OBVIOUS
  <2> DEFINE A == AllFindings(r, all) B == AllFindings(r, later)
  <2>1. IsFiniteSet(B) /\ Cardinality(B) <= MaxMatches
    BY <1>1, FindingsFinite DEF Plain, later
  <2>2. A \subseteq B
    BY <1>2
  <2> HIDE DEF A, B
  <2>3. IsFiniteSet(A) /\ Cardinality(A) <= Cardinality(B)
    BY <2>1, <2>2, FS_Subset
  <2>4. Cardinality(A) \in Nat /\ Cardinality(B) \in Nat
    BY <2>1, <2>3, FS_CardinalityType
  <2>5. Cardinality(A) <= MaxMatches
    BY <2>1, <2>3, <2>4, MatchesAssumption
  <2> QED BY <2>5 DEF A
<1>5. Plain(all)
  BY <1>3, <1>4 DEF Plain, later
<1>6. ASSUME NEW f \in Evaluate(later), f.end <= Len(all)
      PROVE  f \in Evaluate(all)
  <2>1. f.rule \in Rules /\ f \in AllFindings(f.rule, later)
    BY <1>1, FoundOfText DEF Found
  <2>2. f \in AllFindings(f.rule, all)
    BY <2>1, <1>2, <1>6
  <2> QED BY <2>1, <2>2, <1>5, PlainWhole
<1> QED BY <1>3, <1>5, <1>6 DEF later

\* Where no finding goes across o, the text from o on has the findings that
\* begin there, and only those.
LEMMA PlainSuffix ==
  ASSUME NEW all \in Seq(Alphabet), NEW o \in 0..Len(all), Plain(all),
         \A f \in Evaluate(all) : f.end <= o \/ o <= f.start
  PROVE  /\ \A f \in Evaluate(all) : o <= f.start =>
              /\ Moved(f, -o) \in Evaluate(From(all, o))
              /\ Moved(f, -o).start = f.start - o /\ Moved(f, -o).end = f.end - o
              /\ Moved(f, -o).rule = f.rule
         /\ \A m \in Evaluate(From(all, o)) :
              /\ Moved(m, o) \in Evaluate(all)
              /\ Moved(m, o).start = m.start + o /\ Moved(m, o).end = m.end + o
              /\ Moved(m, o).rule = m.rule
<1> DEFINE u == From(all, o)
<1>1. u \in Seq(Alphabet) /\ o \in Nat
  BY FromFacts
<1>2. ASSUME NEW r \in Rules, NEW k \in DOMAIN r.values, NEW i \in Nat
      PROVE  i \in LiteralMatches(u, r.values[k])
               <=> i + o \in LiteralMatches(all, r.values[k])
  <2> DEFINE v == r.values[k]
  <2>1. v \in Values
    BY ValueOfRule
  <2>2. Len(v) \in Nat
    BY <2>1, ValueLength
  <2>3. ASSUME NEW j \in LiteralMatches(all, v), j < o, o < j + Len(v)
        PROVE  FALSE
    <3> DEFINE f == FindingAt(r, k, j)
    <3>1. f \in Evaluate(all)
      BY MatchIsFinding, PlainWhole
    <3>2. f.start = j /\ f.end = j + Len(v)
      BY FindingFields
    <3>3. j \in Nat
      BY <2>1, TakenOnce DEF Taken
    <3>4. f.end <= o \/ o <= f.start
      BY <3>1
    <3> HIDE DEF f, v
    <3> QED BY ONLY <3>2, <3>3, <3>4, <2>2, <2>3, <1>1
  <2> HIDE DEF v
  <2>4. \A j \in Nat : j \in LiteralMatches(u, v) <=> j + o \in LiteralMatches(all, v)
    BY <2>1, <2>3, MatchesOfSuffix
  <2> QED BY <2>4 DEF v
<1>3. ASSUME NEW f \in Evaluate(all), o <= f.start
      PROVE  /\ Moved(f, -o) \in Evaluate(u)
             /\ Moved(f, -o).start = f.start - o /\ Moved(f, -o).end = f.end - o
             /\ Moved(f, -o).rule = f.rule
  <2> DEFINE r == f.rule k == f.value i == f.start - o v == r.values[k]
             m == Moved(f, -o)
  <2>1. Found(all, f) /\ f \in EvaluateRule(r, all)
    BY FoundOfText
  <2>2. /\ r \in Rules /\ k \in DOMAIN r.values /\ v \in Values
        /\ f.start \in Nat /\ f.end = f.start + Len(v)
        /\ f.start \in LiteralMatches(all, v) /\ f = FindingAt(r, k, f.start)
    BY <2>1 DEF Found
  <2>3. i \in Nat /\ i + o = f.start /\ f.start + (-o) = i
    BY <1>1, <1>3, <2>2
  <2>4. Len(v) \in Nat
    BY <2>2, ValueLength
  <2>5. /\ m = FindingAt(r, k, i) /\ m.start = i /\ m.end = i + Len(v) /\ m.rule = r
    BY <2>3, FindingFields DEF Moved
  <2>6. m.end = f.end - o
    <3>1. /\ f.end = f.start + Len(v) /\ m.end = i + Len(v) /\ i + o = f.start
          /\ f.start \in Nat /\ i \in Nat /\ o \in Nat /\ Len(v) \in Nat
      BY <1>1, <2>2, <2>3, <2>4, <2>5
    <3> HIDE DEF v, i, m
    <3> QED BY ONLY <3>1
  <2>7. i \in LiteralMatches(u, v)
    BY <1>2, <2>2, <2>3
  <2>8. m \in AllFindings(r, u)
    BY <2>2, <2>5, <2>7, MatchIsFinding
  <2>9. FindingAt(r, k, i + o) \in EvaluateRule(r, all)
    BY <2>1, <2>2, <2>3
  <2>10. m \in EvaluateRule(r, u)
    <3>1. r \in Rules /\ k \in DOMAIN r.values /\ i \in Nat
      BY <2>2, <2>3
    <3> HIDE DEF i, r, k
    <3> QED BY <3>1, <2>5, <2>8, <2>9, CapOfSuffix
  <2> QED BY <2>2, <2>5, <2>6, <2>10 DEF Evaluate
<1>4. ASSUME NEW m \in Evaluate(u)
      PROVE  /\ Moved(m, o) \in Evaluate(all)
             /\ Moved(m, o).start = m.start + o /\ Moved(m, o).end = m.end + o
             /\ Moved(m, o).rule = m.rule
  <2> DEFINE r == m.rule k == m.value v == r.values[k]
  <2>1. Found(u, m)
    BY <1>1, FoundOfText
  <2>2. /\ r \in Rules /\ k \in DOMAIN r.values /\ m \in Occurrences(u)
        /\ m.start \in Nat /\ m.start \in LiteralMatches(u, v)
    BY <2>1 DEF Found
  <2>3. m.start + o \in LiteralMatches(all, v)
    BY <1>2, <2>2
  <2>4. Moved(m, o) \in AllFindings(r, all)
    BY <2>2, <2>3, MatchIsFinding DEF Moved
  <2>5. Moved(m, o) \in Evaluate(all)
    BY <2>2, <2>4, PlainWhole
  <2> QED BY <2>2, <2>5, OccurrenceInText
<1> QED BY <1>3, <1>4

LEMMA MaskedExactly ==
  ASSUME NEW n \in Nat, NEW findings, Spans(n, findings),
         \A f, g \in findings : ~Overlap(f, g)
  PROVE  MaskedPositions(n, findings) = UNION {SpanOf(f) : f \in MaskSegments(findings)}
<1>1. MaskedPositions(n, findings) \subseteq UNION {SpanOf(f) : f \in MaskSegments(findings)}
  BY MaskedWithin
<1>2. ASSUME NEW f \in MaskSegments(findings)
      PROVE  SpanOf(f) \subseteq MaskedPositions(n, findings)
  <2>1. f \in findings
    BY DEF MaskSegments
  <2> QED BY <2>1, MaskedWhole
<1> QED BY <1>1, <1>2

-----------------------------------------------------------------------------
(* Boundaries.                                                              *)

\* Where _resolve_release_boundary() puts the boundary, when it is not 0: at
\* the holdback, which no finding crosses, or at the start of the first one
\* that goes on behind it.
LEMMA BoundaryFacts ==
  ASSUME holdback \in Nat, NEW n \in Nat, NEW findings, Spans(n, findings)
  PROVE  /\ ReleaseBoundary(n, findings) \in 0..n
         /\ \/ ReleaseBoundary(n, findings) = 0
            \/ /\ ReleaseBoundary(n, findings) = n - holdback
               /\ \A f \in findings : f.end <= n - holdback
            \/ /\ \E g \in findings : /\ g.start = ReleaseBoundary(n, findings)
                                      /\ n - holdback < g.end
               /\ \A f \in findings :
                    n - holdback < f.end => ReleaseBoundary(n, findings) <= f.start
<1> DEFINE boundary == n - holdback
           late == {g \in findings : g.end > boundary}
           crossing == {f.start : f \in late}
           s == CHOOSE s \in crossing : \A o \in crossing : s <= o
           b == ReleaseBoundary(n, findings)
<1>1. b = IF boundary <= 0 THEN 0 ELSE IF crossing = {} THEN boundary ELSE s
  BY DEF ReleaseBoundary
<1>2. boundary \in Int /\ boundary <= n
  OBVIOUS
<1>3. \A f \in findings : f.start \in Nat /\ f.end \in Nat /\ f.start < n
  BY DEF Spans
<1>4. CASE boundary <= 0
  <2>1. b = 0
    BY <1>1, <1>4
  <2> HIDE DEF b
  <2> QED BY <2>1 DEF b
<1>5. CASE ~(boundary <= 0) /\ crossing = {}
  <2>1. late = {}
    BY <1>5
  <2>2. \A f \in findings : f.end <= boundary
    BY <2>1, <1>2, <1>3
  <2>3. b = boundary
    BY <1>1, <1>5
  <2> HIDE DEF b
  <2>4. b \in 0..n
    BY ONLY <2>3, <1>2, <1>5, n \in Nat, holdback \in Nat
  <2> QED BY <2>2, <2>3, <2>4 DEF b
<1>6. CASE ~(boundary <= 0) /\ crossing # {}
  <2>1. crossing \in SUBSET Nat
    BY <1>3
  <2>2. \E x \in crossing : \A y \in crossing : x <= y
    BY <2>1, <1>6, LeastNumber
  <2>3. s \in crossing /\ \A o \in crossing : s <= o
    BY <2>2
  <2>4. b = s
    BY <1>1, <1>6
  <2> HIDE DEF b, s
  <2>5. PICK g \in late : g.start = b
    BY <2>3, <2>4
  <2>6. b \in 0..n
    BY <2>5, <1>3
  <2>7. \A f \in findings : boundary < f.end => b <= f.start
    BY <2>3, <2>4
  <2>8. g \in findings /\ boundary < g.end
    BY <2>5
  <2> QED BY <2>5, <2>6, <2>7, <2>8 DEF b
<1> QED BY <1>4, <1>5, <1>6

\* What is released now: up to the boundary, or by force what exceeds the cap.
Boundary(n, findings) == Larger(ForcedBoundary(n), ReleaseBoundary(n, findings))
Forcing(n, findings) == ForcedBoundary(n) > ReleaseBoundary(n, findings)

\* How far the offset moves: not at all, or to where the holdback begins at
\* the latest, or to the start of a finding; and at most the cap is kept.
LEMMA ReleasedFacts ==
  ASSUME holdback \in Nat, cap \in Nat, cap >= holdback,
         NEW n \in Nat, NEW findings, Spans(n, findings)
  PROVE  /\ Boundary(n, findings) \in 0..n
         /\ n - Boundary(n, findings) <= cap
         /\ \/ Boundary(n, findings) = 0
            \/ Boundary(n, findings) <= n - holdback
            \/ \E g \in findings : g.start = Boundary(n, findings)
<1> DEFINE b == ReleaseBoundary(n, findings) c == ForcedBoundary(n)
           r == Boundary(n, findings)
<1>1. /\ b \in 0..n
      /\ b = 0 \/ b = n - holdback \/ \E g \in findings : g.start = b
  BY BoundaryFacts
<1>2. c \in 0..n /\ n - c <= cap /\ (c = 0 \/ c = n - cap)
  BY DEF ForcedBoundary
<1>3. r = IF c > b THEN c ELSE b
  BY DEF Boundary, Larger
<1> HIDE DEF b, c, r
<1>4. r \in 0..n /\ n - r <= cap
  BY ONLY <1>1, <1>2, <1>3, n \in Nat, cap \in Nat
<1>5. CASE c > b
  <2>1. r = c
    BY <1>3, <1>5
  <2>2. r = 0 \/ r <= n - holdback
    BY ONLY <2>1, <1>2, n \in Nat, cap \in Nat, holdback \in Nat, cap >= holdback
  <2> QED BY <2>2, <1>4 DEF r
<1>6. CASE ~(c > b)
  <2>1. r = b
    BY <1>3, <1>6
  <2>2. b = n - holdback => b <= n - holdback
    BY n \in Nat
  <2> QED BY <2>1, <2>2, <1>1, <1>4 DEF r
<1> QED BY <1>5, <1>6

\* A finding that no other one overlaps is not cut by the boundary, unless it
\* is cut off by force.
LEMMA NotCut ==
  ASSUME holdback \in Nat, cap \in Nat,
         NEW n \in Nat, NEW findings, Spans(n, findings),
         NEW f \in findings, f = FindingAt(f.rule, f.value, f.start),
         \A g \in findings : ~Overlap(f, g),
         Finalized(findings, Boundary(n, findings), Forcing(n, findings))
           = Finalized(findings, Boundary(n, findings), FALSE)
  PROVE  f.end <= Boundary(n, findings) \/ Boundary(n, findings) <= f.start
<1> DEFINE b == ReleaseBoundary(n, findings) c == ForcedBoundary(n)
           r == Boundary(n, findings)
<1>1. f.start \in Nat /\ f.end \in Nat /\ f.start < f.end
  BY DEF Spans
<1>2. b \in 0..n /\ c \in Int
  BY BoundaryFacts DEF ForcedBoundary
<1>3. r = IF c > b THEN c ELSE b
  BY DEF Boundary, Larger
<1>4. Forcing(n, findings) <=> c > b
  BY DEF Forcing
<1> HIDE DEF b, c, r
<1>5. r \in Int
  BY ONLY <1>2, <1>3
<1>6. SUFFICES ASSUME r < f.end, f.start < r
               PROVE  FALSE
  BY <1>1, <1>5 DEF r
<1>7. CASE c > b
  <2> DEFINE cut == [f EXCEPT !.end = r]
  <2>1. cut \in Finalized(findings, r, TRUE)
    BY <1>6 DEF Finalized
  <2>2. Finalized(findings, r, TRUE) = Finalized(findings, r, FALSE)
    BY <1>4, <1>7 DEF r
  <2>3. cut \in findings /\ cut.end <= r
    BY <2>1, <2>2 DEF Finalized
  <2>4. cut.start = f.start /\ cut.end = r
    <3>1. f = [rule |-> f.rule, value |-> f.value, start |-> f.start,
               end |-> f.start + Len(f.rule.values[f.value])]
      BY DEF FindingAt
    <3> QED BY <3>1
  <2> HIDE DEF cut
  <2>5. cut # f
    BY <2>4, <1>1, <1>5, <1>6
  <2>6. f.start \in f.start..(f.end - 1) /\ f.start \in f.start..(r - 1)
    BY ONLY <1>1, <1>5, <1>6
  <2>7. f.start \in SpanOf(f) \cap SpanOf(cut)
    BY <2>4, <2>6 DEF SpanOf
  <2> QED BY <2>3, <2>5, <2>7 DEF Overlap
<1>8. CASE ~(c > b)
  <2>1. r = b
    BY <1>3, <1>8
  <2> DEFINE late == n - holdback
  <2>2. \/ b = 0
        \/ \A g \in findings : g.end <= b
        \/ \E g \in findings :
             g.start = b /\ late < g.end
             /\ \A h \in findings : late < h.end => b <= h.start
    BY BoundaryFacts DEF b
  <2>3. late \in Int
    OBVIOUS
  <2> HIDE DEF late
  <2>4. CASE b = 0
    BY <2>1, <2>4, <1>1, <1>6
  <2>5. CASE \A g \in findings : g.end <= b
    <3>1. f.end <= b
      BY <2>5
    <3> QED BY <3>1, <2>1, <1>1, <1>5, <1>6
  <2>6. CASE \E g \in findings :
               g.start = b /\ late < g.end
               /\ \A h \in findings : late < h.end => b <= h.start
    <3>1. PICK g \in findings :
            g.start = b /\ late < g.end
            /\ \A h \in findings : late < h.end => b <= h.start
      BY <2>6
    <3>2. g.start \in Nat /\ g.end \in Nat /\ g.start < g.end
      BY DEF Spans
    <3>3. late < f.end => b <= f.start
      BY <3>1
    <3>4. g.start \in f.start..(f.end - 1) /\ g.start \in g.start..(g.end - 1)
      BY ONLY <2>1, <3>1, <3>2, <1>1, <1>5, <1>6
    <3>5. g # f
      BY <3>1, <2>1, <1>1, <1>5, <1>6
    <3>6. g.start \in SpanOf(f) \cap SpanOf(g)
      BY <3>4 DEF SpanOf
    <3> QED BY <3>5, <3>6 DEF Overlap
  <2> QED BY <2>2, <2>4, <2>5, <2>6
<1> QED BY <1>7, <1>8

-----------------------------------------------------------------------------
(* The session: what is delivered, and how much is held back.              *)

Block == [from : Nat, to : Nat, masked : SUBSET Nat]

\* A block is a piece of the first n positions, and masks some of it.
PieceOf(b, n) == /\ b \in Block
                 /\ b.from < b.to /\ b.to <= n
                 /\ b.masked \subseteq b.from..(b.to - 1)

StreamTypes ==
  /\ holdback \in Nat /\ cap \in Nat /\ cap >= holdback
  /\ text \in Seq(Alphabet) /\ Len(text) <= MaxText
  /\ offset \in 0..Len(text)
  /\ blocks \in Seq(Block)
  /\ \A k \in DOMAIN blocks : PieceOf(blocks[k], Len(text))
  /\ forced \in BOOLEAN /\ raised \in BOOLEAN /\ flushed \in BOOLEAN

\* The inductive invariant of every session, whatever its holdback.
StreamInv ==
  /\ StreamTypes
  /\ 0..(offset - 1) \subseteq Delivered /\ Delivered \subseteq 0..(Len(text) - 1)
  /\ Masked \subseteq Delivered
  /\ ~raised => /\ Delivered = 0..(offset - 1)
                /\ Len(text) - offset <= cap
                /\ flushed => offset = Len(text)

LEMMA SpansOfText ==
  ASSUME NEW all \in Seq(Alphabet)
  PROVE  Spans(Len(all), Evaluate(all))
BY FoundOfText DEF Spans, Found

LEMMA FinalSpans ==
  ASSUME NEW n \in Nat, NEW findings, Spans(n, findings),
         \A f \in findings : f = FindingAt(f.rule, f.value, f.start),
         NEW b \in 0..n, NEW force \in BOOLEAN
  PROVE  /\ Spans(b, Finalized(findings, b, force))
         /\ \A f \in Finalized(findings, b, force) :
              \E g \in findings :
                /\ f.rule = g.rule /\ f.start = g.start /\ f.end <= g.end
                /\ f = [g EXCEPT !.end = f.end]
<1> SUFFICES ASSUME NEW f \in Finalized(findings, b, force)
             PROVE  /\ f.start \in Nat /\ f.end \in Nat /\ f.start < f.end /\ f.end <= b
                    /\ \E g \in findings :
                         /\ f.rule = g.rule /\ f.start = g.start /\ f.end <= g.end
                         /\ f = [g EXCEPT !.end = f.end]
  BY DEF Spans
<1>1. ASSUME NEW g \in findings, NEW e \in Nat
      PROVE  /\ [g EXCEPT !.end = e].rule = g.rule /\ [g EXCEPT !.end = e].start = g.start
             /\ [g EXCEPT !.end = e].end = e
             /\ g = [g EXCEPT !.end = g.end]
  <2>1. g = [rule |-> g.rule, value |-> g.value, start |-> g.start,
             end |-> g.start + Len(g.rule.values[g.value])]
    BY DEF FindingAt
  <2> QED BY <2>1
<1>2. b \in Nat
  OBVIOUS
<1>3. CASE f \in findings /\ f.end <= b
  <2>1. f.start \in Nat /\ f.end \in Nat /\ f.start < f.end
    BY <1>3 DEF Spans
  <2>2. f = [f EXCEPT !.end = f.end] /\ f.end <= f.end
    BY <2>1, <1>1, <1>3
  <2> QED BY <2>1, <2>2, <1>3
<1>4. CASE \E g \in findings : g.start < b /\ g.end > b /\ f = [g EXCEPT !.end = b]
  <2>1. PICK g \in findings : g.start < b /\ g.end > b /\ f = [g EXCEPT !.end = b]
    BY <1>4
  <2>2. g.start \in Nat /\ g.end \in Nat
    BY DEF Spans
  <2>3. f.rule = g.rule /\ f.start = g.start /\ f.end = b
    BY <2>1, <1>1, <1>2
  <2>4. b <= g.end
    BY <2>1, <2>2, <1>2
  <2>5. f.start \in Nat /\ f.end \in Nat /\ f.start < f.end /\ f.end <= b /\ f.end <= g.end
    BY <2>1, <2>2, <2>3, <2>4, <1>2
  <2>6. f = [g EXCEPT !.end = f.end]
    BY <2>1, <2>3
  <2> QED BY <2>3, <2>5, <2>6
<1> QED BY <1>3, <1>4 DEF Finalized

LEMMA AppendBlock ==
  ASSUME blocks \in Seq(Block), NEW b \in Block, blocks' = Append(blocks, b)
  PROVE  /\ blocks' \in Seq(Block)
         /\ \A k \in DOMAIN blocks' : blocks'[k] = b \/ (k \in DOMAIN blocks /\ blocks'[k] = blocks[k])
         /\ Delivered' = Delivered \cup b.from..(b.to - 1)
         /\ Masked' = Masked \cup b.masked
<1> DEFINE n == Len(blocks)
<1>1. n \in Nat /\ DOMAIN blocks = 1..n
  BY LenProperties
<1>2. /\ blocks' \in Seq(Block)
      /\ Len(blocks') = n + 1
      /\ \A k \in 1..n : blocks'[k] = blocks[k]
      /\ blocks'[n + 1] = b
  BY AppendProperties
<1>3. DOMAIN blocks' = 1..(n + 1)
  BY <1>2, LenProperties
<1> HIDE DEF n
<1>4. \A k : k \in 1..(n + 1) <=> k \in 1..n \/ k = n + 1
  BY <1>1
<1>5. Delivered' = Delivered \cup b.from..(b.to - 1)
  <2>1. Delivered' = UNION {blocks'[k].from..(blocks'[k].to - 1) : k \in 1..(n + 1)}
    BY <1>3 DEF Delivered
  <2>2. Delivered = UNION {blocks[k].from..(blocks[k].to - 1) : k \in 1..n}
    BY <1>1 DEF Delivered
  <2> QED BY <2>1, <2>2, <1>2, <1>4
<1>6. Masked' = Masked \cup b.masked
  <2>1. Masked' = UNION {blocks'[k].masked : k \in 1..(n + 1)}
    BY <1>3 DEF Masked
  <2>2. Masked = UNION {blocks[k].masked : k \in 1..n}
    BY <1>1 DEF Masked
  <2> QED BY <2>1, <2>2, <1>2, <1>4
<1>7. \A k \in DOMAIN blocks' : blocks'[k] = b \/ (k \in DOMAIN blocks /\ blocks'[k] = blocks[k])
  BY <1>1, <1>2, <1>3, <1>4
<1> QED BY <1>2, <1>5, <1>6, <1>7

\* What a release of the first n pending characters of the text `all` does.
Released(all, n, force) ==
  LET findings == Evaluate(From(all, offset))
      final == Finalized(findings, n, force)
  IN  /\ offset' = offset + n
      /\ Delivered' = Delivered \cup offset..(offset + n - 1)
      /\ Masked' = Masked \cup {offset + i : i \in MaskedPositions(n, final)}
      /\ reports' = reports \cup {Absolute(f) : f \in final}
      /\ forced' = (forced \/ final # Finalized(findings, n, FALSE))
      /\ blocks' \in Seq(Block)
      /\ \A k \in DOMAIN blocks' :
           PieceOf(blocks'[k], offset + n) \/ (k \in DOMAIN blocks /\ blocks'[k] = blocks[k])

LEMMA AbsoluteOfFinding ==
  ASSUME offset \in Nat, NEW f, f.start \in Nat, f.end \in Nat,
         f = FindingAt(f.rule, f.value, f.start),
         Len(f.rule.values[f.value]) \in Nat
  PROVE  Absolute(f) = Moved(f, offset)
<1> DEFINE l == Len(f.rule.values[f.value])
<1>1. f = [rule |-> f.rule, value |-> f.value, start |-> f.start, end |-> f.start + l]
  BY DEF FindingAt
<1>2. f.end = f.start + l
  BY <1>1
<1>3. Absolute(f) = [rule |-> f.rule, value |-> f.value,
                     start |-> f.start + offset, end |-> f.end + offset]
  <2>1. ASSUME NEW r, NEW v, NEW a, NEW e, NEW x, NEW y, NEW g,
               g = [rule |-> r, value |-> v, start |-> a, end |-> e]
        PROVE  [g EXCEPT !.start = x, !.end = y]
                 = [rule |-> r, value |-> v, start |-> x, end |-> y]
    <3>1. [g EXCEPT !.start = x, !.end = y] = [[g EXCEPT !.start = x] EXCEPT !.end = y]
      BY <2>1
    <3>2. [g EXCEPT !.start = x] = [rule |-> r, value |-> v, start |-> x, end |-> e]
      BY <2>1
    <3>3. ASSUME NEW h, h = [rule |-> r, value |-> v, start |-> x, end |-> e]
          PROVE  [h EXCEPT !.end = y] = [rule |-> r, value |-> v, start |-> x, end |-> y]
      BY <3>3
    <3> QED BY ONLY <3>1, <3>2, <3>3, Zenon
  <2>2. Absolute(f) = [f EXCEPT !.start = f.start + offset, !.end = f.end + offset]
    BY DEF Absolute
  <2> QED BY <2>1, <2>2, <1>1
<1>4. Moved(f, offset) = [rule |-> f.rule, value |-> f.value,
                          start |-> f.start + offset, end |-> (f.start + offset) + l]
  BY DEF Moved, FindingAt
<1>5. f.end + offset = (f.start + offset) + l
  BY ONLY <1>2, offset \in Nat, f.start \in Nat, l \in Nat, f.end \in Nat
<1> QED BY <1>3, <1>4, <1>5

LEMMA ReleaseReleases ==
  ASSUME StreamTypes, NEW all \in Seq(Alphabet), offset \in 0..Len(all),
         NEW n \in 1..(Len(all) - offset), NEW force \in BOOLEAN,
         Release(n, Evaluate(From(all, offset)), force)
  PROVE  Released(all, n, force)
<1> DEFINE u == From(all, offset)
           findings == Evaluate(u)
           final == Finalized(findings, n, force)
           b == [from |-> offset, to |-> offset + n,
                 masked |-> {offset + i : i \in MaskedPositions(n, final)}]
<1>1. offset \in Nat /\ n \in Nat /\ n > 0 /\ Len(all) \in Nat /\ n <= Len(all) - offset
  BY LenProperties DEF StreamTypes
<1>2. u \in Seq(Alphabet) /\ Len(u) = Len(all) - offset
  BY FromFacts
<1>3. Spans(Len(u), findings) /\ \A f \in findings : f = FindingAt(f.rule, f.value, f.start)
  BY <1>2, SpansOfText, FoundOfText DEF Found
<1>4. Len(u) \in Nat /\ n \in 0..Len(u)
  BY <1>1, <1>2
<1> HIDE DEF findings, u
<1>5. Spans(n, final)
  BY <1>3, <1>4, FinalSpans
<1> HIDE DEF final
<1>6. MaskedPositions(n, final) \subseteq 0..(n - 1)
  BY <1>1, <1>5, MaskedWithin
<1>7. PieceOf(b, offset + n)
  <2> DEFINE M == {offset + i : i \in MaskedPositions(n, final)}
  <2>1. M \subseteq offset..(offset + n - 1)
    BY <1>1, <1>6
  <2>2. M \in SUBSET Nat
    BY <1>1, <1>6
  <2> HIDE DEF M
  <2>3. offset + n \in Nat /\ offset < offset + n /\ offset + n <= offset + n
    BY <1>1
  <2>4. b = [from |-> offset, to |-> offset + n, masked |-> M]
    BY DEF M
  <2>5. b \in Block
    BY <2>2, <2>3, <2>4, <1>1 DEF Block
  <2>6. b.from = offset /\ b.to = offset + n /\ b.masked = M
    BY <2>4
  <2> HIDE DEF b
  <2> QED BY <2>1, <2>3, <2>5, <2>6 DEF PieceOf
<1>8. b \in Block
  BY <1>7 DEF PieceOf
<1>9. /\ blocks' = Append(blocks, b) /\ offset' = offset + n
      /\ reports' = reports \cup {Absolute(f) : f \in final}
      /\ forced' = (forced \/ final # Finalized(findings, n, FALSE))
  BY DEF Release, Deliver, final, findings, u
<1>10. /\ b.from = offset /\ b.to = offset + n
       /\ b.masked = {offset + i : i \in MaskedPositions(n, final)}
  OBVIOUS
<1> HIDE DEF b
<1>11. /\ blocks' \in Seq(Block)
       /\ \A k \in DOMAIN blocks' : blocks'[k] = b \/ (k \in DOMAIN blocks /\ blocks'[k] = blocks[k])
       /\ Delivered' = Delivered \cup b.from..(b.to - 1)
       /\ Masked' = Masked \cup b.masked
  BY <1>8, <1>9, AppendBlock DEF StreamTypes
<1>12. \A k \in DOMAIN blocks' :
         PieceOf(blocks'[k], offset + n) \/ (k \in DOMAIN blocks /\ blocks'[k] = blocks[k])
  BY <1>7, <1>11
<1> QED BY <1>9, <1>10, <1>11, <1>12 DEF Released, findings, u, final

\* Nothing is released when the boundary is 0, which comes to the same.
LEMMA NothingReleased ==
  ASSUME StreamTypes, NEW all \in Seq(Alphabet), offset \in 0..Len(all),
         NEW force \in BOOLEAN, UNCHANGED <<offset, blocks, reports, forced>>
  PROVE  Released(all, 0, force)
<1> DEFINE u == From(all, offset)
           findings == Evaluate(u)
<1>1. offset \in Nat
  BY DEF StreamTypes
<1>2. u \in Seq(Alphabet) /\ Len(u) \in Nat
  BY FromFacts, LenProperties
<1>3. Spans(Len(u), findings)
  BY <1>2, SpansOfText
<1> HIDE DEF findings, u
<1>4. ASSUME NEW w \in BOOLEAN
      PROVE  Finalized(findings, 0, w) = {}
  BY <1>3 DEF Finalized, Spans
<1>5. Finalized(findings, 0, force) = {} /\ Finalized(findings, 0, FALSE) = {}
  BY <1>4
<1>6. MaskedPositions(0, {}) = {}
  <2>1. Spans(0, {})
    BY DEF Spans
  <2>2. MaskedPositions(0, {}) \subseteq 0..(0 - 1)
    BY <2>1, MaskedWithin
  <2> QED BY <2>2
<1>7. offset..(offset + 0 - 1) = {} /\ offset + 0 = offset
  BY <1>1
<1>8. Delivered' = Delivered /\ Masked' = Masked
  BY DEF Delivered, Masked
<1>9. blocks' = blocks /\ offset' = offset /\ reports' = reports /\ forced' = forced
  OBVIOUS
<1>10. blocks \in Seq(Block) /\ forced \in BOOLEAN
  BY DEF StreamTypes
<1>11. \A k \in DOMAIN blocks' : k \in DOMAIN blocks /\ blocks'[k] = blocks[k]
  BY <1>9
<1>12. Finalized(Evaluate(From(all, offset)), 0, force) = {}
       /\ Finalized(Evaluate(From(all, offset)), 0, FALSE) = {}
  BY <1>5 DEF findings, u
<1>13. {offset + i : i \in MaskedPositions(0, {})} = {}
  BY <1>6
<1> QED BY <1>7, <1>8, <1>9, <1>10, <1>11, <1>12, <1>13 DEF Released

\* What a screening of the text `all` leaves: the first n pending characters
\* are released.
Screened(all, n, force) ==
  /\ all \in Seq(Alphabet) /\ Len(text) <= Len(all) /\ Len(all) <= MaxText
  /\ text' = all
  /\ n \in 0..(Len(all) - offset) /\ force \in BOOLEAN
  /\ Released(all, n, force)
  /\ UNCHANGED <<holdback, cap, raised>>

Now(all) == Evaluate(From(all, offset))
Left(all) == Len(all) - offset

LEMMA ChunkType ==
  ASSUME NEW chunk \in Chunks
  PROVE  chunk \in Seq(Alphabet) /\ Len(chunk) > 0
<1>1. PICK n \in 1..MaxChunk : chunk \in [1..n -> Alphabet]
  BY DEF Chunks
<1>2. n \in Nat /\ n > 0
  BY BoundsAssumption
<1>3. chunk \in Seq(Alphabet) /\ Len(chunk) = n
  BY <1>1, <1>2
<1> QED BY <1>2, <1>3

LEMMA ProcessStep ==
  ASSUME StreamTypes, NEW chunk \in Chunks, ProcessChunk(chunk)
  PROVE  LET all == text \o chunk
             n == Boundary(Left(all), Now(all))
         IN  /\ Screened(all, n, Forcing(Left(all), Now(all)))
             /\ chunk \in Seq(Alphabet) /\ Len(text) < Len(all)
             /\ Left(all) \in Nat /\ Spans(Left(all), Now(all))
             /\ Left(all) - n <= cap
             /\ ~flushed /\ flushed' = flushed
<1> DEFINE all == text \o chunk
           l == Left(all)
           n == Boundary(l, Now(all))
           force == Forcing(l, Now(all))
<1>1. chunk \in Seq(Alphabet) /\ Len(chunk) > 0 /\ Len(chunk) \in Nat /\ Len(text) \in Nat
  BY ChunkType, LenProperties DEF StreamTypes
<1>2. all \in Seq(Alphabet) /\ Len(all) = Len(text) + Len(chunk)
  BY <1>1, ConcatProperties DEF StreamTypes
<1>3. offset \in 0..Len(text) /\ offset \in Nat
  BY <1>1 DEF StreamTypes
<1> HIDE DEF all
<1>4. offset \in 0..Len(all) /\ Len(text) < Len(all) /\ l \in Nat
  <2>1. Len(all) - offset \in Nat /\ offset \in 0..Len(all) /\ Len(text) < Len(all)
    BY ONLY <1>1, <1>2, <1>3
  <2> QED BY <2>1 DEF Left
<1>5. From(all, offset) \in Seq(Alphabet) /\ Len(From(all, offset)) = l
  BY <1>2, <1>4, FromFacts DEF Left
<1>6. Pending(all) = From(all, offset) /\ Len(Pending(all)) = l
  BY <1>5 DEF Pending, From
<1>7. Spans(l, Now(all))
  BY <1>5, SpansOfText DEF Now
<1>8. n \in 0..l /\ l - n <= cap
  BY <1>4, <1>7, ReleasedFacts DEF StreamTypes
<1>9. /\ ~flushed /\ Len(all) <= MaxText /\ text' = all
      /\ UNCHANGED <<holdback, cap, raised, flushed>>
  BY DEF ProcessChunk, all
<1>10. IF n = 0 THEN UNCHANGED <<offset, blocks, reports, forced>>
       ELSE Release(n, Now(all), force)
  BY <1>6 DEF ProcessChunk, all, Boundary, Forcing, Now
<1>11. force \in BOOLEAN
  BY DEF Forcing
<1> HIDE DEF force, n, l
<1>12. Released(all, n, force)
  <2>1. CASE n = 0
    BY <2>1, <1>2, <1>4, <1>10, <1>11, NothingReleased
  <2>2. CASE n # 0
    <3>1. n \in 1..(Len(all) - offset)
      BY <2>2, <1>4, <1>8 DEF l, Left
    <3> QED BY <2>2, <3>1, <1>2, <1>4, <1>10, <1>11, ReleaseReleases DEF Now
  <2> QED BY <2>1, <2>2
<1>13. Len(text) <= Len(all)
  BY <1>4, <1>1, <1>2
<1>14. Screened(all, n, force)
  BY <1>2, <1>8, <1>9, <1>11, <1>12, <1>13 DEF Screened, l, Left
<1> QED BY <1>1, <1>4, <1>7, <1>8, <1>9, <1>14 DEF all, n, l, force

LEMMA FlushStep ==
  ASSUME StreamTypes, Flush
  PROVE  /\ Screened(text, Left(text), FALSE)
         /\ Left(text) \in Nat /\ Spans(Left(text), Now(text))
         /\ ~flushed /\ flushed' = TRUE
<1> DEFINE n == Left(text)
<1>1. text \in Seq(Alphabet) /\ Len(text) \in Nat /\ offset \in 0..Len(text) /\ offset \in Nat
  BY LenProperties DEF StreamTypes
<1>2. n \in Nat
  BY <1>1 DEF Left
<1>3. From(text, offset) \in Seq(Alphabet) /\ Len(From(text, offset)) = n
  BY <1>1, FromFacts DEF Left
<1>4. Pending(text) = From(text, offset) /\ Len(Pending(text)) = n
  BY <1>3 DEF Pending, From
<1>5. Spans(n, Now(text))
  BY <1>3, SpansOfText DEF Now
<1>6. /\ ~flushed /\ flushed' = TRUE /\ text' = text
      /\ UNCHANGED <<holdback, cap, raised>>
      /\ IF n = 0 THEN UNCHANGED <<offset, blocks, reports, forced>>
         ELSE Release(n, Now(text), FALSE)
  BY <1>4 DEF Flush, Now
<1> HIDE DEF n
<1>7. Released(text, n, FALSE)
  <2>1. CASE n = 0
    BY <2>1, <1>1, <1>6, NothingReleased
  <2>2. CASE n # 0
    <3>1. n \in 1..(Len(text) - offset)
      BY <2>2, <1>2 DEF n, Left
    <3> QED BY <2>2, <3>1, <1>1, <1>6, ReleaseReleases DEF Now
  <2> QED BY <2>1, <2>2
<1>8. Len(text) <= MaxText /\ Len(text) <= Len(text)
  BY <1>1 DEF StreamTypes
<1>9. n \in 0..(Len(text) - offset)
  BY <1>2 DEF n, Left
<1>10. Screened(text, n, FALSE)
  BY <1>1, <1>6, <1>7, <1>8, <1>9 DEF Screened
<1> QED BY <1>2, <1>5, <1>6, <1>10 DEF n

\* What is masked is part of what is released.
LEMMA ScreenedMasks ==
  ASSUME StreamTypes, NEW all, NEW n, NEW force, Screened(all, n, force)
  PROVE  LET final == Finalized(Now(all), n, force)
         IN  /\ Spans(n, final)
             /\ {offset + i : i \in MaskedPositions(n, final)}
                  \subseteq offset..(offset + n - 1)
<1> DEFINE F == Now(all)
           final == Finalized(F, n, force)
<1>1. /\ all \in Seq(Alphabet) /\ Len(all) \in Nat /\ Len(text) \in Nat /\ offset \in Nat
      /\ Len(text) <= Len(all) /\ offset \in 0..Len(text) /\ n \in 0..(Len(all) - offset)
      /\ n \in Nat
  BY LenProperties DEF StreamTypes, Screened
<1>2. From(all, offset) \in Seq(Alphabet) /\ Len(From(all, offset)) = Len(all) - offset
  BY <1>1, FromFacts
<1>3. /\ Spans(Len(all) - offset, F) /\ \A f \in F : f = FindingAt(f.rule, f.value, f.start)
  BY <1>2, SpansOfText, FoundOfText DEF Found, Now
<1>4. Len(all) - offset \in Nat
  BY ONLY <1>1
<1> HIDE DEF F
<1>5. Spans(n, final)
  BY <1>3, <1>4, <1>1, FinalSpans DEF Screened
<1> HIDE DEF final
<1>6. MaskedPositions(n, final) \subseteq 0..(n - 1)
  BY <1>5, <1>1, MaskedWithin
<1>7. \A i \in 0..(n - 1) : offset + i \in offset..(offset + n - 1)
  BY ONLY <1>1
<1> QED BY <1>5, <1>6, <1>7 DEF final, F

LEMMA ScreenedKeeps ==
  ASSUME StreamInv, NEW all, NEW n, NEW force, Screened(all, n, force),
         flushed' \in BOOLEAN,
         Left(all) - n <= cap,
         flushed' => n = Left(all)
  PROVE  StreamInv'
<1> DEFINE F == Now(all)
           final == Finalized(F, n, force)
           new == offset..(offset + n - 1)
           M == {offset + i : i \in MaskedPositions(n, final)}
<1>1. /\ all \in Seq(Alphabet) /\ Len(all) \in Nat /\ Len(text) \in Nat /\ offset \in Nat
      /\ Len(text) <= Len(all) /\ offset \in 0..Len(text) /\ n \in 0..(Len(all) - offset)
      /\ n \in Nat
  BY LenProperties DEF StreamInv, StreamTypes, Screened
<1>2. /\ offset' = offset + n /\ Delivered' = Delivered \cup new /\ Masked' = Masked \cup M
      /\ forced' \in BOOLEAN /\ blocks' \in Seq(Block)
      /\ \A k \in DOMAIN blocks' :
           PieceOf(blocks'[k], offset + n) \/ (k \in DOMAIN blocks /\ blocks'[k] = blocks[k])
  BY DEF Screened, Released, Now, StreamInv, StreamTypes
<1>3. offset + n <= Len(all) /\ offset + n \in 0..Len(all)
  BY ONLY <1>1
<1>4. M \subseteq new
  BY ScreenedMasks DEF StreamInv
<1> HIDE DEF M
<1>5. new \subseteq 0..(Len(all) - 1)
  <2>1. \A p \in new : p \in 0..(Len(all) - 1)
    BY ONLY <1>1, <1>3
  <2> QED BY <2>1
<1>6. StreamTypes'
  <2>1. ASSUME NEW k \in DOMAIN blocks'
        PROVE  PieceOf(blocks'[k], Len(all))
    <3>1. CASE PieceOf(blocks'[k], offset + n)
      <4>1. blocks'[k].to \in Nat /\ blocks'[k].to <= Len(all)
        BY <3>1, <1>1, <1>3 DEF PieceOf, Block
      <4> QED BY <3>1, <4>1 DEF PieceOf
    <3>2. CASE k \in DOMAIN blocks /\ blocks'[k] = blocks[k]
      <4>1. PieceOf(blocks[k], Len(text))
        BY <3>2 DEF StreamInv, StreamTypes
      <4>2. blocks[k].to \in Nat /\ blocks[k].to <= Len(all)
        BY <4>1, <1>1 DEF PieceOf, Block
      <4> QED BY <3>2, <4>1, <4>2 DEF PieceOf
    <3> QED BY <3>1, <3>2, <1>2
  <2> QED BY <2>1, <1>1, <1>2, <1>3 DEF StreamInv, StreamTypes, Screened
<1>7. 0..(offset + n - 1) \subseteq 0..(offset - 1) \cup new
  <2>1. \A p \in 0..(offset + n - 1) : p \in 0..(offset - 1) \/ p \in new
    BY ONLY <1>1
  <2> QED BY <2>1
<1>7a. 0..(offset' - 1) = 0..(offset + n - 1)
  <2>1. offset' = offset + n
    BY <1>2
  <2>2. offset \in Nat /\ n \in Nat
    BY <1>1
  <2> QED BY ONLY <2>1, <2>2
<1> HIDE DEF new
<1>8. 0..(offset' - 1) \subseteq Delivered'
  <2>1. 0..(offset - 1) \subseteq Delivered
    BY DEF StreamInv
  <2>2. Delivered' = Delivered \cup new
    BY <1>2
  <2> QED BY <2>1, <2>2, <1>7, <1>7a
<1>9. Delivered' \subseteq 0..(Len(text') - 1)
  <2>1. \A p \in 0..(Len(text) - 1) : p \in 0..(Len(all) - 1)
    BY ONLY <1>1
  <2> QED BY <2>1, <1>2, <1>5 DEF StreamInv, Screened
<1>10. Masked' \subseteq Delivered'
  BY <1>2, <1>4 DEF StreamInv
<1>11. ASSUME ~raised'
       PROVE  /\ Delivered' = 0..(offset' - 1)
              /\ Len(text') - offset' <= cap'
              /\ flushed' => offset' = Len(text')
  <2>1. ~raised /\ text' = all /\ cap' = cap
    BY <1>11 DEF Screened
  <2>2. Delivered = 0..(offset - 1)
    BY <2>1 DEF StreamInv
  <2>3. 0..(offset - 1) \cup new \subseteq 0..(offset + n - 1)
    <3>1. /\ \A p \in 0..(offset - 1) : p \in 0..(offset + n - 1)
          /\ \A p \in new : p \in 0..(offset + n - 1)
      BY ONLY <1>1 DEF new
    <3> QED BY <3>1
  <2>4. Delivered' = 0..(offset' - 1)
    <3>1. Delivered' = Delivered \cup new
      BY <1>2
    <3> QED BY <3>1, <2>2, <2>3, <1>7, <1>7a
  <2>5. (Len(all) - offset) - n <= cap /\ (flushed' => n = Len(all) - offset)
    BY DEF Left
  <2>6. cap \in Nat
    BY DEF StreamInv, StreamTypes
  <2>7. Len(all) - (offset + n) <= cap
    BY ONLY <2>5, <2>6, <1>1
  <2>8. flushed' => offset + n = Len(all)
    BY <2>5, <1>1
  <2> QED BY <2>1, <2>4, <2>7, <2>8, <1>2
<1> QED BY <1>6, <1>8, <1>9, <1>10, <1>11 DEF StreamInv

\* The steps of a session in which an evaluation raised.
LEMMA RaisesKeep ==
  ASSUME StreamInv,
         \/ \E chunk \in Chunks : ProcessChunkRaises(chunk)
         \/ FlushRaises
  PROVE  /\ StreamInv' /\ raised' /\ Delivered \subseteq Delivered' /\ Masked' = Masked
         /\ reports' = reports
         /\ \/ \E more \in Seq(Alphabet) : /\ Len(more) > 0 /\ text' = text \o more
                                           /\ ~flushed /\ ~flushed'
            \/ text' = text /\ ~flushed /\ flushed' /\ Delivered' = 0..(Len(text) - 1)
<1>1. text \in Seq(Alphabet) /\ Len(text) \in Nat /\ offset \in 0..Len(text) /\ offset \in Nat
  BY LenProperties DEF StreamInv, StreamTypes
<1>2. ASSUME NEW more, NEW from \in Nat, from < Len(text') /\ from <= Len(text),
             more \in Seq(Alphabet), text' = text \o more, Len(text') <= MaxText,
             blocks' = Append(blocks, [from |-> from, to |-> Len(text'), masked |-> {}]),
             UNCHANGED <<holdback, cap, offset, reports, forced>>,
             raised' = TRUE, flushed' \in BOOLEAN
      PROVE  /\ StreamInv' /\ Masked' = Masked
             /\ Delivered' = Delivered \cup from..(Len(text') - 1)
  <2> DEFINE b == [from |-> from, to |-> Len(text'), masked |-> {}] m == Len(text')
  <2>1. text' \in Seq(Alphabet) /\ m \in Nat /\ m = Len(text) + Len(more) /\ Len(more) \in Nat
    BY <1>1, <1>2, ConcatProperties, LenProperties
  <2>2. b \in Block /\ b.from = from /\ b.to = m /\ b.masked = {}
    BY <2>1 DEF Block
  <2>4. blocks' = Append(blocks, b)
    BY <1>2
  <2> HIDE DEF b
  <2>3. b.masked \subseteq b.from..(b.to - 1)
    BY ONLY <2>2
  <2>5. PieceOf(b, m)
    BY <2>1, <2>2, <2>3, <1>2 DEF PieceOf
  <2>6. /\ blocks' \in Seq(Block)
        /\ \A k \in DOMAIN blocks' : blocks'[k] = b \/ (k \in DOMAIN blocks /\ blocks'[k] = blocks[k])
        /\ Delivered' = Delivered \cup b.from..(b.to - 1)
        /\ Masked' = Masked \cup b.masked
    BY <2>2, <2>4, AppendBlock DEF StreamInv, StreamTypes
  <2>7. ASSUME NEW k \in DOMAIN blocks'
        PROVE  PieceOf(blocks'[k], m)
    <3>1. CASE blocks'[k] = b
      BY <3>1, <2>5
    <3>2. CASE k \in DOMAIN blocks /\ blocks'[k] = blocks[k]
      <4>1. PieceOf(blocks[k], Len(text))
        BY <3>2 DEF StreamInv, StreamTypes
      <4>2. blocks[k].to \in Nat /\ blocks[k].to <= m
        BY <4>1, <1>1, <2>1 DEF PieceOf, Block
      <4> QED BY <3>2, <4>1, <4>2 DEF PieceOf
    <3> QED BY <3>1, <3>2, <2>6
  <2>8. offset \in 0..m
    BY ONLY <1>1, <2>1
  <2>9. StreamTypes'
    BY <2>1, <2>6, <2>7, <2>8, <1>2 DEF StreamInv, StreamTypes
  <2>10. Delivered' = Delivered \cup from..(m - 1) /\ Masked' = Masked
    BY <2>2, <2>6
  <2>11. Delivered' \subseteq 0..(m - 1)
    <3>1. /\ \A p \in from..(m - 1) : p \in 0..(m - 1)
          /\ \A p \in 0..(Len(text) - 1) : p \in 0..(m - 1)
      BY ONLY <1>1, <2>1, from \in Nat
    <3>2. Delivered \subseteq 0..(Len(text) - 1)
      BY DEF StreamInv
    <3> QED BY <3>1, <3>2, <2>10
  <2>12. 0..(offset' - 1) \subseteq Delivered'
    BY <2>10, <1>2 DEF StreamInv
  <2>13. Masked' \subseteq Delivered'
    BY <2>10 DEF StreamInv
  <2>14. raised'
    BY <1>2
  <2> QED BY <2>9, <2>10, <2>11, <2>12, <2>13, <2>14 DEF StreamInv
<1>3. ASSUME NEW chunk \in Chunks, ProcessChunkRaises(chunk)
      PROVE  /\ StreamInv' /\ raised' /\ Delivered \subseteq Delivered' /\ Masked' = Masked
             /\ reports' = reports
             /\ \E more \in Seq(Alphabet) : /\ Len(more) > 0 /\ text' = text \o more
                                            /\ ~flushed /\ ~flushed'
  <2>1. chunk \in Seq(Alphabet) /\ Len(chunk) > 0 /\ Len(chunk) \in Nat
    BY ChunkType, LenProperties
  <2>2. /\ text' = text \o chunk /\ Len(text') <= MaxText /\ ~flushed /\ flushed' = flushed
        /\ blocks' = Append(blocks, [from |-> Len(text), to |-> Len(text'), masked |-> {}])
        /\ UNCHANGED <<holdback, cap, offset, reports, forced>> /\ raised' = TRUE
    BY <1>3 DEF ProcessChunkRaises
  <2>3. Len(text') = Len(text) + Len(chunk)
    BY <2>1, <2>2, <1>1, ConcatProperties
  <2>4. Len(text) < Len(text') /\ Len(text) <= Len(text)
    BY ONLY <2>1, <2>3, <1>1
  <2>5. flushed' \in BOOLEAN
    BY <2>2 DEF StreamInv, StreamTypes
  <2>6. StreamInv' /\ Masked' = Masked /\ Delivered \subseteq Delivered'
    BY <2>1, <2>2, <2>4, <2>5, <1>1, <1>2
  <2> QED BY <2>1, <2>2, <2>6
<1>4. ASSUME FlushRaises
      PROVE  /\ StreamInv' /\ raised' /\ Delivered \subseteq Delivered' /\ Masked' = Masked
             /\ reports' = reports
             /\ text' = text /\ ~flushed /\ flushed' /\ Delivered' = 0..(Len(text) - 1)
  <2>1. /\ text' = text /\ ~flushed /\ flushed' = TRUE /\ Pending(text) # <<>>
        /\ blocks' = Append(blocks, [from |-> offset, to |-> Len(text'), masked |-> {}])
        /\ UNCHANGED <<holdback, cap, offset, reports, forced>> /\ raised' = TRUE
    BY <1>4 DEF FlushRaises
  <2>2. offset < Len(text)
    <3>1. From(text, offset) \in Seq(Alphabet) /\ Len(From(text, offset)) = Len(text) - offset
      BY <1>1, FromFacts
    <3>2. From(text, offset) # <<>>
      BY <2>1 DEF From, Pending
    <3>3. Len(From(text, offset)) # 0
      BY <3>1, <3>2, EmptySeq
    <3> QED BY <3>1, <3>3, <1>1
  <2>3. text' = text \o <<>> /\ <<>> \in Seq(Alphabet)
    BY <2>1, <1>1, ConcatEmptySeq, EmptySeq
  <2>4. Len(text') <= MaxText /\ offset < Len(text') /\ offset <= Len(text) /\ flushed' \in BOOLEAN
    BY <2>1, <2>2, <1>1 DEF StreamInv, StreamTypes
  <2> DEFINE none == <<>>
  <2>5. text' = text \o none /\ none \in Seq(Alphabet)
    BY <2>3
  <2> HIDE DEF none
  <2>6. /\ StreamInv' /\ Masked' = Masked
        /\ Delivered' = Delivered \cup offset..(Len(text') - 1)
    BY <2>1, <2>4, <2>5, <1>1, <1>2
  <2>7. Delivered' = 0..(Len(text) - 1)
    <3>1. 0..(offset - 1) \subseteq Delivered /\ Delivered \subseteq 0..(Len(text) - 1)
      BY DEF StreamInv
    <3>2. 0..(offset - 1) \cup offset..(Len(text) - 1) = 0..(Len(text) - 1)
      BY <1>1
    <3> QED BY <3>1, <3>2, <2>1, <2>6
  <2> QED BY <2>1, <2>6, <2>7
<1> QED BY <1>3, <1>4

LEMMA StreamInitInv ==
  ASSUME StreamInit
  PROVE  StreamInv /\ Delivered = {} /\ Masked = {} /\ Len(text) = 0
<1> DEFINE none == <<>>
<1>1. PICK z \in Sizes : holdback = z.holdback /\ cap = Larger(z.cap, z.holdback)
  BY DEF StreamInit
<1>2. holdback \in Nat /\ cap \in Nat /\ cap >= holdback
  <2>1. z.holdback \in Nat /\ z.cap \in Nat
    BY SizesAssumption
  <2> QED BY <1>1, <2>1 DEF Larger
<1>3. /\ text = none /\ offset = 0 /\ blocks = none
      /\ forced = FALSE /\ raised = FALSE /\ flushed = FALSE
  BY DEF StreamInit
<1>4. none \in Seq(Alphabet) /\ none \in Seq(Block) /\ Len(none) = 0 /\ DOMAIN none = {}
  BY EmptySeq
<1> HIDE DEF none
<1>5. Delivered = {} /\ Masked = {}
  BY <1>3, <1>4 DEF Delivered, Masked
<1>6. StreamTypes
  <2>1. offset \in 0..Len(text) /\ Len(text) <= MaxText
    BY <1>3, <1>4, BoundsAssumption
  <2>2. \A k \in DOMAIN blocks : PieceOf(blocks[k], Len(text))
    BY <1>3, <1>4
  <2> QED BY <2>1, <2>2, <1>2, <1>3, <1>4 DEF StreamTypes
<1>7. 0..(offset - 1) = {} /\ Len(text) - offset <= cap /\ offset = Len(text)
  BY <1>2, <1>3, <1>4
<1> QED BY <1>3, <1>4, <1>5, <1>6, <1>7 DEF StreamInv

\* Every step of a session that evaluates, and all that is said of it.
StepOf(all, n, force) ==
  /\ Screened(all, n, force)
  /\ Left(all) \in Nat /\ Spans(Left(all), Now(all)) /\ Left(all) - n <= cap
  /\ ~flushed
  /\ \/ /\ flushed' = FALSE
        /\ n = Boundary(Left(all), Now(all)) /\ force = Forcing(Left(all), Now(all))
        /\ \E more \in Seq(Alphabet) : all = text \o more /\ Len(more) > 0
     \/ /\ flushed' = TRUE
        /\ n = Left(all) /\ force = FALSE /\ all = text

Raises == \/ \E chunk \in Chunks : ProcessChunkRaises(chunk)
          \/ FlushRaises

LEMMA StreamSteps ==
  ASSUME StreamInv, StreamNext
  PROVE  Raises \/ \E all, n, force : StepOf(all, n, force)
<1>1. StreamTypes
  BY DEF StreamInv
<1>2. ASSUME NEW chunk \in Chunks, ProcessChunk(chunk)
      PROVE  \E all, n, force : StepOf(all, n, force)
  <2> DEFINE all == text \o chunk
             n == Boundary(Left(all), Now(all)) force == Forcing(Left(all), Now(all))
  <2>1. /\ Screened(all, n, force)
        /\ chunk \in Seq(Alphabet) /\ Len(text) < Len(all)
        /\ Left(all) \in Nat /\ Spans(Left(all), Now(all)) /\ Left(all) - n <= cap
        /\ ~flushed /\ flushed' = flushed
    BY <1>1, <1>2, ProcessStep
  <2>2. flushed' = FALSE
    BY <2>1, <1>1 DEF StreamTypes
  <2>3. Len(chunk) > 0
    BY ChunkType
  <2> HIDE DEF n, force
  <2>4. StepOf(all, n, force)
    BY <2>1, <2>2, <2>3 DEF StepOf, n, force
  <2> QED BY <2>4
<1>3. ASSUME Flush
      PROVE  \E all, n, force : StepOf(all, n, force)
  <2> DEFINE n == Left(text)
  <2>1. /\ Screened(text, n, FALSE)
        /\ n \in Nat /\ Spans(n, Now(text))
        /\ ~flushed /\ flushed' = TRUE
    BY <1>1, <1>3, FlushStep
  <2>2. n - n <= cap
    BY <2>1, <1>1 DEF StreamTypes
  <2>3. StepOf(text, n, FALSE)
    BY <2>1, <2>2 DEF StepOf
  <2> QED BY <2>3
<1> QED BY <1>2, <1>3 DEF StreamNext, Raises

LEMMA StepKeeps ==
  ASSUME StreamInv, NEW all, NEW n, NEW force, StepOf(all, n, force)
  PROVE  StreamInv'
<1>1. Screened(all, n, force) /\ Left(all) - n <= cap
  BY DEF StepOf
<1>2. flushed' \in BOOLEAN /\ (flushed' => n = Left(all))
  BY DEF StepOf
<1> QED BY <1>1, <1>2, ScreenedKeeps

\* The variables of a step that changes nothing.
LEMMA StutterKeeps ==
  ASSUME UNCHANGED streamVars
  PROVE  /\ StreamInv => StreamInv'
         /\ Delivered' = Delivered /\ Masked' = Masked
<1>1. /\ holdback' = holdback /\ cap' = cap /\ text' = text /\ offset' = offset
      /\ blocks' = blocks /\ reports' = reports /\ forced' = forced
      /\ raised' = raised /\ flushed' = flushed
  BY DEF streamVars
<1>2. Delivered' = Delivered /\ Masked' = Masked
  BY <1>1 DEF Delivered, Masked
<1> QED BY <1>1, <1>2 DEF StreamInv, StreamTypes

\* Whatever the sizes, the bounds and the rules: what was handed out is a
\* beginning of what was sent, and what is held back never exceeds the cap,
\* unless an evaluation raised (_pending_text, _pending_offset).
THEOREM StreamInvariant == StreamSpec => []StreamInv
<1>1. StreamInit => StreamInv
  BY StreamInitInv
<1>2. StreamInv /\ [StreamNext]_streamVars => StreamInv'
  <2> SUFFICES ASSUME StreamInv, [StreamNext]_streamVars PROVE StreamInv'
    OBVIOUS
  <2>1. CASE Raises
    BY <2>1, RaisesKeep DEF Raises
  <2>2. CASE \E all, n, force : StepOf(all, n, force)
    BY <2>2, StepKeeps
  <2>3. CASE UNCHANGED streamVars
    BY <2>3, StutterKeeps
  <2> QED BY <2>1, <2>2, <2>3, StreamSteps
<1> QED BY <1>1, <1>2, PTL DEF StreamSpec

\* Every variable keeps its type, and the text held back never exceeds the
\* cap (CompletionSafetyStream).
THEOREM StreamTypesKept == StreamSpec => []StreamTypeOK
<1>1. StreamInv => StreamTypeOK
  <2> SUFFICES ASSUME StreamInv PROVE StreamTypeOK
    OBVIOUS
  <2>1. text \in Seq(Alphabet) /\ offset \in 0..Len(text) /\ Len(text) \in Nat
    BY LenProperties DEF StreamInv, StreamTypes
  <2>2. Len(Pending(text)) = Len(text) - offset
    BY <2>1, FromFacts DEF Pending, From
  <2>3. ~raised => Len(Pending(text)) <= cap
    BY <2>2 DEF StreamInv
  <2>4. \A k \in DOMAIN blocks :
          /\ 0 <= blocks[k].from /\ blocks[k].from < blocks[k].to
          /\ blocks[k].to <= Len(text)
          /\ blocks[k].masked \subseteq blocks[k].from..(blocks[k].to - 1)
    BY DEF StreamInv, StreamTypes, PieceOf, Block
  <2> QED BY <2>1, <2>3, <2>4 DEF StreamTypeOK, StreamInv, StreamTypes
<1> QED BY <1>1, StreamInvariant, PTL

\* Nothing is masked that no MASK rule's value covers, and what is masked is
\* reported, whatever is cut off at the cap and however short the holdback
\* (_finalize_local_findings, _release): no more than a type invariant is
\* needed beside it.
LEMMA StepMasksMatches ==
  ASSUME StreamInv, OnlyMatchesMasked, NEW all, NEW n, NEW force, StepOf(all, n, force)
  PROVE  OnlyMatchesMasked'
<1> DEFINE F == Now(all) final == Finalized(F, n, force) u == From(all, offset)
<1>1. /\ all \in Seq(Alphabet) /\ text' = all /\ force \in BOOLEAN
      /\ Masked' = Masked \cup {offset + i : i \in MaskedPositions(n, final)}
      /\ reports' = reports \cup {Absolute(f) : f \in final}
      /\ n \in 0..(Len(all) - offset) /\ Spans(Left(all), F)
  BY DEF StepOf, Screened, Released, Now
<1>2. text \in Seq(Alphabet) /\ Len(text) \in Nat /\ offset \in 0..Len(text) /\ offset \in Nat
      /\ Len(text) <= Len(all) /\ Len(all) \in Nat
  BY <1>1, LenProperties DEF StreamInv, StreamTypes, StepOf, Screened
<1>3. offset \in 0..Len(all) /\ Left(all) = Len(all) - offset /\ Left(all) \in Nat /\ n \in Nat
  BY <1>1, <1>2 DEF Left
<1>4. \E more \in Seq(Alphabet) : all = text \o more
  <2>1. CASE all = text
    <3>1. all = text \o <<>> /\ <<>> \in Seq(Alphabet)
      BY <2>1, <1>2, ConcatEmptySeq, EmptySeq
    <3> DEFINE none == <<>>
    <3>2. all = text \o none /\ none \in Seq(Alphabet)
      BY <3>1
    <3> HIDE DEF none
    <3> QED BY <3>2
  <2>2. CASE \E more \in Seq(Alphabet) : all = text \o more /\ Len(more) > 0
    BY <2>2
  <2> QED BY <2>1, <2>2 DEF StepOf
<1>5. u \in Seq(Alphabet) /\ Len(u) = Left(all)
  BY <1>1, <1>3, FromFacts
<1>6. \A f \in F : Found(u, f)
  BY <1>5, FoundOfText DEF Now
<1>7. /\ Spans(n, final)
      /\ \A f \in final :
           \E g \in F :
             /\ f.rule = g.rule /\ f.start = g.start /\ f.end <= g.end
             /\ f = [g EXCEPT !.end = f.end]
  <2>1. \A f \in F : f = FindingAt(f.rule, f.value, f.start)
    BY <1>6 DEF Found
  <2>2. n \in 0..Left(all)
    BY <1>1, <1>3
  <2> HIDE DEF F
  <2> QED BY <2>1, <2>2, <1>1, <1>3, FinalSpans
<1> HIDE DEF F, final, u
\* An old masked position.
<1>8. ASSUME NEW p \in Masked
      PROVE  /\ \E r \in {q \in Rules : q.action = "MASK"} :
                  \E k \in DOMAIN r.values, s \in 0..p :
                    OccursAt(all, r.values[k], s) /\ p < s + Len(r.values[k])
             /\ \E f \in MaskSegments(reports') : p \in SpanOf(f)
  <2>1. PICK more \in Seq(Alphabet) : all = text \o more
    BY <1>4
  <2>2. PICK r \in {q \in Rules : q.action = "MASK"} :
          \E k \in DOMAIN r.values, s \in 0..p :
            OccursAt(text, r.values[k], s) /\ p < s + Len(r.values[k])
    BY <1>8 DEF OnlyMatchesMasked
  <2>3. PICK k \in DOMAIN r.values, s \in 0..p :
          OccursAt(text, r.values[k], s) /\ p < s + Len(r.values[k])
    BY <2>2
  <2>4. r.values[k] \in Values /\ s \in Nat
    BY ValueOfRule
  <2>5. s + Len(r.values[k]) <= Len(text)
    BY <2>3 DEF OccursAt
  <2>6. OccursAt(all, r.values[k], s)
    BY <2>1, <2>3, <2>4, <2>5, <1>2, OccursInPrefix
  <2>7. \E f \in MaskSegments(reports) : p \in SpanOf(f)
    BY <1>8 DEF OnlyMatchesMasked
  <2>8. MaskSegments(reports) \subseteq MaskSegments(reports')
    BY <1>1 DEF MaskSegments
  <2> QED BY <2>2, <2>3, <2>6, <2>7, <2>8
\* A position masked now.
<1>9. ASSUME NEW i \in MaskedPositions(n, final)
      PROVE  /\ \E r \in {q \in Rules : q.action = "MASK"} :
                  \E k \in DOMAIN r.values, s \in 0..(offset + i) :
                    OccursAt(all, r.values[k], s) /\ offset + i < s + Len(r.values[k])
             /\ \E f \in MaskSegments(reports') : offset + i \in SpanOf(f)
  <2>1. i \in 0..(n - 1)
    BY <1>3, <1>7, MaskedWithin
  <2>2. PICK f \in MaskSegments(final) : i \in SpanOf(f)
    BY <1>3, <1>7, MaskedWithin
  <2>3. f \in final /\ f.rule.action = "MASK" /\ f.start \in Nat /\ f.end \in Nat
    BY <1>7 DEF MaskSegments, Spans
  <2>4. PICK g \in F : /\ f.rule = g.rule /\ f.start = g.start /\ f.end <= g.end
                       /\ f = [g EXCEPT !.end = f.end]
    BY <2>3, <1>7
  <2> DEFINE r == g.rule k == g.value v == r.values[k]
  <2>5. /\ r \in Rules /\ k \in DOMAIN r.values /\ v \in Values
        /\ g.start \in Nat /\ g.end \in Nat /\ g.end = g.start + Len(v)
        /\ OccursAt(u, v, g.start) /\ g = FindingAt(r, k, g.start)
    BY <1>6 DEF Found
  <2>6. Len(v) \in Nat
    BY <2>5, ValueLength
  <2>7. f.start <= i /\ i < f.end /\ i \in Nat
    <3>1. i \in f.start..(f.end - 1)
      BY <2>2 DEF SpanOf
    <3> QED BY ONLY <3>1, <2>3
  <2> HIDE DEF v
  <2>8. OccursAt(all, v, g.start + offset)
    <3>1. OccursAt(From(all, offset), v, g.start) <=> OccursAt(all, v, g.start + offset)
      BY <1>1, <1>3, <2>5, OccursInSuffix
    <3> QED BY <3>1, <2>5 DEF u
  <2>9. g.start + offset \in 0..(offset + i) /\ offset + i < (g.start + offset) + Len(v)
    BY ONLY <2>3, <2>4, <2>5, <2>6, <2>7, <1>2
  <2>10. r \in {q \in Rules : q.action = "MASK"}
    BY <2>3, <2>4, <2>5
  <2>11. /\ Absolute(f).rule = f.rule /\ Absolute(f).start = f.start + offset
         /\ Absolute(f).end = f.end + offset
    <3>1. g = [rule |-> r, value |-> k, start |-> g.start, end |-> g.start + Len(v)]
      BY <2>5 DEF FindingAt, v
    <3>2. [g EXCEPT !.end = f.end]
            = [rule |-> r, value |-> k, start |-> g.start, end |-> f.end]
      <4>1. ASSUME NEW x, NEW a, NEW b, NEW c, NEW d, NEW e,
                   x = [rule |-> a, value |-> b, start |-> c, end |-> d]
            PROVE  [x EXCEPT !.end = e] = [rule |-> a, value |-> b, start |-> c, end |-> e]
        BY <4>1
      <4> QED BY <4>1, <3>1
    <3>3. f = [rule |-> r, value |-> k, start |-> g.start, end |-> f.end]
      BY <3>2, <2>4
    <3>4. ASSUME NEW x, NEW a, NEW b, NEW c, NEW d, NEW e, NEW h,
                 x = [rule |-> a, value |-> b, start |-> c, end |-> d]
          PROVE  /\ [x EXCEPT !.start = e, !.end = h].rule = a
                 /\ [x EXCEPT !.start = e, !.end = h].start = e
                 /\ [x EXCEPT !.start = e, !.end = h].end = h
      BY <3>4
    <3>5. Absolute(f) = [f EXCEPT !.start = f.start + offset, !.end = f.end + offset]
      BY DEF Absolute
    <3> QED BY <3>3, <3>4, <3>5, <2>4
  <2>12. Absolute(f) \in MaskSegments(reports')
    BY <1>1, <2>3, <2>11 DEF MaskSegments
  <2>13. offset + i \in SpanOf(Absolute(f))
    <3>1. offset + i \in (f.start + offset)..(f.end + offset - 1)
      BY ONLY <2>3, <2>7, <1>2
    <3> DEFINE a == Absolute(f)
    <3>2. a.start = f.start + offset /\ a.end = f.end + offset
      BY <2>11
    <3> HIDE DEF a
    <3>3. offset + i \in a.start..(a.end - 1)
      BY ONLY <3>1, <3>2, <2>3, <1>2
    <3> QED BY <3>3 DEF SpanOf, a
  <2> QED BY <2>5, <2>8, <2>9, <2>10, <2>12, <2>13 DEF v
<1>10. ASSUME NEW p \in Masked'
       PROVE  /\ \E r \in {q \in Rules : q.action = "MASK"} :
                   \E k \in DOMAIN r.values, s \in 0..p :
                     OccursAt(text', r.values[k], s) /\ p < s + Len(r.values[k])
              /\ \E f \in MaskSegments(reports') : p \in SpanOf(f)
  <2>1. p \in Masked \/ \E i \in MaskedPositions(n, final) : p = offset + i
    BY <1>1
  <2> QED BY <2>1, <1>1, <1>8, <1>9
<1> QED BY <1>10 DEF OnlyMatchesMasked

LEMMA RaisesMaskMatches ==
  ASSUME StreamInv, OnlyMatchesMasked, Raises
  PROVE  OnlyMatchesMasked'
<1>1. /\ Masked' = Masked /\ reports' = reports
      /\ \/ \E more \in Seq(Alphabet) : text' = text \o more
         \/ text' = text
  BY RaisesKeep DEF Raises
<1>2. text \in Seq(Alphabet) /\ Len(text) \in Nat
  BY LenProperties DEF StreamInv, StreamTypes
<1>3. ASSUME NEW value \in Values, NEW s \in Nat, OccursAt(text, value, s)
      PROVE  OccursAt(text', value, s)
  <2>1. s + Len(value) <= Len(text)
    BY <1>3 DEF OccursAt
  <2>2. ASSUME NEW more \in Seq(Alphabet)
        PROVE  OccursAt(text \o more, value, s)
    BY <2>1, <1>2, <1>3, OccursInPrefix
  <2> QED BY <2>2, <1>1, <1>3
<1>4. ASSUME NEW p \in Masked
      PROVE  /\ \E r \in {q \in Rules : q.action = "MASK"} :
                  \E k \in DOMAIN r.values, s \in 0..p :
                    OccursAt(text', r.values[k], s) /\ p < s + Len(r.values[k])
             /\ \E f \in MaskSegments(reports) : p \in SpanOf(f)
  <2>1. PICK r \in {q \in Rules : q.action = "MASK"} :
          \E k \in DOMAIN r.values, s \in 0..p :
            OccursAt(text, r.values[k], s) /\ p < s + Len(r.values[k])
    BY <1>4 DEF OnlyMatchesMasked
  <2>2. PICK k \in DOMAIN r.values, s \in 0..p :
          OccursAt(text, r.values[k], s) /\ p < s + Len(r.values[k])
    BY <2>1
  <2>3. r.values[k] \in Values /\ s \in Nat
    BY ValueOfRule
  <2>4. OccursAt(text', r.values[k], s)
    BY <2>2, <2>3, <1>3
  <2>5. \E f \in MaskSegments(reports) : p \in SpanOf(f)
    BY <1>4 DEF OnlyMatchesMasked
  <2> QED BY <2>2, <2>4, <2>5
<1>5. ASSUME NEW p \in Masked'
      PROVE  /\ \E r \in {q \in Rules : q.action = "MASK"} :
                  \E k \in DOMAIN r.values, s \in 0..p :
                    OccursAt(text', r.values[k], s) /\ p < s + Len(r.values[k])
             /\ \E f \in MaskSegments(reports') : p \in SpanOf(f)
  BY <1>1, <1>4
<1> QED BY <1>5 DEF OnlyMatchesMasked

\* Nothing is masked that is not part of an occurrence of a MASK rule's value
\* in the text as it was sent, and what is masked is reported (_apply_masks,
\* _finalize_local_findings, _release): for any rules, sizes and chunks, cut
\* off at the cap or not.
THEOREM OnlyMatches == StreamSpec => []OnlyMatchesMasked
<1>1. StreamInit => OnlyMatchesMasked
  BY StreamInitInv DEF OnlyMatchesMasked
<1>2. StreamInv /\ OnlyMatchesMasked /\ [StreamNext]_streamVars => OnlyMatchesMasked'
  <2> SUFFICES ASSUME StreamInv, OnlyMatchesMasked, [StreamNext]_streamVars
               PROVE  OnlyMatchesMasked'
    OBVIOUS
  <2>1. CASE Raises
    BY <2>1, RaisesMaskMatches
  <2>2. CASE \E all, n, force : StepOf(all, n, force)
    BY <2>2, StepMasksMatches
  <2>3. CASE UNCHANGED streamVars
    <3>1. Masked' = Masked /\ text' = text /\ reports' = reports
      BY <2>3, StutterKeeps DEF streamVars
    <3> QED BY <3>1 DEF OnlyMatchesMasked
  <2> QED BY <2>1, <2>2, <2>3, StreamSteps
<1> QED BY <1>1, <1>2, StreamInvariant, PTL DEF StreamSpec

-----------------------------------------------------------------------------
(* The session implements TextSession.                                      *)

LEMMA StepKeepsPromise ==
  ASSUME StreamInv, NEW all, NEW n, NEW force, StepOf(all, n, force)
  PROVE  Promised!Next
<1> DEFINE final == Finalized(Now(all), n, force)
           new == offset..(offset + n - 1)
           M == {offset + i : i \in MaskedPositions(n, final)}
<1>1. StreamInv'
  BY StepKeeps
<1>2. /\ all \in Seq(Alphabet) /\ text' = all /\ Len(text) <= Len(all)
      /\ Masked' = Masked \cup M /\ Delivered' = Delivered \cup new
      /\ n \in 0..(Len(all) - offset) /\ raised' = raised /\ offset' = offset + n
  BY DEF StepOf, Screened, Released, Now
<1>3. /\ text \in Seq(Alphabet) /\ Len(text) \in Nat /\ Len(all) \in Nat
      /\ offset \in 0..Len(text) /\ offset \in Nat
  BY <1>2, LenProperties DEF StreamInv, StreamTypes
<1>4. M \subseteq new
  BY ScreenedMasks DEF StreamInv, StepOf
<1> HIDE DEF M
<1>5. /\ Delivered \subseteq Delivered' /\ Delivered' \subseteq 0..(Len(text') - 1)
      /\ Masked \subseteq Masked' /\ Masked' \subseteq Delivered' /\ Masked \subseteq Delivered
  BY <1>1, <1>2 DEF StreamInv
<1>6. ASSUME ~raised'
      PROVE  /\ ~raised
             /\ \E m \in 0..Len(text') : Delivered' = 0..(m - 1)
             /\ Masked' \cap Delivered = Masked
  <2>1. ~raised /\ Delivered = 0..(offset - 1)
    BY <1>2, <1>6 DEF StreamInv
  <2>2. Delivered' = 0..(offset' - 1) /\ offset' \in 0..Len(text')
    BY <1>1, <1>6 DEF StreamInv, StreamTypes
  <2>3. new \cap 0..(offset - 1) = {}
    BY <1>3
  <2>4. Masked' \cap Delivered = Masked
    BY <2>1, <2>3, <1>2, <1>4, <1>5
  <2> QED BY <2>1, <2>2, <2>4
<1>7. Promised!HandOut
  BY <1>5, <1>6 DEF Promised!HandOut, Promised!Beginning
<1>8. CASE flushed' = FALSE /\ \E more \in Seq(Alphabet) : all = text \o more /\ Len(more) > 0
  <2>1. PICK more \in Seq(Alphabet) : all = text \o more /\ Len(more) > 0
    BY <1>8
  <2>2. Len(all) = Len(text) + Len(more) /\ Len(more) \in Nat
    BY <2>1, <1>3, ConcatProperties, LenProperties
  <2>3. Len(text') > Len(text)
    BY <2>1, <2>2, <1>2, <1>3
  <2>4. ~flushed /\ flushed' = FALSE
    BY <1>8 DEF StepOf
  <2>5. Promised!Process
    BY <2>3, <2>4, <1>7 DEF Promised!Process
  <2> QED BY <2>5 DEF Promised!Next
<1>9. CASE flushed' = TRUE /\ n = Left(all) /\ all = text
  <2>1. Delivered' = 0..(Len(text) - 1)
    <3>1. new = offset..(Len(text) - 1)
      <4>1. n = Len(text) - offset
        BY <1>9 DEF Left
      <4>2. offset + n - 1 = Len(text) - 1
        BY ONLY <4>1, <1>3
      <4> QED BY <4>2
    <3> HIDE DEF new
    <3>2. 0..(offset - 1) \cup offset..(Len(text) - 1) = 0..(Len(text) - 1)
      BY <1>3
    <3>3. 0..(offset - 1) \subseteq Delivered
      BY DEF StreamInv
    <3> QED BY <3>1, <3>2, <3>3, <1>2, <1>5, <1>9
  <2>2. ~flushed /\ Len(text') = Len(text)
    BY <1>2, <1>9 DEF StepOf
  <2>3. Promised!Flush
    BY <2>1, <2>2, <1>7, <1>9 DEF Promised!Flush, Promised!Beginning
  <2> QED BY <2>3 DEF Promised!Next
<1> QED BY <1>8, <1>9 DEF StepOf

LEMMA RaisesKeepPromise ==
  ASSUME StreamInv, Raises
  PROVE  Promised!Next
<1>1. /\ StreamInv' /\ raised' /\ Delivered \subseteq Delivered' /\ Masked' = Masked
      /\ \/ \E more \in Seq(Alphabet) : /\ Len(more) > 0 /\ text' = text \o more
                                        /\ ~flushed /\ ~flushed'
         \/ text' = text /\ ~flushed /\ flushed' /\ Delivered' = 0..(Len(text) - 1)
  BY RaisesKeep DEF Raises
<1>2. text \in Seq(Alphabet) /\ Len(text) \in Nat /\ flushed' \in BOOLEAN
  BY <1>1, LenProperties DEF StreamInv, StreamTypes
<1>3. Promised!HandOut
  <2>1. Delivered' \subseteq 0..(Len(text') - 1) /\ Masked' \subseteq Delivered'
    BY <1>1 DEF StreamInv
  <2> QED BY <2>1, <1>1 DEF Promised!HandOut, Promised!Beginning
<1>4. ASSUME NEW more \in Seq(Alphabet), Len(more) > 0, text' = text \o more, ~flushed, ~flushed'
      PROVE  Promised!Process
  <2>1. Len(text') = Len(text) + Len(more) /\ Len(more) \in Nat
    BY <1>2, <1>4, ConcatProperties, LenProperties
  <2>2. Len(text') > Len(text)
    BY <2>1, <1>2, <1>4
  <2>3. flushed' = FALSE
    BY <1>2, <1>4
  <2> QED BY <2>2, <2>3, <1>3, <1>4 DEF Promised!Process
<1>5. ASSUME text' = text, ~flushed, flushed', Delivered' = 0..(Len(text) - 1)
      PROVE  Promised!Flush
  <2>1. flushed' = TRUE
    BY <1>2, <1>5
  <2> QED BY <2>1, <1>3, <1>5 DEF Promised!Flush, Promised!Beginning
<1> QED BY <1>1, <1>4, <1>5 DEF Promised!Next

\* The streaming session implements TextSession, step by step, and holds back
\* no more than the cap (process_chunk, flush): what ProviderStreams and
\* ProviderCalls assume of it.
THEOREM PromiseKept == StreamSpec => KeepsPromise
<1>1. StreamInit => Promised!Init
  <2> SUFFICES ASSUME StreamInit PROVE Promised!Init
    OBVIOUS
  <2>1. Delivered = {} /\ Masked = {} /\ Len(text) = 0
    BY StreamInitInv
  <2>2. raised = FALSE /\ flushed = FALSE
    BY DEF StreamInit
  <2> QED BY <2>1, <2>2 DEF Promised!Init
<1>2. StreamInv /\ [StreamNext]_streamVars => [Promised!Next]_(Promised!session)
  <2> SUFFICES ASSUME StreamInv, [StreamNext]_streamVars
               PROVE  [Promised!Next]_(Promised!session)
    OBVIOUS
  <2>1. CASE Raises
    BY <2>1, RaisesKeepPromise
  <2>2. CASE \E all, n, force : StepOf(all, n, force)
    BY <2>2, StepKeepsPromise
  <2>3. CASE UNCHANGED streamVars
    <3>1. Masked' = Masked /\ Delivered' = Delivered
          /\ text' = text /\ raised' = raised /\ flushed' = flushed
      BY <2>3, StutterKeeps DEF streamVars
    <3> QED BY <3>1 DEF Promised!session
  <2> QED BY <2>1, <2>2, <2>3, StreamSteps
<1>3. StreamInv => (~raised => Len(Pending(text)) <= cap)
  <2> SUFFICES ASSUME StreamInv, ~raised PROVE Len(Pending(text)) <= cap
    OBVIOUS
  <2>1. text \in Seq(Alphabet) /\ offset \in 0..Len(text)
    BY DEF StreamInv, StreamTypes
  <2>2. Len(Pending(text)) = Len(text) - offset
    BY <2>1, FromFacts DEF Pending, From
  <2> QED BY <2>2 DEF StreamInv
<1> QED BY <1>1, <1>2, <1>3, StreamInvariant, PTL DEF StreamSpec, Promised!Spec, KeepsPromise

-----------------------------------------------------------------------------
(* Isolated matches.                                                        *)

LEMMA OccurrencesGrow ==
  ASSUME NEW all \in Seq(Alphabet), NEW more \in Seq(Alphabet)
  PROVE  Occurrences(all) \subseteq Occurrences(all \o more)
<1> SUFFICES ASSUME NEW f \in Occurrences(all)
             PROVE  f \in Occurrences(all \o more)
  OBVIOUS
<1> DEFINE v == f.rule.values[f.value]
<1>1. OccursAs(all, f)
  BY OccurrenceFacts
<1>2. /\ f.rule \in Rules /\ f.value \in DOMAIN f.rule.values /\ v \in Values
      /\ f.start \in Nat /\ f.end = f.start + Len(v) /\ f.end <= Len(all)
      /\ OccursAt(all, v, f.start) /\ f = FindingAt(f.rule, f.value, f.start)
  BY <1>1 DEF OccursAs
<1>3. OccursAt(all \o more, v, f.start)
  <2> HIDE DEF v
  <2>1. f.start + Len(v) <= Len(all)
    BY <1>2
  <2> QED BY <2>1, <1>2, OccursInPrefix
<1>4. all \o more \in Seq(Alphabet)
  BY ConcatProperties
<1> QED BY <1>2, <1>3, <1>4, OccurrenceIs

\* Where the offset is, as long as the stream goes on.
OffsetPlaced(places) ==
  flushed \/ offset = 0 \/ offset <= Len(text) - holdback \/ \E g \in places : g.start = offset

\* An isolated match is on one side of the offset; on the left it is masked.
IsolatedInv ==
  Regular =>
    /\ OffsetPlaced(Occurrences(text))
    /\ \A f \in MaskSegments(Evaluate(text)) :
         Isolated(f, text) =>
           (f.end <= offset /\ SpanOf(f) \subseteq Masked) \/ offset <= f.start

\* What a step of a regular session is made of.
RegularStep(all, n) ==
  /\ Regular /\ Regular'
  /\ all \in Seq(Alphabet) /\ text' = all /\ Len(all) \in Nat
  /\ offset \in Nat /\ offset <= Len(text) /\ Len(text) \in Nat /\ Len(text) <= Len(all)
  /\ offset \in 0..Len(all)
  /\ \E more \in Seq(Alphabet) : all = text \o more
  /\ n \in Nat /\ offset' = offset + n /\ holdback' = holdback /\ holdback \in Nat
  /\ Left(all) \in Nat /\ Left(all) = Len(all) - offset /\ Spans(Left(all), Now(all))
  /\ n <= Left(all)
  /\ Masked' = Masked
       \cup {offset + i : i \in MaskedPositions(n, {f \in Now(all) : f.end <= n})}
  /\ reports' = reports \cup {Moved(f, offset) : f \in {g \in Now(all) : g.end <= n}}
  /\ ~flushed
  /\ flushed' = FALSE =>
       \/ n = 0 \/ n <= Left(all) - holdback
       \/ \E g \in Now(all) : g.start = n
  /\ flushed' \in BOOLEAN

LEMMA RegularSteps ==
  ASSUME StreamInv, NEW all, NEW n, NEW force, StepOf(all, n, force), Regular'
  PROVE  /\ RegularStep(all, n)
         /\ \A f \in Now(all) : (\A g \in Now(all) : ~Overlap(f, g)) =>
              f.end <= n \/ n <= f.start
<1> DEFINE F == Now(all) final == Finalized(F, n, force) low == {f \in F : f.end <= n}
<1>1. /\ all \in Seq(Alphabet) /\ text' = all /\ Len(text) <= Len(all)
      /\ n \in 0..(Len(all) - offset)
      /\ Masked' = Masked \cup {offset + i : i \in MaskedPositions(n, final)}
      /\ reports' = reports \cup {Absolute(f) : f \in final}
      /\ forced' = (forced \/ final # Finalized(F, n, FALSE))
      /\ offset' = offset + n
      /\ holdback' = holdback /\ cap' = cap /\ raised' = raised
  BY DEF StepOf, Screened, Released, Now
<1>2. /\ text \in Seq(Alphabet) /\ Len(text) \in Nat /\ Len(all) \in Nat
      /\ offset \in 0..Len(text) /\ offset \in Nat
      /\ holdback \in Nat /\ cap \in Nat /\ cap >= holdback
      /\ forced \in BOOLEAN
  BY <1>1, LenProperties DEF StreamInv, StreamTypes
<1>3. /\ Left(all) \in Nat /\ Left(all) = Len(all) - offset /\ Spans(Left(all), F)
      /\ ~flushed /\ flushed' \in BOOLEAN
      /\ flushed' = FALSE =>
           n = Boundary(Left(all), F) /\ force = Forcing(Left(all), F)
      /\ flushed' = TRUE => n = Left(all)
  BY DEF StepOf, Left
<1>4. offset <= Len(text) /\ offset \in 0..Len(all) /\ n \in Nat /\ n <= Left(all)
  <2>1. Left(all) = Len(all) - offset
    BY <1>3
  <2> QED BY ONLY <2>1, <1>1, <1>2
<1>5. \E more \in Seq(Alphabet) : all = text \o more
  <2> DEFINE none == <<>>
  <2>1. text = text \o none /\ none \in Seq(Alphabet)
    BY <1>2, ConcatEmptySeq, EmptySeq
  <2> HIDE DEF none
  <2>2. CASE all = text
    BY <2>1, <2>2
  <2>3. CASE \E more \in Seq(Alphabet) : all = text \o more /\ Len(more) > 0
    BY <2>3
  <2> QED BY <2>2, <2>3 DEF StepOf
<1>6. ~raised' /\ ~forced' /\ HoldbackFits'
  BY DEF Regular
<1>7. final = Finalized(F, n, FALSE)
  BY <1>1, <1>6
<1>8. Regular
  <2>1. HoldbackFits
    BY <1>1, <1>6 DEF HoldbackFits
  <2> QED BY <2>1, <1>1, <1>6 DEF Regular
<1>9. final = low
  BY <1>7 DEF Finalized
<1>10. \A f \in F : Absolute(f) = Moved(f, offset)
  <2> SUFFICES ASSUME NEW f \in F PROVE Absolute(f) = Moved(f, offset)
    OBVIOUS
  <2>1. From(all, offset) \in Seq(Alphabet)
    BY <1>1, <1>4, FromFacts
  <2>2. Found(From(all, offset), f)
    BY <2>1, FoundOfText DEF Now
  <2>3. /\ f.start \in Nat /\ f.end \in Nat /\ f = FindingAt(f.rule, f.value, f.start)
        /\ Len(f.rule.values[f.value]) \in Nat
    BY <2>2, ValueLength DEF Found
  <2> QED BY <2>3, <1>2, AbsoluteOfFinding
<1>11. /\ Masked' = Masked \cup {offset + i : i \in MaskedPositions(n, low)}
       /\ reports' = reports \cup {Moved(f, offset) : f \in low}
  BY <1>1, <1>9, <1>10
<1>12. flushed' = FALSE =>
         n = 0 \/ n <= Left(all) - holdback \/ \E g \in F : g.start = n
  BY <1>2, <1>3, ReleasedFacts
<1> HIDE DEF F, final, low
<1>13. ASSUME NEW f \in F, \A g \in F : ~Overlap(f, g)
       PROVE  f.end <= n \/ n <= f.start
  <2>1. CASE flushed' = FALSE
    <3>1. f = FindingAt(f.rule, f.value, f.start)
      BY <1>1, <1>4, FromFacts, FoundOfText DEF F, Now, Found
    <3>2. n = Boundary(Left(all), F) /\ force = Forcing(Left(all), F)
      BY <2>1, <1>3
    <3>3. Finalized(F, Boundary(Left(all), F), Forcing(Left(all), F))
            = Finalized(F, Boundary(Left(all), F), FALSE)
      BY <3>2, <1>7 DEF final
    <3> QED BY <3>1, <3>2, <3>3, <1>2, <1>3, <1>13, NotCut
  <2>2. CASE flushed' = TRUE
    BY <2>2, <1>3 DEF Spans
  <2> QED BY <2>1, <2>2, <1>3
<1>14. RegularStep(all, n)
  BY <1>1, <1>2, <1>3, <1>4, <1>5, <1>8, <1>11, <1>12 DEF RegularStep, F, low
<1> QED BY <1>13, <1>14 DEF F

\* A finding that goes on behind what was received begins in the holdback.
LEMMA LateFinding ==
  ASSUME HoldbackFits, holdback \in Nat, NEW n \in Nat,
         NEW f, f.rule \in Rules, f.value \in DOMAIN f.rule.values,
         f.start \in Nat, f.end = f.start + Len(f.rule.values[f.value]), n < f.end
  PROVE  n - holdback <= f.start
<1> DEFINE l == Len(f.rule.values[f.value])
<1>1. l \in Nat
  BY ValueOfRule, ValueLength
<1>2. holdback >= l - 1
  BY DEF HoldbackFits
<1>3. f.end = f.start + l
  OBVIOUS
<1> HIDE DEF l
<1> QED BY ONLY <1>1, <1>2, <1>3, holdback \in Nat, n \in Nat, f.start \in Nat, n < f.end

\* The place where the offset stands lets no match pass that overlaps nothing.
LEMMA PlacedKept ==
  ASSUME NEW all, NEW n, RegularStep(all, n), NEW before, NEW after,
         OffsetPlaced(before), before \subseteq after,
         \A g \in Now(all) : \E h \in after : h.start = g.start + offset,
         \A g \in Now(all) : g.start \in Nat
  PROVE  flushed' \/ offset' = 0 \/ offset' <= Len(all) - holdback
         \/ \E g \in after : g.start = offset'
<1>1. /\ offset \in Nat /\ Len(text) \in Nat /\ Len(all) \in Nat /\ Len(text) <= Len(all)
      /\ n \in Nat /\ offset' = offset + n /\ holdback \in Nat
      /\ Left(all) = Len(all) - offset /\ ~flushed /\ flushed' \in BOOLEAN
      /\ flushed' = FALSE =>
           n = 0 \/ n <= Left(all) - holdback \/ \E g \in Now(all) : g.start = n
  BY DEF RegularStep
<1>2. SUFFICES ASSUME flushed' = FALSE
               PROVE  \/ offset' = 0 \/ offset' <= Len(all) - holdback
                      \/ \E g \in after : g.start = offset'
  BY <1>1
<1>3. CASE n = 0
  <2>1. offset' = offset
    BY ONLY <1>1, <1>3
  <2>2. \/ offset = 0 \/ offset <= Len(text) - holdback
        \/ \E g \in before : g.start = offset
    BY <1>1 DEF OffsetPlaced
  <2>3. offset <= Len(text) - holdback => offset <= Len(all) - holdback
    BY ONLY <1>1
  <2> QED BY <2>1, <2>2, <2>3
<1>4. CASE n <= Left(all) - holdback
  <2>1. n <= (Len(all) - offset) - holdback
    BY <1>1, <1>4
  <2>2. offset + n <= Len(all) - holdback
    BY ONLY <2>1, <1>1
  <2> QED BY <2>2, <1>1
<1>5. CASE \E g \in Now(all) : g.start = n
  <2>1. PICK g \in Now(all) : g.start = n
    BY <1>5
  <2>2. PICK h \in after : h.start = g.start + offset
    BY <2>1
  <2>3. h.start = offset'
    BY <2>1, <2>2, <1>1
  <2> QED BY <2>3
<1> QED BY <1>1, <1>2, <1>3, <1>4, <1>5

LEMMA StepKeepsIsolated ==
  ASSUME StreamInv, IsolatedInv, NEW all, NEW n, NEW force, StepOf(all, n, force)
  PROVE  IsolatedInv'
<1> SUFFICES ASSUME Regular' PROVE IsolatedInv'
  BY DEF IsolatedInv
<1> DEFINE u == From(all, offset) F == Now(all) low == {f \in F : f.end <= n}
           W == Occurrences(all)
<1>1. /\ RegularStep(all, n)
      /\ \A f \in F : (\A g \in F : ~Overlap(f, g)) => f.end <= n \/ n <= f.start
  BY RegularSteps
<1>2. /\ Regular /\ HoldbackFits
      /\ all \in Seq(Alphabet) /\ text' = all /\ Len(all) \in Nat
      /\ offset \in Nat /\ offset <= Len(text) /\ Len(text) \in Nat /\ Len(text) <= Len(all)
      /\ offset \in 0..Len(all)
      /\ n \in Nat /\ offset' = offset + n /\ holdback' = holdback /\ holdback \in Nat
      /\ Left(all) \in Nat /\ Left(all) = Len(all) - offset /\ Spans(Left(all), F)
      /\ Masked' = Masked \cup {offset + i : i \in MaskedPositions(n, low)}
      /\ ~flushed /\ n <= Left(all)
  BY <1>1 DEF RegularStep, Regular
<1>3. text \in Seq(Alphabet)
  BY DEF StreamInv, StreamTypes
<1>4. PICK more \in Seq(Alphabet) : all = text \o more
  BY <1>1 DEF RegularStep
<1>5. Occurrences(text) \subseteq W
  BY <1>3, <1>4, OccurrencesGrow
<1>6. u \in Seq(Alphabet)
  BY <1>2, FromFacts
<1>7. \A f \in F : f \in Occurrences(u) /\ f.start \in Nat /\ f.end \in Nat
  BY <1>6, FoundOfText DEF Found, Now
<1> HIDE DEF u, F, low, W
<1>8. OffsetPlaced(Occurrences(text))
  BY <1>2 DEF IsolatedInv
<1>9. OffsetPlaced(Occurrences(text))'
  <2>1. \A g \in F : Moved(g, offset) \in W /\ Moved(g, offset).start = g.start + offset
    BY <1>2, <1>7, OccurrenceInText DEF W, u
  <2>2. flushed' \/ offset' = 0 \/ offset' <= Len(all) - holdback
         \/ \E g \in W : g.start = offset'
    BY <2>1, <1>1, <1>5, <1>7, <1>8, PlacedKept DEF F
  <2> QED BY <2>2, <1>2 DEF OffsetPlaced, W
<1>10. ASSUME NEW f \in MaskSegments(Evaluate(all)), Isolated(f, all)
       PROVE  (f.end <= offset' /\ SpanOf(f) \subseteq Masked') \/ offset' <= f.start
  <2>1. f \in Evaluate(all) /\ f.rule.action = "MASK"
    BY DEF MaskSegments
  <2>2. Found(all, f) /\ f \in EvaluateRule(f.rule, all)
    BY <2>1, <1>2, FoundOfText
  <2>3. /\ f.rule \in Rules /\ f.value \in DOMAIN f.rule.values
        /\ f.start \in Nat /\ f.end \in Nat /\ f.start < f.end /\ f.end <= Len(all)
        /\ f.end = f.start + Len(f.rule.values[f.value]) /\ f \in Occurrences(all)
    BY <2>2 DEF Found
  \* Where it was before the step.
  <2>4. (f.end <= offset /\ SpanOf(f) \subseteq Masked) \/ offset <= f.start
    <3>1. CASE f.end <= Len(text)
      <4>1. f \in EvaluateRule(f.rule, text)
        BY <3>1, <2>2, <2>3, <1>3, <1>4, CapOfPrefix
      <4>2. f \in MaskSegments(Evaluate(text))
        BY <4>1, <2>1, <2>3 DEF Evaluate, MaskSegments
      <4>3. Isolated(f, text)
        BY <1>5, <1>10 DEF Isolated, W
      <4> QED BY <4>2, <4>3, <1>2 DEF IsolatedInv
    <3>2. CASE Len(text) < f.end
      <4>1. Len(text) - holdback <= f.start
        BY <3>2, <2>3, <1>2, LateFinding
      <4>2. \/ offset = 0 \/ offset <= Len(text) - holdback
            \/ \E g \in Occurrences(text) : g.start = offset
        BY <1>2, <1>8 DEF OffsetPlaced
      <4>3. CASE offset = 0 \/ offset <= Len(text) - holdback
        BY ONLY <4>1, <4>3, <2>3, <1>2
      <4>4. CASE \E g \in Occurrences(text) : g.start = offset
        <5>1. PICK g \in Occurrences(text) : g.start = offset
          BY <4>4
        <5>2. OccursAs(text, g)
          BY <1>3, OccurrenceFacts
        <5>3. g.end \in Nat /\ offset < g.end
          BY <5>1, <5>2 DEF OccursAs
        <5>4. SUFFICES ASSUME f.start < offset PROVE FALSE
          BY <2>3, <1>2
        <5>5. offset \in f.start..(f.end - 1) /\ offset \in g.start..(g.end - 1)
          BY ONLY <5>1, <5>3, <5>4, <3>2, <2>3, <1>2
        <5>6. f # g
          BY <5>1, <5>4, <2>3, <1>2
        <5>7. Overlap(f, g)
          BY <5>5, <5>6 DEF Overlap, SpanOf
        <5> QED BY <5>1, <5>7, <1>5, <1>10 DEF Isolated, W
      <4> QED BY <4>2, <4>3, <4>4
    <3> QED BY <3>1, <3>2, <2>3, <1>2
  <2>5. CASE f.end <= offset /\ SpanOf(f) \subseteq Masked
    <3>1. f.end <= offset'
      BY ONLY <2>3, <2>5, <1>2
    <3>2. SpanOf(f) \subseteq Masked'
      BY <2>5, <1>2
    <3> QED BY <3>1, <3>2
  <2>6. CASE offset <= f.start
    <3> DEFINE m == Moved(f, -offset)
    <3>1. /\ m \in F /\ m.start = f.start - offset /\ m.end = f.end - offset
          /\ m.rule = f.rule /\ Isolated(m, u)
      BY <2>1, <2>6, <1>2, <1>10, IsolatedInSuffix DEF F, Now, u
    <3> HIDE DEF m
    <3>2. \A g \in F : ~Overlap(m, g)
      BY <3>1, <1>7 DEF Isolated
    <3>3. m.end <= n \/ n <= m.start
      BY <3>1, <3>2, <1>1
    <3>4. CASE m.end <= n
      <4>1. m \in MaskSegments(low) /\ \A g \in low : ~Overlap(m, g)
        BY <3>1, <3>2, <3>4, <2>1 DEF MaskSegments, low
      <4>2. Spans(n, low)
        BY <1>2 DEF Spans, low
      <4>3. SpanOf(m) \subseteq MaskedPositions(n, low)
        BY <4>1, <4>2, <1>2, MaskedWhole
      <4>4. ASSUME NEW p \in SpanOf(f)
            PROVE  p \in Masked'
        <5>1. p \in f.start..(f.end - 1)
          BY <4>4 DEF SpanOf
        <5>2. p - offset \in m.start..(m.end - 1) /\ p = offset + (p - offset)
          BY ONLY <5>1, <3>1, <2>3, <1>2
        <5>3. p - offset \in MaskedPositions(n, low)
          BY <5>2, <4>3 DEF SpanOf
        <5> QED BY <5>2, <5>3, <1>2
      <4>5. f.end <= offset'
        BY ONLY <3>1, <3>4, <2>3, <1>2
      <4> QED BY <4>4, <4>5
    <3>5. CASE n <= m.start
      <4>1. offset' <= f.start
        BY ONLY <3>1, <3>5, <2>3, <1>2
      <4> QED BY <4>1
    <3> QED BY <3>3, <3>4, <3>5
  <2> QED BY <2>4, <2>5, <2>6
<1>11. \A f \in MaskSegments(Evaluate(text')) :
         Isolated(f, text') =>
           (f.end <= offset' /\ SpanOf(f) \subseteq Masked') \/ offset' <= f.start
  BY <1>2, <1>10
<1> QED BY <1>9, <1>11 DEF IsolatedInv, Isolated

LEMMA StutterKeepsAll ==
  ASSUME UNCHANGED streamVars
  PROVE  /\ text' = text /\ offset' = offset /\ reports' = reports
         /\ holdback' = holdback /\ flushed' = flushed
         /\ Masked' = Masked /\ Delivered' = Delivered /\ (Regular' <=> Regular)
<1>1. /\ holdback' = holdback /\ cap' = cap /\ text' = text /\ offset' = offset
      /\ reports' = reports /\ forced' = forced
      /\ raised' = raised /\ flushed' = flushed
  BY DEF streamVars
<1> QED BY <1>1, StutterKeeps DEF Regular, HoldbackFits

LEMMA RaisedNotRegular ==
  ASSUME StreamInv, Raises
  PROVE  ~Regular'
BY RaisesKeep DEF Raises, Regular

\* A match that no other occurrence of a value overlaps is masked as a whole,
\* wherever the chunks end (_resolve_release_boundary, _release): for any
\* rules, texts, chunks and caps, and any holdback that fits the rules.
THEOREM IsolatedMasked == StreamSpec => []IsolatedMatchesMasked
<1>1. StreamInit => IsolatedInv
  <2> SUFFICES ASSUME StreamInit PROVE IsolatedInv
    OBVIOUS
  <2>1. offset = 0 /\ text \in Seq(Alphabet)
    BY StreamInitInv DEF StreamInit, StreamInv, StreamTypes
  <2>2. \A f \in MaskSegments(Evaluate(text)) : f.start \in Nat
    BY <2>1, FoundOfText DEF Found, MaskSegments
  <2>3. \A f \in MaskSegments(Evaluate(text)) : offset <= f.start
    BY <2>1, <2>2
  <2> QED BY <2>1, <2>3 DEF IsolatedInv, OffsetPlaced
<1>2. StreamInv /\ IsolatedInv /\ [StreamNext]_streamVars => IsolatedInv'
  <2> SUFFICES ASSUME StreamInv, IsolatedInv, [StreamNext]_streamVars
               PROVE  IsolatedInv'
    OBVIOUS
  <2>1. CASE Raises
    BY <2>1, RaisedNotRegular DEF IsolatedInv
  <2>2. CASE \E all, n, force : StepOf(all, n, force)
    BY <2>2, StepKeepsIsolated
  <2>3. CASE UNCHANGED streamVars
    BY <2>3, StutterKeepsAll DEF IsolatedInv, OffsetPlaced
  <2> QED BY <2>1, <2>2, <2>3, StreamSteps
<1>3. StreamInv /\ IsolatedInv => IsolatedMatchesMasked
  <2> SUFFICES ASSUME StreamInv, IsolatedInv, Regular,
                      NEW f \in MaskSegments(Evaluate(text)),
                      \A g \in Occurrences(text) : ~Overlap(f, g)
               PROVE  SpanOf(f) \cap Delivered \subseteq Masked
    BY DEF IsolatedMatchesMasked
  <2>1. (f.end <= offset /\ SpanOf(f) \subseteq Masked) \/ offset <= f.start
    BY DEF IsolatedInv, Isolated
  <2>2. CASE offset <= f.start
    <3>1. Delivered = 0..(offset - 1) /\ offset \in Nat /\ text \in Seq(Alphabet)
      BY DEF StreamInv, StreamTypes, Regular
    <3>2. f.start \in Nat /\ f.end \in Nat
      BY <3>1, FoundOfText DEF Found, MaskSegments
    <3>3. f.start..(f.end - 1) \cap 0..(offset - 1) = {}
      BY <3>1, <3>2, <2>2
    <3> QED BY <3>1, <3>3 DEF SpanOf
  <2> QED BY <2>1, <2>2
<1> QED BY <1>1, <1>2, <1>3, StreamInvariant, PTL DEF StreamSpec

-----------------------------------------------------------------------------
(* Plain texts: chunks make no difference.                                  *)

MaskedBy(findings, o) ==
  UNION {SpanOf(f) : f \in {g \in MaskSegments(findings) : g.end <= o}}

\* As long as the text is plain, what was released is what one evaluation of
\* the text finds before the offset.
AgreesInv ==
  Regular /\ Plain(text) =>
    /\ OffsetPlaced(Evaluate(text))
    /\ \A f \in Evaluate(text) : f.end <= offset \/ offset <= f.start
    /\ reports = {f \in Evaluate(text) : f.end <= offset}
    /\ Masked = MaskedBy(Evaluate(text), offset)

LEMMA StepKeepsAgreement ==
  ASSUME StreamInv, AgreesInv, NEW all, NEW n, NEW force, StepOf(all, n, force)
  PROVE  AgreesInv'
<1> SUFFICES ASSUME Regular', Plain(all) PROVE AgreesInv'
  BY DEF AgreesInv, StepOf, Screened
<1> DEFINE u == From(all, offset) F == Now(all) low == {f \in F : f.end <= n}
           E == Evaluate(all)
<1>1. /\ RegularStep(all, n)
      /\ \A f \in F : (\A g \in F : ~Overlap(f, g)) => f.end <= n \/ n <= f.start
  BY RegularSteps
<1>2. /\ Regular /\ HoldbackFits
      /\ all \in Seq(Alphabet) /\ text' = all /\ Len(all) \in Nat
      /\ offset \in Nat /\ offset <= Len(text) /\ Len(text) \in Nat /\ Len(text) <= Len(all)
      /\ offset \in 0..Len(all)
      /\ n \in Nat /\ offset' = offset + n /\ holdback' = holdback /\ holdback \in Nat
      /\ Left(all) \in Nat /\ Left(all) = Len(all) - offset /\ Spans(Left(all), F)
      /\ Masked' = Masked \cup {offset + i : i \in MaskedPositions(n, low)}
      /\ reports' = reports \cup {Moved(f, offset) : f \in low}
      /\ ~flushed /\ n <= Left(all)
  BY <1>1 DEF RegularStep, Regular
<1>3. text \in Seq(Alphabet)
  BY DEF StreamInv, StreamTypes
<1>4. PICK more \in Seq(Alphabet) : all = text \o more
  BY <1>1 DEF RegularStep
<1>5. Plain(text) /\ Evaluate(text) = {f \in E : f.end <= Len(text)}
  BY <1>3, <1>4, PlainPrefix
<1>6. \A f \in E : /\ Found(all, f) /\ f.start \in Nat /\ f.end \in Nat /\ f.start < f.end
                   /\ \A g \in E : ~Overlap(f, g)
  BY <1>2, FoundOfText DEF Found, Plain
<1> HIDE DEF u, F, low, E
<1>7. /\ OffsetPlaced(Evaluate(text))
      /\ \A f \in Evaluate(text) : f.end <= offset \/ offset <= f.start
      /\ reports = {f \in Evaluate(text) : f.end <= offset}
      /\ Masked = MaskedBy(Evaluate(text), offset)
  BY <1>2, <1>5 DEF AgreesInv
\* No finding goes across the offset.
<1>8. ASSUME NEW f \in E
      PROVE  f.end <= offset \/ offset <= f.start
  <2>1. CASE f.end <= Len(text)
    BY <2>1, <1>5, <1>7
  <2>2. CASE Len(text) < f.end
    <3>1. /\ f.rule \in Rules /\ f.value \in DOMAIN f.rule.values
          /\ f.end = f.start + Len(f.rule.values[f.value])
      BY <1>6 DEF Found
    <3>2. Len(text) - holdback <= f.start
      BY <2>2, <3>1, <1>2, <1>6, LateFinding
    <3>3. \/ offset = 0 \/ offset <= Len(text) - holdback
          \/ \E g \in Evaluate(text) : g.start = offset
      BY <1>2, <1>7 DEF OffsetPlaced
    <3>4. f.start \in Nat /\ f.end \in Nat
      BY <1>6
    <3>5. CASE offset = 0 \/ offset <= Len(text) - holdback
      BY ONLY <3>2, <3>4, <3>5, <1>2
    <3>6. CASE \E g \in Evaluate(text) : g.start = offset
      <4>1. PICK g \in E : g.start = offset
        BY <3>6, <1>5
      <4>2. g.end \in Nat /\ offset < g.end
        BY <4>1, <1>6
      <4>3. SUFFICES ASSUME f.start < offset PROVE FALSE
        BY <3>4, <1>2
      <4>4. offset \in f.start..(f.end - 1) /\ offset \in g.start..(g.end - 1)
        BY ONLY <4>1, <4>2, <4>3, <2>2, <3>4, <1>2
      <4>5. f # g
        BY <4>1, <4>3, <3>4, <1>2
      <4>6. Overlap(f, g)
        BY <4>4, <4>5 DEF Overlap, SpanOf
      <4> QED BY <4>1, <4>6, <1>6
    <3> QED BY <3>3, <3>5, <3>6
  <2> QED BY <2>1, <2>2, <1>6, <1>2
\* The findings of the pending text are those behind the offset.
<1>9. /\ \A f \in E : offset <= f.start =>
           /\ Moved(f, -offset) \in F
           /\ Moved(f, -offset).start = f.start - offset
           /\ Moved(f, -offset).end = f.end - offset
           /\ Moved(f, -offset).rule = f.rule
      /\ \A m \in F :
           /\ Moved(m, offset) \in E
           /\ Moved(m, offset).start = m.start + offset
           /\ Moved(m, offset).end = m.end + offset
           /\ Moved(m, offset).rule = m.rule
  BY <1>2, <1>8, PlainSuffix DEF E, F, Now
<1>10. \A m \in F : /\ m.start \in Nat /\ m.end \in Nat /\ m.start < m.end
                    /\ m = FindingAt(m.rule, m.value, m.start)
  <2>1. u \in Seq(Alphabet)
    BY <1>2, FromFacts DEF u
  <2>2. \A m \in F : Found(u, m)
    BY <2>1, FoundOfText DEF F, Now, u
  <2> QED BY <2>2 DEF Found
<1>11. ASSUME NEW f \in F, NEW g \in F
       PROVE  ~Overlap(f, g)
  <2>1. SUFFICES ASSUME f # g, NEW p \in SpanOf(f) \cap SpanOf(g) PROVE FALSE
    BY DEF Overlap
  <2> DEFINE a == Moved(f, offset) b == Moved(g, offset)
  <2>2. /\ a \in E /\ b \in E
        /\ a.start = f.start + offset /\ a.end = f.end + offset
        /\ b.start = g.start + offset /\ b.end = g.end + offset
    BY <1>9
  <2>3. f.start \in Nat /\ f.end \in Nat /\ g.start \in Nat /\ g.end \in Nat
    BY <1>10
  <2>4. p \in f.start..(f.end - 1) /\ p \in g.start..(g.end - 1)
    BY <2>1 DEF SpanOf
  <2>5. a # b
    <3>1. SUFFICES ASSUME a = b PROVE f = g
      BY <2>1
    <3>2. /\ a.rule = f.rule /\ a.value = f.value /\ b.rule = g.rule /\ b.value = g.value
      BY FindingFields DEF Moved
    <3>3. f.start = g.start
      <4>1. f.start + offset = g.start + offset
        BY <3>1, <2>2
      <4> QED BY ONLY <4>1, <2>3, <1>2
    <3> QED BY <3>1, <3>2, <3>3, <1>10
  <2> HIDE DEF a, b
  <2>6. p + offset \in a.start..(a.end - 1) /\ p + offset \in b.start..(b.end - 1)
    <3>1. offset \in Nat
      BY <1>2
    <3> QED BY ONLY <2>2, <2>3, <2>4, <3>1
  <2>7. Overlap(a, b)
    BY <2>5, <2>6 DEF Overlap, SpanOf
  <2> QED BY <2>2, <2>7, <1>6
<1>12. \A m \in F : m.end <= n \/ n <= m.start
  BY <1>1, <1>11
<1>13. OffsetPlaced(Evaluate(text))'
  <2>1. Evaluate(text) \subseteq E
    BY <1>5
  <2>2. flushed' \/ offset' = 0 \/ offset' <= Len(all) - holdback
         \/ \E g \in E : g.start = offset'
    BY <2>1, <1>1, <1>7, <1>9, <1>10, PlacedKept DEF F
  <2> QED BY <2>2, <1>2 DEF OffsetPlaced, E
\* Each finding of the text was released, is released now, or stays pending.
<1>14. ASSUME NEW f \in E
       PROVE  \/ f.end <= offset /\ f \in Evaluate(text) /\ f.end <= offset'
              \/ /\ f.end <= offset' /\ ~(f.end <= offset)
                 /\ \E m \in low : /\ f = Moved(m, offset) /\ m.rule = f.rule
                                   /\ f.start = m.start + offset /\ f.end = m.end + offset
              \/ offset' <= f.start
  <2>1. f.start \in Nat /\ f.end \in Nat /\ f.start < f.end
    BY <1>6
  <2>2. CASE f.end <= offset
    <3>1. f.end <= Len(text) /\ f.end <= offset'
      BY <2>1, <2>2, <1>2
    <3> QED BY <2>2, <3>1, <1>5
  <2>3. CASE ~(f.end <= offset)
    <3>1. offset <= f.start
      BY <2>3, <1>8
    <3> DEFINE m == Moved(f, -offset)
    <3>2. m \in F /\ m.start = f.start - offset /\ m.end = f.end - offset /\ m.rule = f.rule
      BY <3>1, <1>9
    <3>3. m.value = f.value
      BY FindingFields DEF Moved
    <3> HIDE DEF m
    <3>4. m.start + offset = f.start /\ m.end + offset = f.end /\ m.start \in Nat /\ m.end \in Nat
      BY <3>1, <3>2, <2>1, <1>2
    <3>5. f = Moved(m, offset)
      <4>1. f = FindingAt(f.rule, f.value, f.start)
        BY <1>6 DEF Found
      <4> QED BY <4>1, <3>2, <3>3, <3>4 DEF Moved
    <3>6. CASE m.end <= n
      <4>1. f.end <= offset'
        BY <3>4, <3>6, <1>2
      <4>2. m \in low
        BY <3>2, <3>6 DEF low
      <4> QED BY <4>1, <4>2, <2>3, <3>2, <3>4, <3>5
    <3>7. CASE n <= m.start
      <4>1. offset' <= f.start
        BY <3>4, <3>7, <1>2
      <4> QED BY <4>1
    <3> QED BY <3>2, <3>6, <3>7, <1>12
  <2> QED BY <2>2, <2>3
<1>15. \A f \in E : f.end <= offset' \/ offset' <= f.start
  BY <1>14
<1>16. ASSUME NEW m \in low
       PROVE  /\ Moved(m, offset) \in E /\ Moved(m, offset).end <= offset'
              /\ Moved(m, offset).start = m.start + offset
              /\ Moved(m, offset).end = m.end + offset
              /\ Moved(m, offset).rule = m.rule
  <2>1. m \in F /\ m.end <= n
    BY DEF low
  <2>2. m.end + offset <= offset'
    BY <2>1, <1>2, <1>10
  <2> QED BY <2>1, <2>2, <1>9
<1>17. ASSUME NEW f \in Evaluate(text), f.end <= offset
       PROVE  f \in E /\ f.end <= offset'
  <2>1. f \in E /\ f.end \in Nat
    BY <1>5, <1>6
  <2> QED BY <2>1, <1>2, <1>17
<1>18. ASSUME NEW f \in E, offset' <= f.start
       PROVE  ~(f.end <= offset')
  BY <1>2, <1>6, <1>18
<1>19. reports' = {f \in E : f.end <= offset'}
  <2>1. \A f \in reports' : f \in E /\ f.end <= offset'
    BY <1>2, <1>7, <1>16, <1>17
  <2>2. ASSUME NEW f \in E, f.end <= offset'
        PROVE  f \in reports'
    <3>1. \/ f.end <= offset /\ f \in Evaluate(text)
          \/ \E m \in low : f = Moved(m, offset)
      BY <1>14, <1>18, <2>2
    <3> QED BY <3>1, <1>2, <1>7
  <2> QED BY <2>1, <2>2
<1>20. MaskedPositions(n, low) = UNION {SpanOf(m) : m \in MaskSegments(low)}
  <2>1. Spans(n, low)
    BY <1>2 DEF Spans, low
  <2>2. \A f, g \in low : ~Overlap(f, g)
    BY <1>11 DEF low
  <2> QED BY <2>1, <2>2, <1>2, MaskedExactly
<1>21. ASSUME NEW m \in low, NEW f \in E,
              f.start = m.start + offset /\ f.end = m.end + offset
       PROVE  \A p \in Int : p \in SpanOf(m) <=> offset + p \in SpanOf(f)
  <2>1. m.start \in Nat /\ m.end \in Nat
    BY <1>10 DEF low
  <2>2. offset \in Nat
    BY <1>2
  <2>3. \A p \in Int : p \in m.start..(m.end - 1) <=> offset + p \in f.start..(f.end - 1)
    BY ONLY <2>1, <2>2, <1>21
  <2> QED BY <2>3 DEF SpanOf
<1>22. Masked' = MaskedBy(E, offset')
  <2>1. ASSUME NEW p \in Masked'
        PROVE  p \in MaskedBy(E, offset')
    <3>1. CASE p \in Masked
      <4>1. PICK f \in MaskSegments(Evaluate(text)) : f.end <= offset /\ p \in SpanOf(f)
        BY <3>1, <1>7 DEF MaskedBy
      <4>2. f \in MaskSegments(E) /\ f.end <= offset'
        BY <4>1, <1>17 DEF MaskSegments
      <4> QED BY <4>1, <4>2 DEF MaskedBy
    <3>2. CASE \E i \in MaskedPositions(n, low) : p = offset + i
      <4>1. PICK i \in MaskedPositions(n, low) : p = offset + i
        BY <3>2
      <4>2. PICK m \in MaskSegments(low) : i \in SpanOf(m)
        BY <4>1, <1>20
      <4>3. m \in low /\ m.rule.action = "MASK" /\ i \in Int
        BY <4>2, <1>10 DEF MaskSegments, SpanOf, low
      <4> DEFINE f == Moved(m, offset)
      <4>4. /\ f \in E /\ f.end <= offset' /\ f.rule = m.rule
            /\ f.start = m.start + offset /\ f.end = m.end + offset
        BY <4>3, <1>16
      <4> HIDE DEF f
      <4>5. p \in SpanOf(f)
        BY <4>1, <4>2, <4>3, <4>4, <1>21
      <4>6. f \in MaskSegments(E)
        BY <4>3, <4>4 DEF MaskSegments
      <4> QED BY <4>4, <4>5, <4>6 DEF MaskedBy
    <3> QED BY <3>1, <3>2, <1>2
  <2>2. ASSUME NEW p \in MaskedBy(E, offset')
        PROVE  p \in Masked'
    <3>1. PICK f \in MaskSegments(E) : f.end <= offset' /\ p \in SpanOf(f)
      BY <2>2 DEF MaskedBy
    <3>2. f \in E /\ f.rule.action = "MASK"
      BY <3>1 DEF MaskSegments
    <3>3. \/ f.end <= offset /\ f \in Evaluate(text)
          \/ \E m \in low : /\ m.rule = f.rule
                             /\ f.start = m.start + offset /\ f.end = m.end + offset
      BY <3>1, <3>2, <1>14, <1>18
    <3>4. CASE f.end <= offset /\ f \in Evaluate(text)
      <4>1. f \in MaskSegments(Evaluate(text))
        BY <3>2, <3>4 DEF MaskSegments
      <4>2. p \in Masked
        BY <4>1, <3>1, <3>4, <1>7 DEF MaskedBy
      <4> QED BY <4>2, <1>2
    <3>5. CASE \E m \in low : /\ m.rule = f.rule
                              /\ f.start = m.start + offset /\ f.end = m.end + offset
      <4>1. PICK m \in low : /\ m.rule = f.rule
                             /\ f.start = m.start + offset /\ f.end = m.end + offset
        BY <3>5
      <4>2. p \in Int /\ p - offset \in Int /\ offset + (p - offset) = p
        BY <3>1, <3>2, <1>2, <1>6 DEF SpanOf
      <4>3. p - offset \in SpanOf(m)
        BY <4>1, <4>2, <3>1, <3>2, <1>21
      <4>4. m \in MaskSegments(low)
        BY <4>1, <3>2 DEF MaskSegments
      <4>5. p - offset \in MaskedPositions(n, low)
        BY <4>3, <4>4, <1>20
      <4> QED BY <4>2, <4>5, <1>2
    <3> QED BY <3>3, <3>4, <3>5
  <2> QED BY <2>1, <2>2
<1>23. /\ OffsetPlaced(Evaluate(text))'
       /\ \A f \in Evaluate(text') : f.end <= offset' \/ offset' <= f.start
       /\ reports' = {f \in Evaluate(text') : f.end <= offset'}
       /\ Masked' = MaskedBy(Evaluate(text'), offset')
  BY <1>2, <1>13, <1>15, <1>19, <1>22 DEF E
<1> QED BY <1>23 DEF AgreesInv

\* Where no findings overlap and no rule has too many, the stream masks and
\* reports what one evaluation of the whole text does, wherever the chunks end
\* and whatever the cap (process_chunk, flush, _evaluate_rule).
THEOREM AgreesWithWhole == StreamSpec => []StreamAgreesWithWhole
<1>1. StreamInit => AgreesInv
  <2> SUFFICES ASSUME StreamInit PROVE AgreesInv
    OBVIOUS
  <2>1. /\ offset = 0 /\ reports = {} /\ Masked = {} /\ text \in Seq(Alphabet)
    BY StreamInitInv DEF StreamInit, StreamInv, StreamTypes
  <2>2. Len(text) = 0
    BY StreamInitInv
  <2>3. Evaluate(text) = {}
    <3>1. \A f \in Evaluate(text) : f.start \in Nat /\ f.end \in Nat /\ f.start < f.end
                                    /\ f.end <= Len(text)
      BY <2>1, FoundOfText DEF Found
    <3> QED BY <3>1, <2>2
  <2>4. MaskedBy({}, 0) = {}
    BY DEF MaskedBy, MaskSegments
  <2> QED BY <2>1, <2>3, <2>4 DEF AgreesInv, OffsetPlaced
<1>2. StreamInv /\ AgreesInv /\ [StreamNext]_streamVars => AgreesInv'
  <2> SUFFICES ASSUME StreamInv, AgreesInv, [StreamNext]_streamVars
               PROVE  AgreesInv'
    OBVIOUS
  <2>1. CASE Raises
    BY <2>1, RaisedNotRegular DEF AgreesInv
  <2>2. CASE \E all, n, force : StepOf(all, n, force)
    BY <2>2, StepKeepsAgreement
  <2>3. CASE UNCHANGED streamVars
    BY <2>3, StutterKeepsAll DEF AgreesInv, OffsetPlaced
  <2> QED BY <2>1, <2>2, <2>3, StreamSteps
<1>3. StreamInv /\ AgreesInv => StreamAgreesWithWhole
  <2> SUFFICES ASSUME StreamInv, AgreesInv, Regular, flushed, Plain(text)
               PROVE  /\ Masked = MaskedPositions(Len(text), Evaluate(text))
                      /\ reports = Evaluate(text)
    BY DEF StreamAgreesWithWhole
  <2> DEFINE E == Evaluate(text)
  <2>1. text \in Seq(Alphabet) /\ Len(text) \in Nat /\ offset = Len(text)
    BY LenProperties DEF StreamInv, StreamTypes, Regular
  <2>2. Spans(Len(text), E)
    BY <2>1, SpansOfText
  <2>3. \A f, g \in E : ~Overlap(f, g)
    BY DEF Plain
  <2> HIDE DEF E
  <2>4. \A f \in E : f.end <= offset
    BY <2>1, <2>2 DEF Spans
  <2>5. reports = {f \in E : f.end <= offset} /\ Masked = MaskedBy(E, offset)
    BY DEF AgreesInv, E
  <2>6. reports = E
    BY <2>4, <2>5
  <2>7. {g \in MaskSegments(E) : g.end <= offset} = MaskSegments(E)
    BY <2>4 DEF MaskSegments
  <2>8. Masked = UNION {SpanOf(f) : f \in MaskSegments(E)}
    BY <2>5, <2>7 DEF MaskedBy
  <2>9. MaskedPositions(Len(text), E) = UNION {SpanOf(f) : f \in MaskSegments(E)}
    BY <2>1, <2>2, <2>3, MaskedExactly
  <2> QED BY <2>6, <2>8, <2>9 DEF E
<1> QED BY <1>1, <1>2, <1>3, StreamInvariant, PTL DEF StreamSpec
====
