---------------------------- MODULE SafetyRuntime ----------------------------
(***************************************************************************)
(* The life cycle of the SDK's safety runtime                              *)
(* (fortifyroot/_internal/safety/runtime.py and the end of core.init).     *)
(*                                                                         *)
(* Application threads (Caller) run init() and                             *)
(* shutdown_global_safety_runtime(); both work under one lock and replace  *)
(* the global SafetyRuntime.  Every runtime that was started has a poller  *)
(* thread, here the process with the runtime's own number, which refreshes *)
(* the runtime's snapshot store from the server.  Request threads of the   *)
(* application read a registered safety handler and, later, the snapshot   *)
(* behind it.                                                              *)
(*                                                                         *)
(* A step is what a thread does between two reads or writes of state that  *)
(* another thread can touch.  A snapshot is abstracted to the version of   *)
(* the profile it was compiled from (its etag; 0 is "no snapshot") and to  *)
(* whether the profile's UDF detectors were compiled in.                   *)
(***************************************************************************)
EXTENDS Naturals

CONSTANTS Caller,         \* threads that call init or shutdown
          Request,        \* application threads that screen text
          Config,         \* (endpoint, key, profile, interval, holdback)
          Startable,      \* the configurations that pass the gate
          Off,            \* the argument of shutdown and of init(enabled=False)
          Free,           \* the value of the lock when nobody holds it
          MaxCalls,       \* bound: calls of init and shutdown
          MaxVersion,     \* bound: profile versions the server publishes
          ThreadsMayFail  \* can Thread.start() raise?

Runtime == 1..MaxCalls
None == 0
Process == Caller \cup Runtime
Slot == {"prompt", "completion", "stream"}
SlotAt == <<"prompt", "completion", "stream">>
Version == 0..MaxVersion
Snapshot == [version : Version, udf : BOOLEAN]
Empty == [version |-> 0, udf |-> FALSE]

ASSUME CallerAssumption == Caller \cap Runtime = {}
ASSUME ConfigAssumption == Startable \subseteq Config /\ Off \notin Config
ASSUME FreeAssumption == Free \notin Caller
ASSUME BoundAssumption == /\ MaxCalls \in Nat \ {0}
                          /\ MaxVersion \in Nat \ {0}
                          /\ ThreadsMayFail \in BOOLEAN

VARIABLES
  published,   \* version of the profile on the server
  udfEnabled,  \* engine._udf_detectors_enabled
  lock,        \* holder of _GLOBAL_RUNTIME_LOCK
  global,      \* _GLOBAL_SAFETY_RUNTIME
  made,        \* number of runtimes constructed so far
  conf,        \* runtime -> configuration it was built with
  store,       \* runtime -> _snapshot_store
  stopEvent,   \* runtime -> _stop_event
  registered,  \* the three handler registrations of the instrumentations
  pc,          \* process -> control point
  arg,         \* caller -> argument of its call
  mine,        \* caller -> the runtime it is stopping or starting
  slot,        \* caller -> index of the next registration to write
  etag,        \* process -> etag sent with the fetch in flight
  reply,       \* process -> snapshot compiled from the last answer
  calls,       \* calls made so far
  req          \* request -> what it captured, and what screened it

world == <<published, udfEnabled, req>>
shared == <<lock, global>>
callerVars == <<arg, mine, slot, calls>>
fetchVars == <<etag, reply>>
runtimeVars == <<made, conf, store, stopEvent>>
vars == <<published, udfEnabled, lock, global, made, conf, store, stopEvent,
          registered, pc, arg, mine, slot, etag, reply, calls, req>>

CallerPc == {"idle", "acquire", "setStop", "join", "clearStore", "unhook",
             "gate", "unhookOff", "refresh", "fetch", "store", "register",
             "start", "publish"}
PollerPc == {"new", "wait", "refresh", "fetch", "store", "ended"}

Init == /\ published = 1
        /\ udfEnabled = FALSE
        /\ lock = Free
        /\ global = None
        /\ made = 0
        /\ conf = [r \in Runtime |-> Off]
        /\ store = [r \in Runtime |-> Empty]
        /\ stopEvent = [r \in Runtime |-> FALSE]
        /\ registered = [s \in Slot |-> None]
        /\ pc = [p \in Process |-> IF p \in Caller THEN "idle" ELSE "new"]
        /\ arg = [c \in Caller |-> Off]
        /\ mine = [c \in Caller |-> None]
        /\ slot = [c \in Caller |-> 1]
        /\ etag = [p \in Process |-> 0]
        /\ reply = [p \in Process |-> Empty]
        /\ calls = 0
        /\ req = [q \in Request |-> [at |-> "idle", handler |-> None,
                                     floor |-> 0, seen |-> 0]]

Goto(p, there) == pc' = [pc EXCEPT ![p] = there]

\* The call of c is over: the lock is free and its locals are gone.
Return(c) ==
  /\ lock' = Free
  /\ Goto(c, "idle")
  /\ arg' = [arg EXCEPT ![c] = Off]
  /\ mine' = [mine EXCEPT ![c] = None]

-----------------------------------------------------------------------------
(* Calls. *)

\* init(): the UDF switch is written before, and outside, the lock.
InitCall(c) ==
  /\ pc[c] = "idle" /\ calls < MaxCalls
  /\ \E cfg \in Config \cup {Off}, allow \in BOOLEAN :
        /\ arg' = [arg EXCEPT ![c] = cfg]
        /\ udfEnabled' = allow
  /\ calls' = calls + 1
  /\ Goto(c, "acquire")
  /\ UNCHANGED <<shared, published, runtimeVars, registered, mine, slot,
                 fetchVars, req>>

\* shutdown_global_safety_runtime(): from the lock on it does what
\* configure does for enabled=False.
ShutdownCall(c) ==
  /\ pc[c] = "idle" /\ calls < MaxCalls
  /\ arg' = [arg EXCEPT ![c] = Off]
  /\ calls' = calls + 1
  /\ Goto(c, "acquire")
  /\ UNCHANGED <<world, shared, runtimeVars, registered, mine, slot,
                 fetchVars>>

SameConfiguration(r, cfg) == cfg # Off /\ conf[r] = cfg

\* The lock is free and the global runtime has the configuration asked for:
\* the call takes the lock, finds that out and returns.
KeepRuntime(c) ==
  /\ pc[c] = "acquire" /\ lock = Free
  /\ global # None /\ SameConfiguration(global, arg[c])
  /\ Return(c)
  /\ UNCHANGED <<world, global, runtimeVars, registered, slot, calls,
                 fetchVars>>

\* Otherwise the call keeps the lock until it is done.  (No request that
\* overlaps such a call is promised anything: its floor is dropped.)
Acquire(c) ==
  /\ pc[c] = "acquire" /\ lock = Free
  /\ ~(global # None /\ SameConfiguration(global, arg[c]))
  /\ lock' = c
  /\ mine' = [mine EXCEPT ![c] = global]
  /\ Goto(c, IF global = None THEN "gate" ELSE "setStop")
  /\ req' = [q \in Request |-> [req[q] EXCEPT !.floor = 0]]
  /\ UNCHANGED <<published, udfEnabled, global, runtimeVars, registered, arg,
                 slot, calls, fetchVars>>

-----------------------------------------------------------------------------
(* SafetyRuntime.stop(), inside the lock. *)

SetStop(c) ==
  /\ pc[c] = "setStop"
  /\ stopEvent' = [stopEvent EXCEPT ![mine[c]] = TRUE]
  /\ Goto(c, IF pc[mine[c]] = "ended" THEN "clearStore" ELSE "join")
  /\ UNCHANGED <<world, shared, made, conf, store, registered, callerVars,
                 fetchVars>>

\* join(timeout=1.0) returns when the poller ended and, because a fetch may
\* take five seconds, also when it did not.
Join(c) ==
  /\ pc[c] = "join"
  /\ Goto(c, "clearStore")
  /\ UNCHANGED <<world, shared, runtimeVars, registered, callerVars,
                 fetchVars>>

ClearStore(c) ==
  /\ pc[c] = "clearStore"
  /\ store' = [store EXCEPT ![mine[c]] = Empty]
  /\ Goto(c, "unhook")
  /\ UNCHANGED <<world, shared, made, conf, stopEvent, registered,
                 callerVars, fetchVars>>

\* (Fault: clear_safety_handlers() leaves the stream factory out.)
LastSlot_NoStream == 2

LastSlot == 3

\* (Fault: the next pass over the registrations does not start over.)
WriteSlot_NoReset(c, value) ==
  /\ registered' = [registered EXCEPT ![SlotAt[slot[c]]] = value]
  /\ slot' = [slot EXCEPT ![c] = slot[c] + 1]

\* One registration is overwritten per step.
WriteSlot(c, value) ==
  /\ registered' = [registered EXCEPT ![SlotAt[slot[c]]] = value]
  /\ slot' = [slot EXCEPT ![c] = IF slot[c] = LastSlot THEN 1 ELSE slot[c] + 1]

\* clear_safety_handlers() at the end of stop().
Unhook(c) ==
  /\ pc[c] = "unhook"
  /\ WriteSlot(c, None)
  /\ Goto(c, IF slot[c] = LastSlot THEN "gate" ELSE "unhook")
  /\ UNCHANGED <<world, shared, runtimeVars, arg, mine, calls, fetchVars>>

-----------------------------------------------------------------------------
(* The rest of configure_global_safety_runtime(). *)

\* (Fault: the constructor starts the poller, before the first refresh.)
NewRuntime_StartsPoller(c) ==
  /\ made < MaxCalls
  /\ made' = made + 1
  /\ conf' = [conf EXCEPT ![made + 1] = arg[c]]
  /\ mine' = [mine EXCEPT ![c] = made + 1]
  /\ pc' = [pc EXCEPT ![c] = "refresh", ![made + 1] = "wait"]

\* SafetyRuntime.__init__(): an empty store, a thread not yet started.  (The
\* bound never bites: a call builds one runtime at most.)
NewRuntime(c) ==
  /\ made < MaxCalls
  /\ made' = made + 1
  /\ conf' = [conf EXCEPT ![made + 1] = arg[c]]
  /\ mine' = [mine EXCEPT ![c] = made + 1]
  /\ Goto(c, "refresh")

\* The old runtime is forgotten; a disabled, untrusted or incomplete
\* configuration goes on to clear the handlers, any other builds a runtime.
Gate(c) ==
  /\ pc[c] = "gate"
  /\ global' = None
  /\ IF arg[c] \in Startable
       THEN NewRuntime(c)
       ELSE Goto(c, "unhookOff") /\ UNCHANGED <<made, conf, mine>>
  /\ UNCHANGED <<world, lock, store, stopEvent, registered, arg, slot, calls,
                 fetchVars>>

\* clear_safety_handlers() of the branches that start nothing.  The third
\* write is the last of the call, which releases the lock.
UnhookOff(c) ==
  /\ pc[c] = "unhookOff"
  /\ WriteSlot(c, None)
  /\ IF slot[c] = LastSlot THEN Return(c) ELSE UNCHANGED <<lock, pc, arg, mine>>
  /\ UNCHANGED <<world, global, runtimeVars, calls, fetchVars>>

\* SafetyRuntime.start() after the first refresh.
Register(c) ==
  /\ pc[c] = "register"
  /\ WriteSlot(c, mine[c])
  /\ Goto(c, IF slot[c] = LastSlot THEN "start" ELSE "register")
  /\ UNCHANGED <<world, shared, runtimeVars, arg, mine, calls, fetchVars>>

StartThread(c) ==
  /\ pc[c] = "start"
  /\ pc' = [pc EXCEPT ![c] = "publish", ![mine[c]] = "wait"]
  /\ UNCHANGED <<world, shared, runtimeVars, registered, callerVars,
                 fetchVars>>

\* (Fault: the lock is not released when the exception passes.)
StartThreadFails_KeepsLock(c) ==
  /\ ThreadsMayFail
  /\ pc[c] = "start"
  /\ Goto(c, "idle")
  /\ UNCHANGED <<world, shared, runtimeVars, registered, callerVars,
                 fetchVars>>

\* Thread.start() raises: the exception leaves init(), the lock is released
\* and the runtime, registered already, never becomes the global one.
StartThreadFails(c) ==
  /\ ThreadsMayFail
  /\ pc[c] = "start"
  /\ Return(c)
  /\ UNCHANGED <<world, global, runtimeVars, registered, slot, calls,
                 fetchVars>>

Publish(c) ==
  /\ pc[c] = "publish"
  /\ global' = mine[c]
  /\ Return(c)
  /\ UNCHANGED <<world, runtimeVars, registered, slot, calls, fetchVars>>

-----------------------------------------------------------------------------
(* _refresh_once(): run by the caller before the handlers are registered,  *)
(* and by the poller from then on.                                         *)

\* (Fault: one store for all runtimes: a poller writes the current one's.)
Target_Shared(p) ==
  CASE p \in Caller -> mine[p]
    [] p \notin Caller /\ global # None -> global
    [] OTHER -> p

\* The runtime that process p refreshes.
Target(p) == IF p \in Caller THEN mine[p] ELSE p
\* (Fault: the poller refreshes once and ends.)
RefreshReturn_PollsOnce(p) ==
  /\ Goto(p, IF p \in Caller THEN "register" ELSE "ended")
  /\ etag' = [etag EXCEPT ![p] = 0]
  /\ reply' = [reply EXCEPT ![p] = Empty]

\* _refresh_once() returns, and its locals are gone.
RefreshReturn(p) ==
  /\ Goto(p, IF p \in Caller THEN "register" ELSE "wait")
  /\ etag' = [etag EXCEPT ![p] = 0]
  /\ reply' = [reply EXCEPT ![p] = Empty]

RefreshRead(p) ==
  /\ pc[p] = "refresh"
  /\ etag' = [etag EXCEPT ![p] = store[Target(p)].version]
  /\ Goto(p, "fetch")
  /\ UNCHANGED <<world, shared, runtimeVars, registered, callerVars, reply>>

\* (Fault: a failed fetch drops the rules.)
FetchFails_DropsRules(p) ==
  /\ pc[p] = "fetch"
  /\ store' = [store EXCEPT ![Target(p)] = Empty]
  /\ RefreshReturn(p)
  /\ UNCHANGED <<world, shared, made, conf, stopEvent, registered,
                 callerVars>>

\* Time-outs, HTTP errors, malformed or oversized answers and compilation
\* errors all end as SafetyConfigFetchError, which only logs.
FetchFails(p) ==
  /\ pc[p] = "fetch"
  /\ RefreshReturn(p)
  /\ UNCHANGED <<world, shared, runtimeVars, registered, callerVars>>

FetchNotModified(p) ==
  /\ pc[p] = "fetch"
  /\ etag[p] = published
  /\ RefreshReturn(p)
  /\ UNCHANGED <<world, shared, runtimeVars, registered, callerVars>>

\* The answer is compiled as it arrives, with the UDF switch as it is then.
FetchCompiles(p) ==
  /\ pc[p] = "fetch"
  /\ etag[p] # published
  /\ reply' = [reply EXCEPT ![p] = [version |-> published,
                                    udf |-> udfEnabled]]
  /\ Goto(p, "store")
  /\ UNCHANGED <<world, shared, runtimeVars, registered, callerVars, etag>>

\* Nothing is read again before the write, the stop event included.
RefreshStore(p) ==
  /\ pc[p] = "store"
  /\ store' = [store EXCEPT ![Target(p)] = reply[p]]
  /\ RefreshReturn(p)
  /\ UNCHANGED <<world, shared, made, conf, stopEvent, registered,
                 callerVars>>

\* (Fault: the poller sleeps instead of waiting for the event.)
PollerWake_Sleeps(r) ==
  /\ pc[r] = "wait"
  /\ Goto(r, "refresh")
  /\ UNCHANGED <<world, shared, runtimeVars, registered, callerVars,
                 fetchVars>>

\* _poll_loop(): wait() returns at once when the event is set.
PollerWake(r) ==
  /\ pc[r] = "wait"
  /\ Goto(r, IF stopEvent[r] THEN "ended" ELSE "refresh")
  /\ UNCHANGED <<world, shared, runtimeVars, registered, callerVars,
                 fetchVars>>

-----------------------------------------------------------------------------
(* The application's requests, and the server. *)

\* get_prompt_safety_handler() and its likes; between this read and the call
\* of the handler lies, for the async entry points, a thread switch.
\* floor is a history field: the version in the global store when the
\* request began with no call of init or shutdown under way.
Capture(q, s) ==
  /\ req[q].at = "idle"
  /\ req' = [req EXCEPT ![q] =
       [at |-> "captured", handler |-> registered[s], seen |-> 0,
        floor |-> IF lock = Free /\ global # None
                    THEN store[global].version ELSE 0]]
  /\ UNCHANGED <<shared, published, udfEnabled, runtimeVars, registered, pc,
                 callerVars, fetchVars>>

\* SafetyHandler.__call__ / SafetyStreamFactory.__call__: without a handler
\* or without a snapshot the text passes unscreened (seen = 0).
Screen(q) ==
  /\ req[q].at = "captured"
  /\ req' = [req EXCEPT ![q] =
       [at |-> "idle", handler |-> None, floor |-> req[q].floor,
        seen |-> IF req[q].handler = None
                   THEN 0 ELSE store[req[q].handler].version]]
  /\ UNCHANGED <<shared, published, udfEnabled, runtimeVars, registered, pc,
                 callerVars, fetchVars>>

\* The profile changes on the server.
PublishProfile ==
  /\ published < MaxVersion
  /\ published' = published + 1
  /\ UNCHANGED <<shared, udfEnabled, runtimeVars, registered, pc, callerVars,
                 fetchVars, req>>

-----------------------------------------------------------------------------
Refresh(p) == \/ RefreshRead(p)
              \/ FetchFails(p)
              \/ FetchNotModified(p)
              \/ FetchCompiles(p)
              \/ RefreshStore(p)

CallerStep(c) == \/ KeepRuntime(c) \/ Acquire(c)
                 \/ SetStop(c) \/ Join(c) \/ ClearStore(c) \/ Unhook(c)
                 \/ Gate(c) \/ UnhookOff(c)
                 \/ Refresh(c)
                 \/ Register(c) \/ StartThread(c) \/ StartThreadFails(c)
                 \/ Publish(c)

PollerStep(r) == PollerWake(r) \/ Refresh(r)

Next == \/ \E c \in Caller : InitCall(c) \/ ShutdownCall(c) \/ CallerStep(c)
        \/ \E r \in Runtime : PollerStep(r)
        \/ \E q \in Request : Screen(q) \/ \E s \in Slot : Capture(q, s)
        \/ PublishProfile

Spec == Init /\ [][Next]_vars

(* Threads that can run do run, a fetch ends (it has a time-out), and the  *)
(* server answers a poller that never stops asking.  The lock needs no     *)
(* strong fairness: with MaxCalls calls it is taken finitely often.        *)
Fairness == /\ \A c \in Caller : WF_vars(CallerStep(c))
            /\ \A r \in Runtime : /\ WF_vars(PollerStep(r))
                                  /\ SF_vars(FetchCompiles(r))
FairSpec == Spec /\ Fairness

-----------------------------------------------------------------------------
(* Properties. *)

\* Every variable has its type.
TypeOK ==
  /\ published \in 1..MaxVersion
  /\ udfEnabled \in BOOLEAN
  /\ lock \in Caller \cup {Free}
  /\ global \in Runtime \cup {None}
  /\ made \in 0..MaxCalls
  /\ conf \in [Runtime -> Config \cup {Off}]
  /\ store \in [Runtime -> Snapshot]
  /\ stopEvent \in [Runtime -> BOOLEAN]
  /\ registered \in [Slot -> Runtime \cup {None}]
  /\ pc \in [Process -> CallerPc \cup PollerPc]
  /\ arg \in [Caller -> Config \cup {Off}]
  /\ mine \in [Caller -> Runtime \cup {None}]
  /\ slot \in [Caller -> 1..3]
  /\ etag \in [Process -> Version]
  /\ reply \in [Process -> Snapshot]
  /\ calls \in 0..MaxCalls
  /\ req \in [Request -> [at : {"idle", "captured"},
                          handler : Runtime \cup {None},
                          floor : Version, seen : Version]]

\* Whenever no call of init or shutdown is inside the lock, the three
\* handler registrations belong together: they are the global runtime's; or
\* there is no global runtime and nothing is registered, or what is
\* registered belongs to a runtime whose thread failed to start.
HandlersAgree ==
  lock = Free =>
    /\ \A s \in Slot : registered[s] = registered["prompt"]
    /\ global # None => registered["prompt"] = global
    /\ (global = None /\ registered["prompt"] # None) =>
         ThreadsMayFail /\ pc[registered["prompt"]] = "new"

\* Whenever the lock is free, the global runtime has not been told to stop
\* and its poller runs, so rules published later can still reach it.
GlobalRuntimeLives ==
  lock = Free /\ global # None =>
    ~stopEvent[global] /\ pc[global] \notin {"new", "ended"}

Refreshing(p, r) == pc[p] \in {"refresh", "fetch", "store"} /\ Target(p) = r

\* No two threads ever refresh one runtime's store at the same time, although
\* both init() and the poller call _refresh_once() without a lock: two fetches
\* in flight could be written in the wrong order.
OneRefresher ==
  \A r \in Runtime : \A p, o \in Process :
    Refreshing(p, r) /\ Refreshing(o, r) => p = o

\* The rules of a runtime that has not been stopped are never replaced by
\* older ones and never dropped, whatever its fetches return.
RulesNeverRegress ==
  [][\A r \in Runtime :
       ~stopEvent'[r] => store'[r].version >= store[r].version]_vars

\* A request that begins and ends while no call of init or shutdown holds the
\* lock is screened, with rules at least as new as those the global runtime
\* had when the request began: in spite of late writes by pollers of stopped
\* runtimes, failed polls, and the gap between reading handler and snapshot.
RequestsKeepUp ==
  \A q \in Request : req[q].at = "idle" => req[q].seen >= req[q].floor

\* Every call of init or shutdown returns, although it may wait for a poller
\* that is in the middle of a fetch, and for another call.
CallsReturn == \A c \in Caller : pc[c] # "idle" ~> pc[c] = "idle"

\* The poller of a runtime that has been told to stop ends.
PollersStop == \A r \in Runtime : stopEvent[r] ~> pc[r] = "ended"

\* What the server has published reaches the store of the global runtime,
\* unless the runtime is stopped first.
RulesArrive ==
  \A r \in Runtime, v \in 1..MaxVersion :
    (global = r /\ published >= v) ~> (store[r].version >= v \/ stopEvent[r])

(* Claims of the repository that the code does not keep. *)

\* tests/test_safety_runtime.py: after stop() the runtime's store is empty.
\* A poller that was inside a fetch for longer than the join waits fills the
\* store again.
StopClearsSnapshot ==
  \A r \in Runtime :
    (/\ stopEvent[r]
     /\ \A c \in Caller :
          mine[c] = r => pc[c] \notin {"setStop", "join", "clearStore"})
    => store[r] = Empty

\* engine.py tells the user of a skipped UDF detector to enable it with
\* init(allow_udf_detectors=True).  Once that was done, and stays so, the
\* rules of the global runtime should come to contain it.
EnablingUdfTakesEffect ==
  \A r \in Runtime :
    <>[](udfEnabled /\ global = r /\ store[r] # Empty) => <>(store[r].udf)
=============================================================================
