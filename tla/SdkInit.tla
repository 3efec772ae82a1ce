------------------------------- MODULE SdkInit -------------------------------
(***************************************************************************)
(* fortifyroot.core.init() as it is called again, and on several threads.  *)
(*                                                                         *)
(* A call resolves its endpoints and headers, refuses a default export     *)
(* without authorization, makes the default exporters, and hands them to   *)
(* the vendored tracer SDK, which keeps one TracerWrapper, MetricsWrapper  *)
(* and LoggerWrapper per process.  Nothing of this is under a lock, and a  *)
(* call may raise in the middle.  What follows, the safety runtime, is     *)
(* module SafetyRuntime; here only the call it was configured by is kept.  *)
(*                                                                         *)
(* An endpoint is the class that the checks tell apart:                    *)
(*   "managed"  https://..., a host of fortifyroot.com                     *)
(*   "bare"     the same host as host:port, which has no hostname for      *)
(*              urlsplit() and so does not count as managed                *)
(*   "other"    any other one that is accepted (TLS, or a local host)      *)
(*   "http"     http:// and a host that is not local                       *)
(*   "grpc"     grpc:// and a host that is not local                       *)
(* The FORTIFYROOT_* switches are the same when the package is imported,   *)
(* where they become TRACELOOP_* ones, and when init() reads them.         *)
(***************************************************************************)
CONSTANTS Call,    \* the calls of init()
          Nobody,
          ArgsOf   \* the arguments they may have

Signal == {"traces", "metrics", "logs"}
Endpoint == {"managed", "bare", "other", "http", "grpc"}

\* The arguments as environment and parameters yield them: the endpoint of
\* each signal, the headers given for it (none, some without authorization,
\* some with it), and which of the application's own objects are given.
Args == [enabled : BOOLEAN, key : BOOLEAN, content : BOOLEAN,
         endpoint : [Signal -> Endpoint],
         headers : [Signal -> {"absent", "plain", "auth"}],
         given : SUBSET {"exporter", "processors", "metrics", "logs"}]

Env == [tracing : BOOLEAN, metrics : BOOLEAN, logs : BOOLEAN,
        foreign : BOOLEAN]  \* a TracerProvider that takes no span processor

ASSUME NobodyAssumption == Nobody \notin Call
ASSUME ArgsAssumption == ArgsOf \subseteq [Call -> Args]

VARIABLES
  env,       \* the environment of the process
  pc,        \* where each call is
  args,      \* and what its arguments are
  made,      \* the default exporters it has made
  content,   \* os.environ["TRACELOOP_TRACE_CONTENT"]
  disabled,  \* TracerWrapper.__disabled
  instance,  \* the call whose object is the wrapper's instance
  live,      \* the calls whose exporter receives the signal
  runtime    \* the call that configured the safety runtime last

vars == <<env, pc, args, made, content, disabled, instance, live, runtime>>

-----------------------------------------------------------------------------
(* Endpoints and headers. *)

\* _is_managed_fortifyroot_endpoint()
Managed(e) == e = "managed"

\* _validate_http_exporter_endpoint()
Accepted(e) == e # "http"

\* The exporters' constructors: the same, and _resolve_grpc_exporter_endpoint().
Creatable(e) == Accepted(e) /\ e # "grpc"

\* _resolve_export_headers() before the metadata: authorization that was given
\* comes before the key.
Authorized(auth, key) == IF auth = "none" /\ key THEN "bearer" ELSE auth

Given(a, s) == IF a.headers[s] = "auth" THEN s ELSE "none"

\* _with_sdk_metadata_headers() for a managed endpoint.
WithMetadata(auth, e) == [auth |-> auth, metadata |-> Managed(e)]

TraceHeaders(a) ==
  WithMetadata(Authorized(Given(a, "traces"), a.key), a.endpoint["traces"])

\* (Fault: the metadata is added and not taken away.)
Inherited_All(h, e) == [h EXCEPT !.metadata = h.metadata \/ Managed(e)]

\* The headers of the traces for another signal: the metadata goes along to a
\* managed endpoint, and _without_sdk_metadata_headers() to any other.
Inherited(h, e) == [h EXCEPT !.metadata = Managed(e)]

\* _resolve_signal_headers()
Headers(a, s) ==
  IF s = "traces" THEN TraceHeaders(a)
  ELSE IF a.headers[s] = "absent" THEN Inherited(TraceHeaders(a), a.endpoint[s])
  ELSE LET own == IF Given(a, s) # "none" THEN s ELSE TraceHeaders(a).auth
       IN  WithMetadata(Authorized(own, a.key), a.endpoint[s])

\* Is the signal switched on?  The traces are asked about elsewhere.
On(s) == (s = "metrics" => env.metrics) /\ (s = "logs" => env.logs)

\* (Fault: only the traces are checked.)
Checked_Traces(a) == {s \in {"traces"} : a.given \cap {"exporter", s} = {}}

\* The signals whose default export is checked beforehand.
Checked(a) ==
  {s \in Signal : /\ On(s) /\ a.given \cap {"exporter", s} = {}
                  /\ s = "traces" => "processors" \notin a.given}

\* _validate_default_export_auth() raises.
Refused(a) ==
  /\ a.enabled /\ env.tracing
  /\ \E s \in Checked(a) :
       \/ ~Accepted(a.endpoint[s])
       \/ Managed(a.endpoint[s]) /\ Headers(a, s).auth = "none"

\* The exporters that init() makes, as the application gave none.
Makes(a) ==
  {s \in Signal :
     /\ On(s) /\ s \notin a.given
     /\ "exporter" \in a.given => s = "metrics" /\ "processors" \in a.given
     /\ s = "traces" => "processors" \notin a.given}

\* The order in which they are made.
Before(s) == CASE s = "traces" -> {} [] s = "metrics" -> {"traces"}
               [] s = "logs" -> {"traces", "metrics"}

\* Traceloop.init() makes the wrapper of the signal, or gets it.
Wanted(a, s) ==
  CASE s = "traces" -> TRUE
    [] s = "metrics" -> env.metrics /\ (s \in a.given \/ s \in Makes(a))
    [] s = "logs" -> env.logs /\ (s \in a.given \/ "exporter" \notin a.given)

-----------------------------------------------------------------------------
\* Where a call is: at a stage of its own, or at a wrapper's.
AtIdle == <<"idle", "all">>
AtMake == <<"make", "all">>
AtSafety == <<"safety", "all">>
AtRaised == <<"raised", "all">>
AtReturned == <<"returned", "all">>

Init == /\ args \in ArgsOf
        /\ env \in Env
        /\ pc = [c \in Call |-> AtIdle]
        /\ made = [c \in Call |-> {}]
        /\ content = TRUE
        /\ disabled = FALSE
        /\ instance = [s \in Signal |-> Nobody]
        /\ live = [s \in Signal |-> {}]
        /\ runtime = Nobody

Goto(c, from, to) == pc[c] = from /\ pc' = [pc EXCEPT ![c] = to]

\* What the arguments and the environment decide, before anything is changed.
Refuse(c) == /\ Refused(args[c]) /\ Goto(c, AtIdle, AtRaised)
             /\ UNCHANGED <<env, args, made, content, disabled, instance,
                            live, runtime>>

Begin(c) == /\ ~Refused(args[c]) /\ Goto(c, AtIdle, AtMake)
            /\ content' = args[c].content
            /\ UNCHANGED <<env, args, made, disabled, instance, live, runtime>>

\* The default exporters are made, in any case: also for a call that disables
\* tracing, and for one that comes second.
MakeFails(c) ==
  /\ Goto(c, AtMake, AtRaised)
  /\ \E s \in Makes(args[c]) :
       /\ ~Creatable(args[c].endpoint[s])
       /\ \A t \in Makes(args[c]) \cap Before(s) : Creatable(args[c].endpoint[t])
       /\ made' = [made EXCEPT ![c] = Makes(args[c]) \cap Before(s)]
  /\ UNCHANGED <<env, args, content, disabled, instance, live, runtime>>

\* (Fault: what cannot be made is left out.)
Make_Skips(c) ==
  /\ made' = [made EXCEPT ![c] = {s \in Makes(args[c]) :
                                    Creatable(args[c].endpoint[s])}]
  /\ Goto(c, AtMake, IF args[c].enabled /\ env.tracing
                         THEN <<"check", "traces">> ELSE AtSafety)
  /\ disabled' = (disabled \/ ~args[c].enabled)
  /\ UNCHANGED <<env, args, content, instance, live, runtime>>

\* (Fault: the switch in the argument is not looked at.)
Make_GoesOn(c) ==
  /\ \A s \in Makes(args[c]) : Creatable(args[c].endpoint[s])
  /\ made' = [made EXCEPT ![c] = Makes(args[c])]
  /\ Goto(c, AtMake, IF env.tracing THEN <<"check", "traces">> ELSE AtSafety)
  /\ disabled' = (disabled \/ ~args[c].enabled)
  /\ UNCHANGED <<env, args, content, instance, live, runtime>>

\* Then Traceloop.init(): a disabled call sets the flag, and returns.
Make(c) ==
  /\ \A s \in Makes(args[c]) : Creatable(args[c].endpoint[s])
  /\ made' = [made EXCEPT ![c] = Makes(args[c])]
  /\ Goto(c, AtMake, IF args[c].enabled /\ env.tracing
                         THEN <<"check", "traces">> ELSE AtSafety)
  /\ disabled' = (disabled \/ ~args[c].enabled)
  /\ UNCHANGED <<env, args, content, instance, live, runtime>>

\* The wrappers' __new__() for one signal after the other.
After(s) == CASE s = "traces" -> <<"check", "metrics">>
              [] s = "metrics" -> <<"check", "logs">>
              [] s = "logs" -> AtSafety

\* Not wanted, or there is an instance, whatever its state.
Pass(c, s) == /\ ~Wanted(args[c], s) \/ instance[s] # Nobody
              /\ Goto(c, <<"check", s>>, After(s))
              /\ UNCHANGED <<env, args, made, content, disabled, instance,
                             live, runtime>>

Check(c, s) == /\ Wanted(args[c], s) /\ instance[s] = Nobody
               /\ Goto(c, <<"check", s>>, <<"claim", s>>)
               /\ UNCHANGED <<env, args, made, content, disabled, instance,
                              live, runtime>>

\* The new object is the instance before anything is in it.
Claim(c, s) == /\ Goto(c, <<"claim", s>>, <<"fill", s>>)
               /\ instance' = [instance EXCEPT ![s] = c]
               /\ UNCHANGED <<env, args, made, content, disabled, live, runtime>>

\* init_tracer_provider() returns None when the provider in place takes no
\* processors, and the next line raises.
FillFails(c) == /\ env.foreign /\ Goto(c, <<"fill", "traces">>, AtRaised)
                /\ UNCHANGED <<env, args, made, content, disabled, instance,
                               live, runtime>>

\* Whose exporters have the signal then: the one TracerProvider takes another
\* beside those it has, set_meter_provider() accepts the first, and the root
\* logger's handler replaces the one before.
Attached(s, c) == CASE s = "traces" -> live[s] \cup {c}
                    [] s = "metrics" -> IF live[s] = {} THEN {c} ELSE live[s]
                    [] s = "logs" -> {c}

Fill(c, s) ==
  /\ s = "traces" => ~env.foreign
  /\ Goto(c, <<"fill", s>>, After(s))
  /\ live' = [live EXCEPT ![s] = Attached(s, c)]
  /\ UNCHANGED <<env, args, made, content, disabled, instance, runtime>>

\* configure_global_safety_runtime(), and the return.
Safety(c) == /\ Goto(c, AtSafety, AtReturned)
             /\ runtime' = c
             /\ UNCHANGED <<env, args, made, content, disabled, instance, live>>

Next == \E c \in Call :
          \/ Refuse(c) \/ Begin(c) \/ MakeFails(c) \/ Make(c)
          \/ FillFails(c) \/ Safety(c)
          \/ \E s \in Signal :
               Pass(c, s) \/ Check(c, s) \/ Claim(c, s) \/ Fill(c, s)

Spec == Init /\ [][Next]_vars

-----------------------------------------------------------------------------
(* Properties. *)

\* Every variable keeps its type (init(), and the wrappers' class attributes).
TypeOK ==
  /\ env \in Env /\ args \in [Call -> Args] /\ made \in [Call -> SUBSET Signal]
  /\ pc \in [Call -> {AtIdle, AtMake, AtSafety, AtRaised, AtReturned}
                       \cup {"check", "claim", "fill"} \X Signal]
  /\ content \in BOOLEAN /\ disabled \in BOOLEAN
  /\ instance \in [Signal -> Call \cup {Nobody}]
  /\ live \in [Signal -> SUBSET Call] /\ runtime \in Call \cup {Nobody}

\* An exporter that init() made and attached goes to an endpoint it may go to;
\* to a managed one with authorization, unless the application gave both an
\* exporter and processors, when the metrics go unchecked (core.py,
\* _validate_default_export_auth() and the default metrics exporter); SDK
\* metadata goes to managed endpoints only, and the authorization given for a
\* signal is used for it.
ExportsGuarded ==
  \A s \in Signal : \A c \in live[s] :
    s \in Makes(args[c]) =>
      LET e == args[c].endpoint[s]  h == Headers(args[c], s)
      IN  /\ Creatable(e)
          /\ Managed(e) /\ ~({"exporter", "processors"} \subseteq args[c].given)
               => h.auth # "none"
          /\ h.metadata => Managed(e)
          /\ args[c].headers[s] = "auth" => h.auth = s

\* What the calls leave behind, in any interleaving: a call that was to trace
\* has, when it returns, a wrapper for each signal it wants, its own or
\* another's; a wrapper without an exporter is being filled, or its call has
\* raised; a call that is disabled or that raises attaches nothing, and does
\* not reach the safety runtime if it raises (Traceloop.init(), the wrappers'
\* __new__(), init()).
PipelinesAgree ==
  /\ TypeOK
  /\ \A c \in Call : \A s \in Signal :
       pc[c] = AtReturned /\ args[c].enabled /\ env.tracing /\ Wanted(args[c], s)
         => instance[s] # Nobody
  /\ \A s \in Signal : instance[s] # Nobody /\ live[s] = {} =>
       \E c \in Call : \/ pc[c] = <<"fill", s>>
                       \/ pc[c] = AtRaised /\ env.foreign
  /\ \A s \in Signal : live[s] # {} => instance["traces"] # Nobody
  /\ \A c \in Call : ~args[c].enabled \/ ~env.tracing \/ pc[c] = AtRaised =>
       \A s \in Signal : c \notin live[s]
  /\ \A c \in Call : pc[c] = AtRaised => runtime # c

\* Claims that the code does not keep.

\* "Fail fast when default FortifyRoot exporters would run without auth."
ExportsAuthorized ==
  \A s \in Signal : \A c \in live[s] :
    s \in Makes(args[c]) /\ Managed(args[c].endpoint[s])
      => Headers(args[c], s).auth # "none"

\* A call that disables the SDK, and comes last, leaves nothing that exports.
DisabledMeansOff ==
  runtime # Nobody /\ ~args[runtime].enabled
    /\ (\A c \in Call : pc[c] \in {AtIdle, AtReturned, AtRaised})
    => live["traces"] = {}

\* A call that enables it, and comes last, leaves the wrapper enabled.
EnabledMeansOn ==
  runtime # Nobody /\ args[runtime].enabled
    /\ (\A c \in Call : pc[c] \in {AtIdle, AtReturned, AtRaised})
    => ~disabled

\* No span is exported twice.
ExportedOnce == \A c, d \in live["traces"] : c = d

\* A call that raises leaves no wrapper that the next one takes for complete.
NeverHalfBuilt ==
  \A c \in Call : pc[c] = AtReturned /\ args[c].enabled /\ env.tracing
    => live["traces"] # {}
=============================================================================
