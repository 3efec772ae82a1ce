----------------------------- MODULE AssistantRuns -----------------------------
(***************************************************************************)
(* Runs of OpenAI's Assistants API through its wrappers, sync and async    *)
(* alike: runs.create, runs.retrieve and messages.list, of several threads *)
(* or tasks, over the module's dictionary `runs`.                          *)
(*                                                                         *)
(* `runs` holds one dictionary for each thread of messages that a create   *)
(* names by keyword, and one, under the key None, for all that are named   *)
(* by position.  A create replaces it and a retrieve changes it in place,  *)
(* under no lock; a list looks the dictionary up once and reads it as it   *)
(* writes the span.                                                        *)
(***************************************************************************)
EXTENDS Naturals, Sequences

CONSTANTS Users,     \* the calls of wrapped methods
          Threads,   \* threads of messages
          Runs       \* runs the provider may begin

VARIABLES
  runs,      \* runs[k]: number of the dictionary under key k, 0 for none
  entries,   \* the dictionaries: [run, exception, ended, usage]
  provider,  \* provider[q]: [thread, finished], thread as a set
  user,      \* user[u]: [pc, kind, thread, named, run, entry], named: by keyword
  listed     \* listed[u]: [on, ends, status, usage, entry] of the span of a list

assistantRuns == <<runs, entries, provider, user, listed>>

Kinds == {"create", "retrieve", "list"}

\* The keys of `runs`, and kwargs.get("thread_id") of a call; <<>> for None.
Keys == {<<>>} \cup {<<t>> : t \in Threads}
Key(u) == IF user[u].named THEN <<user[u].thread>> ELSE <<>>

Init ==
  /\ runs = [k \in Keys |-> 0] /\ entries = <<>>
  /\ provider = [q \in Runs |-> [thread |-> {}, finished |-> FALSE]]
  /\ \E thread \in [Users -> Threads] :
       user = [u \in Users |-> [pc |-> "idle", kind |-> "create", thread |-> thread[u],
                                named |-> TRUE, run |-> {}, entry |-> 0]]
  /\ listed = [u \in Users |-> [on |-> FALSE, ends |-> 0, status |-> "unset", usage |-> {}]]

At(u, pc) == user[u].pc = pc
Goto(u, pc) == user' = [user EXCEPT ![u].pc = pc]

\* External: the provider finishes a run, and knows its usage then.
ProviderFinishes(q) ==
  /\ provider[q].thread # {} /\ ~provider[q].finished
  /\ provider' = [provider EXCEPT ![q].finished = TRUE]
  /\ UNCHANGED <<runs, entries, user, listed>>

Begin(u, kind, named) ==
  /\ At(u, "idle")
  /\ \E run \in SUBSET Runs :
       /\ IF kind = "retrieve" THEN \E q \in Runs : run = {q} /\ provider[q].thread = {user[u].thread}
                               ELSE run = {}
       /\ user' = [user EXCEPT ![u] = [@ EXCEPT !.pc = "calling", !.kind = kind,
                                       !.named = named, !.run = run]]
  /\ UNCHANGED <<runs, entries, provider, listed>>

-----------------------------------------------------------------------------
(* runs_create_wrapper() *)

Created(u) ==
  /\ At(u, "calling") /\ user[u].kind = "create"
  /\ \E q \in Runs :
       /\ provider[q].thread = {}
       /\ provider' = [provider EXCEPT ![q].thread = {user[u].thread}]
       /\ user' = [user EXCEPT ![u] = [@ EXCEPT !.pc = "answered", !.run = {q}]]
  /\ UNCHANGED <<runs, entries, listed>>

\* The entry under the call's key is replaced.
Remember(u, entry) ==
  /\ entries' = Append(entries, entry)
  /\ runs' = [runs EXCEPT ![Key(u)] = Len(entries) + 1]

CreateReturns(u) ==
  /\ At(u, "answered") /\ user[u].kind = "create" /\ Goto(u, "returned")
  /\ Remember(u, [run |-> user[u].run, exception |-> FALSE, ended |-> FALSE, usage |-> {}])
  /\ UNCHANGED <<provider, listed>>

\* The request fails, or the answer cannot be read: the entry is then that
\* of a failure, though there may be a run.
CreateFails(u) ==
  /\ At(u, "calling") \/ At(u, "answered")
  /\ user[u].kind = "create" /\ Goto(u, "raised")
  /\ Remember(u, [run |-> {}, exception |-> TRUE, ended |-> TRUE, usage |-> {}])
  /\ UNCHANGED <<provider, listed>>

-----------------------------------------------------------------------------
(* runs_retrieve_wrapper() *)

Retrieved(u) ==
  /\ At(u, "calling") /\ user[u].kind = "retrieve"
  /\ Goto(u, IF \E q \in user[u].run : provider[q].finished THEN "finished" ELSE "unfinished")
  /\ UNCHANGED <<runs, entries, provider, listed>>

\* process_response(), or the error: the run has an end time now.
Fetched(entry, usage, exception) ==
  [run |-> entry.run, exception |-> entry.exception \/ exception, ended |-> TRUE,
   usage |-> IF usage = {} THEN entry.usage ELSE usage]

\* (Fault: the usage goes to the entry that was made last.)
Update_Last(key, usage, exception) ==
  IF runs[key] = 0 THEN UNCHANGED entries
  ELSE entries' = [entries EXCEPT ![Len(entries)] = Fetched(@, usage, exception)]

\* Whatever run it was, the dictionary under the key is changed in place, if
\* there is one.
Update(key, usage, exception) ==
  IF runs[key] = 0 THEN UNCHANGED entries
  ELSE entries' = [entries EXCEPT ![runs[key]] = Fetched(@, usage, exception)]

\* The run is taken to have ended, finished or not.  Its thread is the one
\* the answer names.
RetrieveReturns(u) ==
  /\ At(u, "finished") \/ At(u, "unfinished")
  /\ Goto(u, "returned")
  /\ Update(<<user[u].thread>>, IF At(u, "finished") THEN user[u].run ELSE {}, FALSE)
  /\ UNCHANGED <<runs, provider, listed>>

\* A failure has no answer: the key is the one the call names.
RetrieveFails(u) ==
  /\ At(u, "calling") /\ user[u].kind = "retrieve" /\ Goto(u, "raised")
  /\ Update(Key(u), {}, TRUE)
  /\ UNCHANGED <<runs, provider, listed>>

-----------------------------------------------------------------------------
(* messages_list_wrapper() *)

ListFails(u) ==
  /\ At(u, "calling") /\ user[u].kind = "list" /\ Goto(u, "raised")
  /\ UNCHANGED <<runs, entries, provider, listed>>

\* The messages have come: without an entry they are only screened.
ListAnswers(u) ==
  /\ At(u, "calling") /\ user[u].kind = "list"
  /\ LET entry == runs[Key(u)]
     IN /\ user' = [user EXCEPT ![u] = [@ EXCEPT !.entry = entry,
                      !.pc = IF entry = 0 THEN "returned" ELSE "listing"]]
        /\ listed' = [listed EXCEPT ![u].on = entry # 0]
  /\ UNCHANGED <<runs, entries, provider>>

Failed(span) == [on |-> span.on, ends |-> span.ends + 1, status |-> "error",
                 usage |-> span.usage]

\* The span is written: an entry that tells a failure ends it.
ListWrites(u) ==
  /\ At(u, "listing")
  /\ LET entry == entries[user[u].entry]
     IN IF entry.exception
          THEN /\ listed' = [listed EXCEPT ![u] = Failed(@)]
               /\ Goto(u, "returned")
          ELSE /\ listed' = [listed EXCEPT ![u].usage = entry.usage]
               /\ Goto(u, "ending")
  /\ UNCHANGED <<runs, entries, provider>>

\* A message that begins with anything but text, or has no content: the
\* wrapper raises in the application, and nobody ends the span.
ListBreaks(u) ==
  /\ At(u, "listing") /\ ~entries[user[u].entry].exception
  /\ Goto(u, "broken")
  /\ UNCHANGED <<runs, entries, provider, listed>>

ListReturns(u) ==
  /\ At(u, "ending") /\ Goto(u, "returned")
  /\ listed' = [listed EXCEPT ![u].ends = @ + 1]
  /\ UNCHANGED <<runs, entries, provider>>

-----------------------------------------------------------------------------
Next ==
  \/ \E q \in Runs : ProviderFinishes(q)
  \/ \E u \in Users :
       \/ \E kind \in Kinds, named \in BOOLEAN : Begin(u, kind, named)
       \/ Created(u) \/ CreateReturns(u) \/ CreateFails(u)
       \/ Retrieved(u) \/ RetrieveReturns(u) \/ RetrieveFails(u)
       \/ ListFails(u) \/ ListAnswers(u) \/ ListWrites(u) \/ ListBreaks(u) \/ ListReturns(u)

Spec == Init /\ [][Next]_assistantRuns

-----------------------------------------------------------------------------
(* Properties. *)

TypeOK ==
  /\ runs \in [Keys -> 0..Len(entries)]
  /\ entries \in Seq([run : SUBSET Runs, exception : BOOLEAN, ended : BOOLEAN,
                      usage : SUBSET Runs])
  /\ provider \in [Runs -> [thread : SUBSET Threads, finished : BOOLEAN]]
  /\ user \in [Users -> [pc : {"idle", "calling", "answered", "returned", "raised", "finished",
                               "unfinished", "listing", "ending", "broken"},
                         kind : Kinds, thread : Threads, named : BOOLEAN,
                         run : SUBSET Runs, entry : 0..Len(entries)]]
  /\ listed \in [Users -> [on : BOOLEAN, ends : 0..1, status : {"unset", "error"},
                           usage : SUBSET Runs]]

\* The span of a list is ended once, except if a message stopped the wrapper;
\* it tells a failure only if a create or retrieve that named its thread in
\* the same way failed: of this thread, or by position of any.
ListsAccounted ==
  \A u \in Users :
    /\ listed[u].on => listed[u].ends = IF user[u].pc = "returned" THEN 1 ELSE 0
    /\ listed[u].status = "error" =>
         \E v \in Users : user[v].pc = "raised" /\ Key(v) = Key(u) /\ user[v].kind # "list"

\* The usage that a list tells is that of a finished run of the thread it
\* lists, whoever created, fetched and replaced entries meanwhile.
UsageOfThread ==
  \A u \in Users : \A q \in listed[u].usage :
    provider[q].finished /\ provider[q].thread = {user[u].thread}

-----------------------------------------------------------------------------
(* Claims that the code does not keep. *)

\* A list tells a failure of its own thread alone.
FailureOfThread ==
  \A u \in Users : listed[u].status = "error" =>
    \E v \in Users : user[v].pc = "raised" /\ user[v].thread = user[u].thread
                     /\ user[v].kind # "list"

\* The usage that an entry holds is that of its run.
UsageOfRun ==
  \A d \in DOMAIN entries : entries[d].usage \subseteq entries[d].run

\* A run that ended, ended (the span of a list ends at end_time).
EndedIsFinished ==
  \A d \in DOMAIN entries : \A q \in entries[d].run :
    entries[d].ended => provider[q].finished

\* A run is reported by one span.
ListedOnce ==
  \A u, v \in Users : (listed[u].on /\ listed[v].on /\ user[u].entry = user[v].entry) => u = v
=============================================================================
