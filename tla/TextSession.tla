------------------------------ MODULE TextSession ------------------------------
(***************************************************************************)
(* What a streaming safety session promises to the wrappers that use it    *)
(* (the protocol CompletionSafetyStreamSession of the vendored             *)
(* instrumentation, fortifyroot/streaming.py), without saying how: the     *)
(* text comes back as a growing beginning of what was put in, what was     *)
(* handed out is never rewritten, and the flush hands out the rest.        *)
(*                                                                         *)
(* After an evaluation failed (intact is FALSE) only this is left of it:   *)
(* no character is lost.  SafetyStream implements this module;             *)
(* ProviderStreams is built on it.                                         *)
(***************************************************************************)
EXTENDS Integers, FiniteSets

VARIABLES
  received,   \* number of characters put in
  delivered,  \* positions handed out, screened or not
  masked,     \* positions handed out as a mask
  intact,     \* no evaluation has failed
  finished    \* the session was flushed

session == <<received, delivered, masked, intact, finished>>

Beginning(n) == 0..(n - 1)

Init == /\ received = 0 /\ delivered = {} /\ masked = {}
        /\ intact = TRUE /\ finished = FALSE

\* What a call may hand out.
HandOut ==
  /\ delivered \subseteq delivered' /\ delivered' \subseteq Beginning(received')
  /\ masked \subseteq masked' /\ masked' \subseteq delivered'
  /\ intact' =>
       /\ intact
       /\ \E n \in 0..received' : delivered' = Beginning(n)
       /\ masked' \cap delivered = masked

\* process_chunk(): nothing has to be handed out yet.
Process == /\ ~finished /\ finished' = FALSE
           /\ received' > received
           /\ HandOut

\* flush(): everything is.
Flush == /\ ~finished /\ finished' = TRUE
         /\ received' = received
         /\ HandOut
         /\ delivered' = Beginning(received)

Next == Process \/ Flush

Spec == Init /\ [][Next]_session
=============================================================================
