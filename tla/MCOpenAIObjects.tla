---------------------------- MODULE MCOpenAIObjects ----------------------------
(* Instances of OpenAIObjects for TLC:                                       *)
(*   - three calls and two responses, one created, fetched or continued by   *)
(*     another call while a third one cancels or fetches it;                 *)
(*   - three calls, two runs, two threads of messages;                       *)
(*   - a connection with two responses of two pieces, and two spans;         *)
(*   - a stream of two messages of up to two texts of two pieces.            *)
EXTENDS OpenAIObjects, TLC

\* The users are the calls, and the runs have the identifiers of the
\* responses: what is permuted in one part is permuted in the other.
Symmetric == Permutations(Calls) \cup Permutations(Ids)
=============================================================================
