----------------------------- MODULE SafetyStream -----------------------------
(***************************************************************************)
(* Screening of a streamed completion: CompletionSafetyStream              *)
(* (fortifyroot/_internal/safety/streaming.py) as it is driven by          *)
(* BoundCompletionSafetyStream of the vendored instrumentation, one        *)
(* operation per action.  The provider sends any text in any chunks and    *)
(* flushes at the end.                                                     *)
(*                                                                         *)
(* The pending text is always the end of what was received, from           *)
(* _pending_offset on, so the model keeps the received text and the        *)
(* offset.  What is returned to the application is kept as a sequence of   *)
(* blocks of received positions, with the positions that were masked.      *)
(***************************************************************************)
EXTENDS SafetyEngine

CONSTANTS MaxText,     \* bound: length of the whole text
          MaxChunk,    \* bound: length of a chunk
          Sizes,       \* the pairs [holdback, cap] to start with
          MayRaise     \* can the evaluation raise (a UDF detector's iterator)?

ASSUME BoundsAssumption == MaxText \in Nat /\ MaxChunk \in Nat
ASSUME SizesAssumption == \A z \in Sizes : z.holdback \in Nat /\ z.cap \in Nat \ {0}

VARIABLES
  holdback,  \* holdback_chars
  cap,       \* max_pending_chars
  text,      \* everything received so far
  offset,    \* _pending_offset
  blocks,    \* what the application was given, in order
  reports,   \* findings emitted on the span, in positions of the stream
  forced,    \* history: a finding was cut off at the cap
  raised,    \* history: an evaluation raised
  flushed    \* the provider's stream has ended

streamVars == <<holdback, cap, text, offset, blocks, reports, forced, raised, flushed>>

Larger(a, b) == IF a > b THEN a ELSE b
Chunks == UNION {[1..n -> Alphabet] : n \in 1..MaxChunk}
Pending(all) == SubSeq(all, offset + 1, Len(all))

\* __post_init__(): the cap is at least the holdback.
StreamInit ==
  /\ \E z \in Sizes : holdback = z.holdback /\ cap = Larger(z.cap, z.holdback)
  /\ text = <<>> /\ offset = 0
  /\ blocks = <<>> /\ reports = {}
  /\ forced = FALSE /\ raised = FALSE /\ flushed = FALSE

\* (Fault: a finding that crosses the boundary does not move it.)
ReleaseBoundary_Fixed(n, findings) == Larger(n - holdback, 0)

\* _resolve_release_boundary(): once, to the first of the findings that cross.
ReleaseBoundary(n, findings) ==
  LET boundary == n - holdback
      crossing == {f.start : f \in {g \in findings : g.end > boundary}}
  IN  IF boundary <= 0 THEN 0
      ELSE IF crossing = {} THEN boundary
      ELSE CHOOSE s \in crossing : \A o \in crossing : s <= o

\* (Fault: nothing is released by force.)
ForcedBoundary_Never(n) == 0

\* _resolve_forced_release_boundary()
ForcedBoundary(n) == IF n <= cap THEN 0 ELSE n - cap

\* (Fault: a finding that goes on behind the cap is not cut off.)
Finalized_NotCut(findings, boundary, force) ==
  {f \in findings : f.end <= boundary \/ (force /\ f.start < boundary)}

\* _finalize_local_findings()
Finalized(findings, boundary, force) ==
  {f \in findings : f.end <= boundary}
  \cup (IF force
          THEN {[f EXCEPT !.end = boundary] :
                  f \in {g \in findings : g.start < boundary
                                          /\ g.end > boundary}}
          ELSE {})

\* (Fault: findings are reported in positions of the pending text.)
Absolute_Local(f) == f

Absolute(f) == [f EXCEPT !.start = f.start + offset, !.end = f.end + offset]

\* (Fault: the offset does not move with the text.)
Deliver_KeepsOffset(n, masked) ==
  /\ blocks' = Append(blocks, [from |-> offset, to |-> offset + n,
                               masked |-> {offset + i : i \in masked}])
  /\ offset' = offset

\* The first n pending characters go to the application.
Deliver(n, masked) ==
  /\ blocks' = Append(blocks, [from |-> offset, to |-> offset + n,
                               masked |-> {offset + i : i \in masked}])
  /\ offset' = offset + n

\* _release()
Release(n, findings, force) ==
  LET final == Finalized(findings, n, force)
  IN  /\ Deliver(n, MaskedPositions(n, final))
      /\ reports' = reports \cup {Absolute(f) : f \in final}
      /\ forced' = (forced \/ final # Finalized(findings, n, FALSE))

\* process_chunk() of both classes, the chunk not empty.
ProcessChunk(chunk) ==
  LET all == text \o chunk
      n == Len(Pending(all))
      findings == Evaluate(Pending(all))
      boundary == ReleaseBoundary(n, findings)
      force == ForcedBoundary(n) > boundary
      release == Larger(ForcedBoundary(n), boundary)
  IN  /\ ~flushed /\ Len(all) <= MaxText
      /\ text' = all
      /\ IF release = 0 THEN UNCHANGED <<offset, blocks, reports, forced>>
         ELSE Release(release, findings, force)
      /\ UNCHANGED <<holdback, cap, raised, flushed>>

\* The evaluation raises when the chunk is part of the pending text already:
\* the bound stream returns the chunk as it came.
ProcessChunkRaises(chunk) ==
  /\ MayRaise /\ ~flushed /\ Len(text \o chunk) <= MaxText
  /\ text' = text \o chunk
  /\ blocks' = Append(blocks, [from |-> Len(text), to |-> Len(text \o chunk),
                               masked |-> {}])
  /\ raised' = TRUE
  /\ UNCHANGED <<holdback, cap, offset, reports, forced, flushed>>

Flush ==
  LET n == Len(Pending(text))
  IN  /\ ~flushed /\ flushed' = TRUE
      /\ IF n = 0 THEN UNCHANGED <<offset, blocks, reports, forced>>
         ELSE Release(n, Evaluate(Pending(text)), FALSE)
      /\ UNCHANGED <<holdback, cap, text, raised>>

\* (Fault: the pending text is dropped.)
FlushRaises_Drops ==
  /\ MayRaise /\ ~flushed /\ Pending(text) # <<>>
  /\ flushed' = TRUE /\ raised' = TRUE
  /\ UNCHANGED <<holdback, cap, text, offset, blocks, reports, forced>>

\* flush() of the session raises: the pending text is returned unscreened,
\* and stays pending.
FlushRaises ==
  /\ MayRaise /\ ~flushed /\ Pending(text) # <<>>
  /\ flushed' = TRUE
  /\ blocks' = Append(blocks, [from |-> offset, to |-> Len(text),
                               masked |-> {}])
  /\ raised' = TRUE
  /\ UNCHANGED <<holdback, cap, text, offset, reports, forced>>

StreamNext ==
  \/ \E chunk \in Chunks : ProcessChunk(chunk) \/ ProcessChunkRaises(chunk)
  \/ Flush \/ FlushRaises

StreamSpec == StreamInit /\ [][StreamNext]_streamVars

-----------------------------------------------------------------------------
(* Properties. *)

Masked == UNION {blocks[k].masked : k \in DOMAIN blocks}
Delivered == UNION {blocks[k].from..(blocks[k].to - 1) : k \in DOMAIN blocks}

\* Every variable has its type; a block is a piece of what was received; and
\* the text held back never exceeds the cap, however long the findings that
\* hold the boundary back.
StreamTypeOK ==
  /\ holdback \in Nat /\ cap \in Nat /\ cap >= holdback
  /\ text \in Seq(Alphabet) /\ Len(text) <= MaxText
  /\ offset \in 0..Len(text)
  /\ \A k \in DOMAIN blocks :
       /\ 0 <= blocks[k].from /\ blocks[k].from < blocks[k].to
       /\ blocks[k].to <= Len(text)
       /\ blocks[k].masked \subseteq blocks[k].from..(blocks[k].to - 1)
  /\ forced \in BOOLEAN /\ raised \in BOOLEAN /\ flushed \in BOOLEAN
  /\ ~raised => Len(Pending(text)) <= cap

\* The holdback is as long as any beginning of a value that may be pending.
HoldbackFits ==
  \A r \in Rules : \A k \in DOMAIN r.values : holdback >= Len(r.values[k]) - 1

\* Does a holdback that fits the rules, and no accident, apply?
Regular == ~raised /\ ~forced /\ HoldbackFits

Overlap(f, g) == f # g /\ SpanOf(f) \cap SpanOf(g) # {}

\* A match that no other occurrence of a value in the text overlaps is masked
\* as a whole when its rule says MASK, wherever the provider cuts the text
\* into chunks.  (An occurrence that the scan of the whole text passes over
\* may be a finding of the pending text, and hold the boundary inside f.)
IsolatedMatchesMasked ==
  Regular =>
    \A f \in MaskSegments(Evaluate(text)) :
      (\A g \in Occurrences(text) : ~Overlap(f, g))
        => SpanOf(f) \cap Delivered \subseteq Masked

Plain(all) ==
  /\ \A f, g \in Evaluate(all) : ~Overlap(f, g)
  /\ \A r \in Rules : Cardinality(AllFindings(r, all)) <= MaxMatches

\* If no matches overlap and no rule has too many, the stream as a whole masks
\* and reports what one evaluation of the whole text does: chunks make no
\* difference, and no finding is reported at another place.
StreamAgreesWithWhole ==
  Regular /\ flushed /\ Plain(text) =>
    /\ Masked = MaskedPositions(Len(text), Evaluate(text))
    /\ reports = Evaluate(text)

\* Nothing is masked that is not part of an occurrence of a MASK rule's value
\* in the text as it was sent, and a masked position is always reported.
OnlyMatchesMasked ==
  \A i \in Masked :
    /\ \E r \in {q \in Rules : q.action = "MASK"} :
         \E k \in DOMAIN r.values, s \in 0..i :
           OccursAt(text, r.values[k], s) /\ i < s + Len(r.values[k])
    /\ \E f \in MaskSegments(reports) : i \in SpanOf(f)

Promised == INSTANCE TextSession WITH
  received <- Len(text), delivered <- Delivered, masked <- Masked,
  intact <- ~raised, finished <- flushed

\* The session keeps the promise its users rely on: the text comes back as a
\* growing beginning of what was sent, nothing handed out is rewritten, the
\* flush hands out the rest, and a failed evaluation loses nothing.  Nor is it
\* kept waiting: what is held back never exceeds the cap, however long the
\* findings that hold the boundary back.
KeepsPromise == Promised!Spec /\ [](~raised => Len(Pending(text)) <= cap)

(* Claims of the repository that the code does not keep. *)

\* Masking comes before the text is returned to the application: a position
\* that the engine masks in the text received so far is not delivered as it
\* is.  The boundary is pulled back once, to the start of a finding that
\* crosses it, and may end up inside another finding.
MaskedBeforeDelivery ==
  Regular =>
    MaskedPositions(Len(text), Evaluate(text)) \cap Delivered \subseteq Masked

\* flush() returns the remaining text, so no character is returned twice.
RemainingTextOnce ==
  \A j, k \in DOMAIN blocks : j < k => blocks[j].to <= blocks[k].from
=============================================================================
