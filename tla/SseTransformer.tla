---------------------------- MODULE SseTransformer ----------------------------
(***************************************************************************)
(* src/sse.rs: the transformer that cuts the upstream byte stream into SSE *)
(* frames and restores tokens in display events, fed by the relay loop of  *)
(* src/gateway.rs with whatever chunks the transport delivers.             *)
(*                                                                         *)
(* Bytes are abstracted to what the code tells apart: the line feed and    *)
(* carriage return that end frames, a token to restore, a byte that makes  *)
(* the event one whose text is never restored (a tool argument, an unknown *)
(* type, [DONE]), and a byte that makes transform_frame fail (bad UTF-8 or *)
(* JSON, two data lines, a missing or mismatched type).                    *)
(*                                                                         *)
(* A definition whose name ends in "Bug" is a faulty variant of the one    *)
(* that follows it.  Nothing uses it: it is what that operation would be   *)
(* with one plausible mistake, kept to show that a property notices it.    *)
(***************************************************************************)
EXTENDS Integers, Sequences, SequencesExt

CONSTANTS
  MaxEventBytes,  \* MAX_SSE_EVENT_BYTES
  MaxChunk,       \* bound: bytes per transport chunk
  MaxStream       \* bound: bytes per response

ASSUME SseAssumption ==
  MaxEventBytes \in Nat /\ MaxChunk \in Nat \ {0} /\ MaxStream \in Nat

VARIABLES
  stream,   \* history: every byte the upstream has sent
  buffer,   \* SseTransformer::buffer
  out,      \* frames passed on to the client
  status    \* "open", "failed" (the body ends in an error) or "ended"

vars == <<stream, buffer, out, status>>

Byte == {"LF", "CR", "token", "opaque", "bad"}
Whitespace == {"LF", "CR"}
Chunk == UNION {[1..n -> Byte] : n \in 1..MaxChunk}

At(bytes, i, pattern) ==
  /\ i + Len(pattern) - 1 <= Len(bytes)
  /\ SubSeq(bytes, i, i + Len(pattern) - 1) = pattern

LfLf == <<"LF", "LF">>
CrLfCrLf == <<"CR", "LF", "CR", "LF">>

(* find_frame_end tries each index from the left, "\n\n" first; 0 is None. *)
FrameStarts(bytes) ==
  {i \in DOMAIN bytes : At(bytes, i, LfLf) \/ At(bytes, i, CrLfCrLf)}

find_frame_endBug(bytes) ==   \* CRLF CRLF cut one byte short
  IF FrameStarts(bytes) = {} THEN 0
  ELSE LET i == Min(FrameStarts(bytes))
       IN  IF At(bytes, i, LfLf) THEN i + 1 ELSE i + 2

find_frame_end(bytes) ==
  IF FrameStarts(bytes) = {} THEN 0
  ELSE LET i == Min(FrameStarts(bytes))
       IN  IF At(bytes, i, LfLf) THEN i + 1 ELSE i + 3

Broken(frame) == Contains(frame, "bad")

transform_frame(frame) ==
  IF Contains(frame, "opaque") THEN frame
  ELSE [i \in DOMAIN frame |->
          IF frame[i] = "token" THEN "value" ELSE frame[i]]

(* One round of the drain loop of push: the next frame is cut off the      *)
(* buffer and transformed; `?` leaves the loop at one that fails.          *)
Drain(acc) ==
  LET end   == find_frame_end(acc.buffer)
      frame == SubSeq(acc.buffer, 1, end)
  IN  IF acc.failed \/ end = 0 THEN acc
      ELSE [buffer  |-> SubSeq(acc.buffer, end + 1, Len(acc.buffer)),
            frames  |-> IF Broken(frame) THEN acc.frames
                        ELSE Append(acc.frames, transform_frame(frame)),
            failed  |-> Broken(frame)]

(* The loop: a round takes bytes away or is the last, so there are no more *)
(* rounds than bytes.                                                      *)
Drained(bytes) ==
  LET after[n \in 0..Len(bytes)] ==
        IF n = 0 THEN [buffer |-> bytes, frames |-> <<>>, failed |-> FALSE]
        ELSE Drain(after[n - 1])
  IN  after[Len(bytes)]

Init ==
  /\ stream = <<>> /\ buffer = <<>> /\ out = <<>>
  /\ status = "open"

OversizeBug(bytes) == FALSE   \* no limit

Oversize(bytes) == Len(bytes) > MaxEventBytes /\ find_frame_end(bytes) = 0

(* One chunk: on an error the frames already cut from it are dropped with  *)
(* it, and the relay stops.                                                *)
Push(chunk) ==
  /\ status = "open"
  /\ Len(stream) + Len(chunk) <= MaxStream
  /\ stream' = stream \o chunk
  /\ LET bytes == buffer \o chunk
         d     == Drained(bytes)
     IN  IF Oversize(bytes) \/ d.failed
         THEN /\ status' = "failed"
              /\ buffer' = <<>>
              /\ UNCHANGED out
         ELSE /\ buffer' = d.buffer
              /\ out' = out \o d.frames
              /\ UNCHANGED status

FinishBug ==   \* the remainder is not looked at
  /\ status = "open"
  /\ status' = "ended"
  /\ UNCHANGED <<stream, buffer, out>>

(* The upstream closes the stream.                                         *)
Finish ==
  /\ status = "open"
  /\ status' = IF \A i \in DOMAIN buffer : buffer[i] \in Whitespace
               THEN "ended" ELSE "failed"
  /\ UNCHANGED <<stream, buffer, out>>

(* The transport fails in the middle of the body.                          *)
TransportError ==
  /\ status = "open"
  /\ status' = "failed"
  /\ UNCHANGED <<stream, buffer, out>>

Next == (\E chunk \in Chunk : Push(chunk)) \/ Finish \/ TransportError

Spec == Init /\ [][Next]_vars

-----------------------------------------------------------------------------

(* The type invariant: the buffer holds bytes of the stream, never output. *)
TypeOK ==
  /\ stream \in Seq(Byte) /\ Len(stream) <= MaxStream
  /\ buffer \in Seq(Byte)
  /\ status \in {"open", "failed", "ended"}

(* Reference: the frames of a whole stream, cut at the byte that completes *)
(* a blank line, without regard to chunks.                                 *)
Completes(bytes, from, p) ==
  \/ p - 1 >= from /\ SubSeq(bytes, p - 1, p) = LfLf
  \/ p - 3 >= from /\ SubSeq(bytes, p - 3, p) = CrLfCrLf

(* The frames that are complete at position p, and where the next begins.  *)
CutAt(bytes, p) ==
  LET cut[q \in 0..p] ==
        IF q = 0 THEN [from |-> 1, frames |-> <<>>]
        ELSE IF Completes(bytes, cut[q - 1].from, q)
        THEN [from |-> q + 1,
              frames |-> Append(cut[q - 1].frames,
                                SubSeq(bytes, cut[q - 1].from, q))]
        ELSE cut[q - 1]
  IN  cut[p]

Cut(bytes) == CutAt(bytes, Len(bytes))

Rendered(bytes) ==
  LET frames == Cut(bytes).frames
  IN  [i \in DOMAIN frames |-> transform_frame(frames[i])]

(* What the client has received never depends on how the transport cut the *)
(* stream: it is a prefix, in order, of the stream's own frames, none of   *)
(* them broken, and while the relay is open it is all of them.             *)
ChunkingInvisible ==
  LET frames == Cut(stream).frames
  IN  /\ IsPrefix(out, Rendered(stream))
      /\ \A i \in DOMAIN out : ~Broken(frames[i])
      /\ status # "failed" => Len(out) = Len(frames)

(* A response that ends well was delivered whole: what is left over after  *)
(* its last frame is blank.                                                *)
CleanEndIsComplete ==
  status = "ended" =>
    /\ out = Rendered(stream)
    /\ \A i \in Cut(stream).from..Len(stream) : stream[i] \in Whitespace

(* Memory: what stays buffered between chunks is bounded by the event      *)
(* limit or by one chunk, whichever is larger.                             *)
BufferBounded ==
  Len(buffer) <= IF MaxEventBytes > MaxChunk THEN MaxEventBytes ELSE MaxChunk

=============================================================================
