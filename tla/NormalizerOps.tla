---------------------------- MODULE NormalizerOps ----------------------------
(***************************************************************************)
(* ScanView of src/detector.rs: a text in the form the detectors read,     *)
(* with, for each of its bytes, the span of the source it comes from.      *)
(*                                                                         *)
(* A view is a sequence of records [byte, start, end]: the zip of text and *)
(* source_by_byte, which the code always pushes to together.  A byte is a  *)
(* symbol.  Besides those that stand for themselves there are:             *)
(*   nl, sp        a line end (LF or CR LF), a space or tab                *)
(*   zw, fw, lig   one character each: an invisible control, one that NFKC *)
(*                 maps to a full stop, one that NFKC makes eleven times   *)
(*                 longer (U+FDFA: 3 bytes, then 33)                       *)
(*   C3, A9        the two bytes of one character, which only together are *)
(*                 valid UTF-8                                             *)
(*   h2e, h5c ...  two hexadecimal digits: what may follow "%"             *)
(*   u002e ...     "u" and four digits: what may follow "\"                *)
(*   x, n          other token bytes; n may also follow "\"                *)
(*                                                                         *)
(* A definition whose name ends in "Bug" is a faulty variant of the one    *)
(* that follows it.  Nothing uses it: it is what that operation would be   *)
(* with one plausible mistake, kept to show that a property notices it.    *)
(***************************************************************************)
EXTENDS Integers, Sequences, FiniteSetsExt, SequencesExt

\* What "%" and the given pair of digits decode to.
HexPair ==
  [h2e |-> ".", h5c |-> "\\", h25 |-> "%", h6e |-> "n", hC3 |-> "C3",
   hA9 |-> "A9"]

\* What "\" and the given tail decode to.
Escape ==
  [u002e |-> <<".">>, u0025 |-> <<"%">>, u005c |-> <<"\\">>, u200b |-> <<"zw">>,
   uff0e |-> <<"fw">>, ufdfa |-> <<"lig">>, u00e9 |-> <<"C3", "A9">>,
   n |-> <<"nl">>]

EscapeTail == DOMAIN Escape \cup {"\\"}

\* The bytes of a text.
Symbol ==
  {"x", ".", "\\", "%", "nl", "sp", "zw", "fw", "lig", "C3", "A9"}
    \cup DOMAIN HexPair \cup DOMAIN Escape

decode_escape(tail) == IF tail = "\\" THEN <<"\\">> ELSE Escape[tail]

is_token_byte(byte) ==
  byte \notin {".", "\\", "%", "nl", "sp", "zw", "fw", "lig", "C3", "A9"}

is_invisible_control(byte) == byte = "zw"

\* NFKC of one character, given as the sequence of its bytes.
nfkc(character) ==
  CASE character = <<"fw">>  -> <<".">>
    [] character = <<"lig">> -> [i \in 1..11 |-> "x"]
    [] OTHER                 -> character

ByteAt(view, i) == IF i \in DOMAIN view THEN view[i].byte ELSE "none"

\* Every lead byte has its continuation, every continuation its lead.
ValidUtf8(view) ==
  \A i \in 1..Len(view) + 1 : ByteAt(view, i) = "A9" <=> ByteAt(view, i - 1) = "C3"

-----------------------------------------------------------------------------

combined_sourceBug(view, from, to) ==   \* as if a byte came from one byte
  [start |-> view[from].start, end |-> view[to].start + 1]

\* Both ends are indices into the view; the span is half-open.
combined_source(view, from, to) ==
  [start |-> Min({view[i].start : i \in from..to}),
   end   |-> Max({view[i].end : i \in from..to})]

append_with_source(bytes, source) ==
  [i \in DOMAIN bytes |->
     [byte |-> bytes[i], start |-> source.start, end |-> source.end]]

(* Each transform reads its view unit by unit.  A unit at index i says how *)
(* many bytes it takes and what it writes for them.                        *)
Kept(view, i) == [width |-> 1, out |-> <<view[i]>>]

Decoded(view, i, width, bytes) ==
  [width |-> width,
   out   |-> append_with_source(bytes, combined_source(view, i, i + width - 1))]

Rewrite(view, unit) ==
  LET from[i \in 1..Len(view) + 1] ==
        IF i > Len(view) THEN <<>> ELSE unit[i].out \o from[i + unit[i].width]
  IN  from[1]

CharacterUnit(view, i) ==
  LET width     == IF view[i].byte = "C3" THEN 2 ELSE 1
      character == [k \in 1..width |-> view[i + k - 1].byte]
  IN  IF is_invisible_control(view[i].byte)
      THEN [width |-> width, out |-> <<>>]
      ELSE Decoded(view, i, width, nfkc(character))

\* A backslash, a line end and the blanks that follow it.
ContinuationUnit(view, i) ==
  IF ByteAt(view, i) = "\\" /\ ByteAt(view, i + 1) = "nl"
  THEN LET end == CHOOSE k \in i + 2..Len(view) + 1 :
                    /\ ByteAt(view, k) # "sp"
                    /\ \A m \in i + 2..k - 1 : ByteAt(view, m) = "sp"
       IN  [width |-> end - i, out |-> <<>>]
  ELSE Kept(view, i)

remove_structural_continuations(view) ==
  Rewrite(view, [i \in DOMAIN view |-> ContinuationUnit(view, i)])

canonicalize(view) ==
  remove_structural_continuations(
    Rewrite(view, [i \in DOMAIN view |-> CharacterUnit(view, i)]))

JsonUnit(view, i) ==
  IF ByteAt(view, i) = "\\" /\ ByteAt(view, i + 1) \in EscapeTail
  THEN Decoded(view, i, 2, decode_escape(ByteAt(view, i + 1)))
  ELSE Kept(view, i)

decode_json_escapes(view) ==
  Rewrite(view, [i \in DOMAIN view |-> JsonUnit(view, i)])

PercentUnit(view, i) ==
  IF ByteAt(view, i) = "%" /\ ByteAt(view, i + 1) \in DOMAIN HexPair
  THEN Decoded(view, i, 2, <<HexPair[ByteAt(view, i + 1)]>>)
  ELSE Kept(view, i)

decode_percent_encoding(view) ==
  Rewrite(view, [i \in DOMAIN view |-> PercentUnit(view, i)])

CollapseUnit(view, i) ==
  IF /\ ByteAt(view, i) = "."
     /\ i - 1 \in DOMAIN view /\ is_token_byte(ByteAt(view, i - 1))
     /\ i + 1 \in DOMAIN view /\ is_token_byte(ByteAt(view, i + 1))
  THEN [width |-> 1, out |-> <<>>]
  ELSE Kept(view, i)

collapse_candidate_separators(view) ==
  Rewrite(view, [i \in DOMAIN view |-> CollapseUnit(view, i)])

\* The source as it stands: each byte comes from itself.
Raw(source) ==
  [i \in DOMAIN source |-> [byte |-> source[i], start |-> i - 1, end |-> i]]

(* normalize does to the characters of the source what canonicalize does   *)
(* to those of a view.                                                     *)
normalize(source) == canonicalize(Raw(source))

=============================================================================
