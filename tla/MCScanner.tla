------------------------------ MODULE MCScanner ------------------------------
(***************************************************************************)
(* Small instance of Scanner for TLC: one class per action and two that    *)
(* are both tokenized; every short text, and longer ones for what they     *)
(* cannot show.                                                            *)
(***************************************************************************)
EXTENDS Scanner

MCActionOf ==
  [key |-> "block", phone |-> "mask", email |-> "tokenize",
   host |-> "tokenize", owned |-> "allow"]

MarkUp == {"x", ".", "\\", "%", "h25", "h5c", "nl", "zw"}

AnyText ==
  BoundedSeq(MarkUp, 4)
    \cup BoundedSeq(MarkUp \cup {"n", "sp", "fw", "lig", "hC3", "u002e"}, 3)

\* Parts that collapse, and that decode at each of two layers.
Dotted      == <<"x", ".", "x">>
Backslashes == <<"\\", "\\", "\\", "\\">>
Percents    == <<"%", "h25", "h25", "h25">>
\* Decodes one way only if the percent sign is decoded first.
Mixed       == <<"\\", "%", "h5c", "n">>

LongText ==
  {Dotted \o Backslashes \o Percents,            \* twelve views, the limit
   Dotted \o Backslashes \o Percents \o Mixed,   \* fourteen, refused
   Backslashes \o Percents \o Mixed,
   <<"\\", "ufdfa">>,                            \* outgrows its source
   <<"lig", ".", "\\", "ufdfa">>,
   <<"C3", "A9", ".", "%", "hC3", "%", "hA9", "\\", "u00e9">>,
   <<"x", "\\", "uff0e", "fw", "x", "fw", "n", "%", "h2e", "x">>,
   <<"x", "\\", "u005c", "nl", "sp", "sp", "x", "%", "h5c", "nl", "sp", "n">>,
   <<"\\", "\\", "u200b", "x", "%", "h25", "h6e">>}

MCTexts ==
  {[source |-> s, max_findings |-> 0] : s \in AnyText \cup LongText}
    \cup {[source |-> <<"x", "x", "x", "x">>, max_findings |-> 3]}
    \cup {[source |-> <<"x", "\\", "u002e", "n">>, max_findings |-> 2]}

=============================================================================
