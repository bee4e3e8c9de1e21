---------------------------- MODULE ScannerProofs ----------------------------
(***************************************************************************)
(* Proofs about a scan, for every text, every set of matches, every number *)
(* of decode layers and every limit: the spans handed over are disjoint,   *)
(* ascending, on whole characters, no weaker than any finding in them and  *)
(* made of findings only; no composed form of the text is skipped; and the *)
(* source span of any match in any view still shows the match when it is   *)
(* read alone, so that replacing it leaves nothing of the match.           *)
(*                                                                         *)
(* The spans need VInv: every view keeps a source map to whole characters  *)
(* of the text, through any composition of the transforms.  Rewrite is     *)
(* recursive; RewriteIs follows it by induction from the end of the view,  *)
(* given for each transform that a unit of it keeps to the map.            *)
(*                                                                         *)
(* The forms need XInv: the queue is breadth first, so whatever was looked *)
(* at took no more decodings than what is queued (Explored), and a view    *)
(* dropped as already seen could not have led to anything new.             *)
(*                                                                         *)
(* The matches are followed back, decoding by decoding.  In every view the *)
(* bytes come from the source in order, and only the two bytes of one      *)
(* character share theirs (Ordered).  A match lies in a run, a part that   *)
(* has its source for itself, with the same span (RunAround).  A transform *)
(* looks at few bytes around the one it is at, so it makes of the run that *)
(* a run came from, taken alone, the same bytes again (RunPulls, and one   *)
(* lemma for each transform).  At the source itself the run is the span.   *)
(***************************************************************************)
EXTENDS Scanner, OpsProofs

-----------------------------------------------------------------------------
(* Views.                                                                  *)

\* The cells of a view whose bytes come from spans between positions in P.
Cell(P) == {c \in [byte : Symbol, start : P, end : P] : c.start < c.end}

View(P) == Seq(Cell(P))

\* The fields of a cell.
LEMMA CellFields ==
  ASSUME NEW P \in SUBSET Nat, NEW view \in View(P)
  PROVE  /\ Len(view) \in Nat /\ DOMAIN view = 1..Len(view)
         /\ \A i \in DOMAIN view :
              /\ view[i] \in Cell(P)
              /\ view[i].byte \in Symbol
              /\ view[i].start \in P /\ view[i].end \in P
              /\ view[i].start \in Nat /\ view[i].end \in Nat
              /\ view[i].start < view[i].end
<1>1. /\ Len(view) \in Nat /\ DOMAIN view = 1..Len(view)
      /\ \A i \in DOMAIN view : view[i] \in Cell(P)
  BY DEF View
<1>2. \A c \in Cell(P) : /\ c.byte \in Symbol /\ c.start \in P /\ c.end \in P
                         /\ c.start \in Nat /\ c.end \in Nat /\ c.start < c.end
  BY DEF Cell
<1> QED BY <1>1, <1>2

\* A nonempty part of a view has a last end.
LEMMA GreatestEnd ==
  ASSUME NEW f, NEW a \in Nat, NEW b \in Nat, a <= b, \A i \in a..b : f[i] \in Nat
  PROVE  \E i \in a..b : \A j \in a..b : f[j] <= f[i]
<1> DEFINE Bad == {n \in a..b : ~\E i \in a..n : \A j \in a..n : f[j] <= f[i]}
<1>1. Bad = {}
  <2> SUFFICES ASSUME Bad # {} PROVE FALSE
    OBVIOUS
  <2>1. PICK n \in Bad : \A m \in Bad : n <= m
    <3>1. Bad \in SUBSET Nat
      OBVIOUS
    <3> HIDE DEF Bad
    <3> QED BY <3>1, LeastNatural
  <2>2. CASE n = a
    <3>1. \A j \in a..n : f[j] <= f[a]
      BY <2>2
    <3> QED BY <2>1, <2>2, <3>1
  <2>3. CASE n # a
    <3>0. n \in a..b
      OBVIOUS
    <3>1. n - 1 \in a..b /\ n - 1 \notin Bad
      <4>1. n - 1 \in a..b /\ n - 1 \in Nat /\ ~(n <= n - 1)
        BY <2>3, <3>0
      <4> HIDE DEF Bad
      <4> QED BY <2>1, <4>1
    <3>2. PICK i \in a..n - 1 : \A j \in a..n - 1 : f[j] <= f[i]
      BY <3>1
    <3>3. /\ f[n] \in Nat /\ f[i] \in Nat /\ i \in a..n /\ n \in a..n
          /\ \A j \in a..n : f[j] \in Nat /\ (j \in a..n - 1 \/ j = n)
      BY <2>1, <3>1, <3>2
    <3>4. CASE f[n] <= f[i]
      BY <2>1, <3>2, <3>3, <3>4
    <3>5. CASE f[i] <= f[n]
      <4>1. \A j \in a..n : f[j] <= f[n]
        BY <3>2, <3>3, <3>5
      <4> QED BY <2>1, <3>3, <4>1
    <3> QED BY <3>3, <3>4, <3>5
  <2> QED BY <2>2, <2>3
<1>2. b \notin Bad
  BY <1>1
<1> QED BY <1>2

\* combined_source spans the sources of its part of the view, and no more.
LEMMA CombinedSource ==
  ASSUME NEW P \in SUBSET Nat, NEW view \in View(P),
         NEW from \in DOMAIN view, NEW to \in DOMAIN view, from <= to
  PROVE  LET span == combined_source(view, from, to)
         IN  /\ span.start \in P /\ span.end \in P /\ span.start < span.end
             /\ \A i \in from..to : /\ span.start <= view[i].start
                                    /\ view[i].end <= span.end
             /\ \E i \in from..to : span.start = view[i].start
             /\ \E i \in from..to : span.end = view[i].end
<1> DEFINE starts == {view[i].start : i \in from..to}
           ends == {view[i].end : i \in from..to}
           e == [i \in from..to |-> view[i].end]
<1>1. /\ from \in Nat /\ to \in Nat /\ from..to \subseteq DOMAIN view
      /\ \A i \in from..to : /\ view[i].start \in P /\ view[i].end \in P
                             /\ view[i].start \in Nat /\ view[i].end \in Nat
                             /\ view[i].start < view[i].end
  BY CellFields
<1>2. starts \in SUBSET Nat /\ starts \subseteq P /\ view[from].start \in starts
  BY <1>1
<1>3. Min(starts) \in starts /\ \A s \in starts : Min(starts) <= s
  <2>1. \E s \in starts : \A t \in starts : s <= t
    <3> HIDE DEF starts
    <3> QED BY <1>2, LeastNatural
  <2> QED BY <2>1 DEF Min
<1>4. PICK k \in from..to : \A j \in from..to : e[j] <= e[k]
  <2>1. \A i \in from..to : e[i] \in Nat
    BY <1>1
  <2> HIDE DEF e
  <2> QED BY <1>1, <2>1, GreatestEnd
<1>5. Max(ends) \in ends /\ \A s \in ends : s <= Max(ends)
  <2>1. view[k].end \in ends /\ \A s \in ends : view[k].end >= s
    BY <1>1, <1>4
  <2>2. Max(ends) \in ends /\ \A s \in ends : Max(ends) >= s
    BY <2>1 DEF Max
  <2>3. ends \subseteq Nat
    BY <1>1
  <2> QED BY <2>2, <2>3
<1>6. ends \subseteq P /\ view[from].end \in ends
  BY <1>1
<1> DEFINE span == combined_source(view, from, to)
<1>7. span.start = Min(starts) /\ span.end = Max(ends)
  BY DEF combined_source
<1>8. \A i \in from..to : view[i].start \in starts /\ view[i].end \in ends
  OBVIOUS
<1>9. Min(starts) \in Nat /\ Max(ends) \in Nat
  BY <1>2, <1>3, <1>5, <1>6
<1>10. Min(starts) < Max(ends)
  <2>1. Min(starts) <= view[from].start /\ view[from].end <= Max(ends)
    BY <1>2, <1>3, <1>5, <1>6
  <2>2. from \in from..to
    BY <1>1
  <2> QED BY <1>1, <1>9, <2>1, <2>2
<1>11. /\ \E i \in from..to : Min(starts) = view[i].start
       /\ \E i \in from..to : Max(ends) = view[i].end
  BY <1>3, <1>5
<1> HIDE DEF starts, ends, span
<1>12. \A i \in from..to : span.start <= view[i].start /\ view[i].end <= span.end
  BY <1>3, <1>5, <1>7, <1>8
<1> QED BY <1>2, <1>3, <1>5, <1>6, <1>7, <1>10, <1>11, <1>12 DEF span

\* What is decoded comes from the whole of what it was decoded from.
LEMMA DecodedIs ==
  ASSUME NEW P \in SUBSET Nat, NEW view, NEW i, NEW width, NEW bytes \in Seq(Symbol),
         LET span == combined_source(view, i, i + width - 1)
         IN  span.start \in P /\ span.end \in P /\ span.start < span.end
  PROVE  /\ Decoded(view, i, width, bytes).width = width
         /\ Decoded(view, i, width, bytes).out \in View(P)
<1> DEFINE span == combined_source(view, i, i + width - 1)
           out == append_with_source(bytes, span)
<1>1. Decoded(view, i, width, bytes).width = width /\ Decoded(view, i, width, bytes).out = out
  BY DEF Decoded
<1>2. span.start \in P /\ span.end \in P /\ span.start < span.end
  OBVIOUS
<1> HIDE DEF span
<1>3. /\ Len(bytes) \in Nat /\ DOMAIN bytes = 1..Len(bytes)
      /\ \A k \in DOMAIN bytes : bytes[k] \in Symbol
  OBVIOUS
<1>4. ASSUME NEW k \in DOMAIN bytes
      PROVE  [byte |-> bytes[k], start |-> span.start, end |-> span.end] \in Cell(P)
  BY <1>2, <1>3 DEF Cell
<1>5. out = [k \in 1..Len(bytes) |->
               [byte |-> bytes[k], start |-> span.start, end |-> span.end]]
  BY <1>3 DEF append_with_source
<1>6. out \in Seq(Cell(P))
  BY <1>3, <1>4, <1>5
<1> QED BY <1>1, <1>6 DEF View

-----------------------------------------------------------------------------
(* Rewrite.                                                                *)

FromStep(h, view, unit, i) ==
  IF i > Len(view) THEN <<>> ELSE unit[i].out \o h[i + unit[i].width]

IsFrom(h, view, unit) ==
  h = [i \in 1..Len(view) + 1 |-> FromStep(h, view, unit, i)]

\* The recursion of Rewrite has a solution.
LEMMA FromExists ==
  ASSUME NEW view, NEW unit, NEW N \in Nat, N = Len(view),
         \A i \in 1..N : unit[i].width \in Nat \ {0} /\ i + unit[i].width <= N + 1
  PROVE  \E h : IsFrom(h, view, unit)
<1> DEFINE Solves(h, k) ==
             /\ DOMAIN h = 1..N + 1
             /\ \A i \in k..N + 1 : h[i] = FromStep(h, view, unit, i)
           Bad == {k \in Nat : k <= N /\ ~\E h : Solves(h, N + 1 - k)}
<1>1. Bad = {}
  <2> SUFFICES ASSUME Bad # {} PROVE FALSE
    OBVIOUS
  <2>1. PICK k \in Bad : \A m \in Bad : k <= m
    <3>1. Bad \in SUBSET Nat
      OBVIOUS
    <3> HIDE DEF Bad
    <3> QED BY <3>1, LeastNatural
  <2>2. k \in Nat /\ k <= N
    OBVIOUS
  <2>3. k # 0
    <3> DEFINE h == [i \in 1..N + 1 |-> <<>>]
    <3>1. h[N + 1] = <<>> /\ FromStep(h, view, unit, N + 1) = <<>>
      BY DEF FromStep
    <3>2. Solves(h, N + 1 - 0)
      BY <3>1
    <3> QED BY <3>2
  <2>4. k - 1 \in Nat /\ k - 1 <= N /\ ~(k <= k - 1)
    BY <2>2, <2>3
  <2>5. k - 1 \notin Bad
    <3> HIDE DEF Bad
    <3> QED BY <2>1, <2>4
  <2> DEFINE n == N + 1 - k
  <2>6. n \in 1..N /\ N + 1 - (k - 1) = n + 1
    BY <2>2, <2>3
  <2>7. PICK h : Solves(h, n + 1)
    BY <2>4, <2>5, <2>6
  <2> DEFINE new == FromStep(h, view, unit, n)
             g == [i \in 1..N + 1 |-> IF i = n THEN new ELSE h[i]]
  <2> HIDE DEF n
  <2>8. \A i \in n + 1..N + 1 : g[i] = h[i]
    BY <2>6
  <2>9. ASSUME NEW i \in n..N + 1
        PROVE  FromStep(g, view, unit, i) = FromStep(h, view, unit, i)
    <3>1. CASE i = N + 1
      BY <3>1 DEF FromStep
    <3>2. CASE i # N + 1
      <4>1. i + unit[i].width \in n + 1..N + 1
        BY <2>6, <3>2
      <4>2. g[i + unit[i].width] = h[i + unit[i].width]
        BY <2>8, <4>1
      <4> QED BY <4>2 DEF FromStep
    <3> QED BY <3>1, <3>2
  <2>10. g[n] = FromStep(h, view, unit, n) /\ DOMAIN g = 1..N + 1
    BY <2>6
  <2> HIDE DEF g
  <2>11. \A i \in n..N + 1 : g[i] = FromStep(g, view, unit, i)
    <3> SUFFICES ASSUME NEW i \in n..N + 1 PROVE g[i] = FromStep(g, view, unit, i)
      OBVIOUS
    <3>1. CASE i = n
      BY <2>9, <2>10, <3>1
    <3>2. CASE i \in n + 1..N + 1
      BY <2>7, <2>8, <2>9, <3>2
    <3> QED BY <2>6, <3>1, <3>2
  <2>12. Solves(g, n)
    BY <2>10, <2>11
  <2> QED BY <2>1, <2>12 DEF n
<1>2. N \notin Bad
  BY <1>1
<1>3. PICK h : Solves(h, 1)
  BY <1>2
<1>4. \A i \in 1..N + 1 : h[i] = FromStep(h, view, unit, i)
  BY <1>3
<1> HIDE DEF Solves, Bad
<1> DEFINE f == [i \in 1..N + 1 |-> h[i]]
<1>5. \A i \in 1..N + 1 : FromStep(f, view, unit, i) = FromStep(h, view, unit, i)
  <2> SUFFICES ASSUME NEW i \in 1..N + 1
               PROVE  FromStep(f, view, unit, i) = FromStep(h, view, unit, i)
    OBVIOUS
  <2>1. CASE i = N + 1
    BY <2>1 DEF FromStep
  <2>2. CASE i # N + 1
    <3>1. i + unit[i].width \in 1..N + 1
      BY <2>2
    <3> QED BY <3>1 DEF FromStep
  <2> QED BY <2>1, <2>2
<1>6. f = [i \in 1..N + 1 |-> FromStep(f, view, unit, i)]
  <2>1. \A i \in 1..N + 1 : f[i] = FromStep(f, view, unit, i)
    BY <1>4, <1>5
  <2>2. f = [i \in 1..N + 1 |-> f[i]]
    OBVIOUS
  <2> HIDE DEF f
  <2> QED BY <2>1, <2>2
<1> HIDE DEF f
<1> QED BY <1>6 DEF IsFrom

\* Rewrite gives a view when every unit it comes to gives one.  R are the
\* indices it may come to.
LEMMA RewriteIs ==
  ASSUME NEW P \in SUBSET Nat, NEW view, NEW unit, NEW N \in Nat, N = Len(view),
         NEW R \in SUBSET (1..N + 1), 1 \in R,
         \A i \in 1..N : unit[i].width \in Nat \ {0} /\ i + unit[i].width <= N + 1,
         \A i \in R : i <= N => i + unit[i].width \in R /\ unit[i].out \in View(P)
  PROVE  Rewrite(view, unit) \in View(P)
<1> DEFINE from == CHOOSE h : h = [i \in 1..Len(view) + 1 |-> FromStep(h, view, unit, i)]
<1>1. Rewrite(view, unit) = from[1]
  BY DEF Rewrite, FromStep
<1>2. from = [i \in 1..Len(view) + 1 |-> FromStep(from, view, unit, i)]
  <2>1. \E h : IsFrom(h, view, unit)
    BY FromExists
  <2> QED BY <2>1, Zenon DEF IsFrom
<1> HIDE DEF from
<1> DEFINE Bad == {k \in Nat : k <= N /\ N + 1 - k \in R /\ from[N + 1 - k] \notin View(P)}
<1>3. Bad = {}
  <2> SUFFICES ASSUME Bad # {} PROVE FALSE
    OBVIOUS
  <2>1. PICK k \in Bad : \A m \in Bad : k <= m
    <3>1. Bad \in SUBSET Nat
      OBVIOUS
    <3> HIDE DEF Bad
    <3> QED BY <3>1, LeastNatural
  <2> DEFINE n == N + 1 - k
  <2>2. k \in Nat /\ k <= N /\ n \in R /\ from[n] \notin View(P) /\ n \in 1..N + 1
    OBVIOUS
  <2>3. from[n] = FromStep(from, view, unit, n)
    BY <1>2, <2>2
  <2>4. k # 0
    <3>1. n = N + 1 => from[n] = <<>>
      BY <2>3 DEF FromStep
    <3>2. <<>> \in View(P)
      BY DEF View
    <3> QED BY <2>2, <3>1, <3>2
  <2> HIDE DEF n
  <2>5. n \in 1..N /\ k = N + 1 - n
    BY <2>2, <2>4 DEF n
  <2> DEFINE j == n + unit[n].width
             m == N + 1 - j
  <2>6. j \in R /\ unit[n].out \in View(P) /\ j \in n + 1..N + 1
    BY <2>2, <2>5
  <2> HIDE DEF j
  <2>7. m \in Nat /\ m <= N /\ ~(k <= m) /\ N + 1 - m = j
    BY <2>5, <2>6
  <2>8. m \notin Bad
    <3> HIDE DEF Bad
    <3> QED BY <2>1, <2>7
  <2>9. from[j] \in View(P)
    BY <2>6, <2>7, <2>8
  <2>10. from[n] = unit[n].out \o from[j]
    <3>1. ~(n > Len(view))
      BY <2>5
    <3>2. FromStep(from, view, unit, n) = unit[n].out \o from[n + unit[n].width]
      BY <3>1, Zenon DEF FromStep
    <3> QED BY <2>3, <3>2, Zenon DEF j
  <2>11. from[n] \in View(P)
    BY <2>6, <2>9, <2>10 DEF View
  <2> QED BY <2>2, <2>11
<1>4. N \notin Bad
  BY <1>3
<1>5. from[1] \in View(P)
  BY <1>4
<1> QED BY <1>1, <1>5

-----------------------------------------------------------------------------
(* The transforms.                                                         *)

\* A unit at i that takes bytes of the view and writes a view.
UnitOK(P, view, i, u) ==
  /\ u.width \in Nat \ {0} /\ i + u.width <= Len(view) + 1
  /\ u.out \in View(P)

\* A byte that is kept.
LEMMA KeptOK ==
  ASSUME NEW P \in SUBSET Nat, NEW view \in View(P), NEW i \in DOMAIN view
  PROVE  UnitOK(P, view, i, Kept(view, i))
<1>1. /\ Len(view) \in Nat /\ i \in 1..Len(view) /\ view[i] \in Cell(P)
  BY CellFields
<1>2. <<view[i]>> \in View(P)
  BY <1>1 DEF View
<1> QED BY <1>1, <1>2 DEF Kept, UnitOK

\* Two bytes that are decoded.
LEMMA PairOK ==
  ASSUME NEW P \in SUBSET Nat, NEW view \in View(P), NEW i \in DOMAIN view,
         NEW width \in {1, 2}, i + width - 1 \in DOMAIN view,
         NEW bytes \in Seq(Symbol)
  PROVE  UnitOK(P, view, i, Decoded(view, i, width, bytes))
<1>1. Len(view) \in Nat /\ DOMAIN view = 1..Len(view)
  BY CellFields
<1>2. i <= i + width - 1
  BY <1>1
<1>3. LET span == combined_source(view, i, i + width - 1)
      IN  span.start \in P /\ span.end \in P /\ span.start < span.end
  BY <1>2, CombinedSource
<1>4. /\ Decoded(view, i, width, bytes).width = width
      /\ Decoded(view, i, width, bytes).out \in View(P)
  BY <1>3, DecodedIs
<1> QED BY <1>1, <1>4 DEF UnitOK

\* Bytes that are dropped.
LEMMA DropOK ==
  ASSUME NEW P \in SUBSET Nat, NEW view \in View(P), NEW i \in DOMAIN view,
         NEW width \in Nat \ {0}, i + width <= Len(view) + 1
  PROVE  UnitOK(P, view, i, [width |-> width, out |-> <<>>])
BY DEF UnitOK, View

\* There is a byte at an index where ByteAt finds one.
LEMMA ByteAtIs ==
  ASSUME NEW view, NEW i, ByteAt(view, i) # "none"
  PROVE  i \in DOMAIN view
BY DEF ByteAt

\* Escapes decode to bytes.
LEMMA EscapeIs ==
  ASSUME NEW tail \in EscapeTail
  PROVE  decode_escape(tail) \in Seq(Symbol)
<1>1. DOMAIN Escape = {"u002e", "u0025", "u005c", "u200b", "uff0e", "ufdfa", "u00e9", "n"}
  BY DEF Escape
<1>2. /\ Escape["u002e"] = <<".">> /\ Escape["u0025"] = <<"%">>
      /\ Escape["u005c"] = <<"\\">> /\ Escape["u200b"] = <<"zw">>
      /\ Escape["uff0e"] = <<"fw">> /\ Escape["ufdfa"] = <<"lig">>
      /\ Escape["u00e9"] = <<"C3", "A9">> /\ Escape["n"] = <<"nl">>
  BY DEF Escape
<1>3. \A a, b \in Symbol : <<a>> \in Seq(Symbol) /\ <<a, b>> \in Seq(Symbol)
  OBVIOUS
<1>4. {".", "%", "\\", "zw", "fw", "lig", "C3", "A9", "nl"} \subseteq Symbol
  BY DEF Symbol
<1> QED BY <1>1, <1>2, <1>3, <1>4 DEF EscapeTail, decode_escape

\* Digits decode to a byte.
LEMMA HexPairIs ==
  ASSUME NEW pair \in DOMAIN HexPair
  PROVE  <<HexPair[pair]>> \in Seq(Symbol)
<1>1. DOMAIN HexPair = {"h2e", "h5c", "h25", "h6e", "hC3", "hA9"}
  BY DEF HexPair
<1>2. /\ HexPair["h2e"] = "." /\ HexPair["h5c"] = "\\" /\ HexPair["h25"] = "%"
      /\ HexPair["h6e"] = "n" /\ HexPair["hC3"] = "C3" /\ HexPair["hA9"] = "A9"
  BY DEF HexPair
<1>3. {".", "\\", "%", "n", "C3", "A9"} \subseteq Symbol
  <2>1. "n" \in DOMAIN Escape
    BY DEF Escape
  <2> QED BY <2>1 DEF Symbol
<1>4. HexPair[pair] \in Symbol
  BY <1>1, <1>2, <1>3
<1> QED BY <1>4

\* A unit of decode_json_escapes keeps to the source map.
LEMMA JsonOK ==
  ASSUME NEW P \in SUBSET Nat, NEW view \in View(P), NEW i \in DOMAIN view
  PROVE  UnitOK(P, view, i, JsonUnit(view, i))
<1> DEFINE tail == ByteAt(view, i + 1)
<1>1. CASE ByteAt(view, i) = "\\" /\ tail \in EscapeTail
  <2>1. tail # "none"
    BY <1>1 DEF EscapeTail, Escape
  <2>2. i + 1 \in DOMAIN view
    BY <2>1, ByteAtIs
  <2>3. decode_escape(tail) \in Seq(Symbol)
    BY <1>1, EscapeIs
  <2>4. JsonUnit(view, i) = Decoded(view, i, 2, decode_escape(tail))
    BY <1>1 DEF JsonUnit
  <2>5. i + 2 - 1 = i + 1
    BY CellFields
  <2> HIDE DEF tail
  <2> QED BY <2>2, <2>3, <2>4, <2>5, PairOK
<1>2. CASE ~(ByteAt(view, i) = "\\" /\ tail \in EscapeTail)
  BY <1>2, KeptOK DEF JsonUnit
<1> QED BY <1>1, <1>2

\* A unit of decode_percent_encoding keeps to the source map.
LEMMA PercentOK ==
  ASSUME NEW P \in SUBSET Nat, NEW view \in View(P), NEW i \in DOMAIN view
  PROVE  UnitOK(P, view, i, PercentUnit(view, i))
<1> DEFINE pair == ByteAt(view, i + 1)
<1>1. CASE ByteAt(view, i) = "%" /\ pair \in DOMAIN HexPair
  <2>1. pair # "none"
    BY <1>1 DEF HexPair
  <2>2. i + 1 \in DOMAIN view
    BY <2>1, ByteAtIs
  <2>3. <<HexPair[pair]>> \in Seq(Symbol)
    BY <1>1, HexPairIs
  <2>4. PercentUnit(view, i) = Decoded(view, i, 2, <<HexPair[pair]>>)
    BY <1>1 DEF PercentUnit
  <2>5. i + 2 - 1 = i + 1
    BY CellFields
  <2> HIDE DEF pair
  <2> QED BY <2>2, <2>3, <2>4, <2>5, PairOK
<1>2. CASE ~(ByteAt(view, i) = "%" /\ pair \in DOMAIN HexPair)
  BY <1>2, KeptOK DEF PercentUnit
<1> QED BY <1>1, <1>2

\* A unit of collapse_candidate_separators keeps to the source map.
LEMMA CollapseOK ==
  ASSUME NEW P \in SUBSET Nat, NEW view \in View(P), NEW i \in DOMAIN view
  PROVE  UnitOK(P, view, i, CollapseUnit(view, i))
<1>1. UnitOK(P, view, i, [width |-> 1, out |-> <<>>])
  <2>1. i + 1 <= Len(view) + 1
    BY CellFields
  <2> QED BY <2>1, DropOK
<1> QED BY <1>1, KeptOK DEF CollapseUnit

\* A unit of remove_structural_continuations keeps to the source map.
LEMMA ContinuationOK ==
  ASSUME NEW P \in SUBSET Nat, NEW view \in View(P), NEW i \in DOMAIN view
  PROVE  UnitOK(P, view, i, ContinuationUnit(view, i))
<1>0. Len(view) \in Nat /\ DOMAIN view = 1..Len(view)
  BY CellFields
<1>1. CASE ByteAt(view, i) = "\\" /\ ByteAt(view, i + 1) = "nl"
  <2> DEFINE Ends(k) == /\ ByteAt(view, k) # "sp"
                        /\ \A m \in i + 2..k - 1 : ByteAt(view, m) = "sp"
             end == CHOOSE k \in i + 2..Len(view) + 1 : Ends(k)
             T == {k \in i + 2..Len(view) + 1 : ByteAt(view, k) # "sp"}
  <2>1. i + 1 \in DOMAIN view
    BY <1>1, ByteAtIs
  <2>2. T \in SUBSET Nat /\ Len(view) + 1 \in T
    <3>1. ByteAt(view, Len(view) + 1) = "none"
      BY <1>0 DEF ByteAt
    <3> QED BY <1>0, <2>1, <3>1
  <2>3. PICK k \in T : \A m \in T : k <= m
    <3> HIDE DEF T
    <3> QED BY <2>2, LeastNatural
  <2>4. k \in i + 2..Len(view) + 1 /\ Ends(k)
    <3>1. k \in i + 2..Len(view) + 1 /\ ByteAt(view, k) # "sp"
      OBVIOUS
    <3>2. ASSUME NEW m \in i + 2..k - 1 PROVE ByteAt(view, m) = "sp"
      <4>1. m \in i + 2..Len(view) + 1 /\ ~(k <= m)
        BY <1>0, <3>1
      <4>2. m \notin T
        <5> HIDE DEF T
        <5> QED BY <2>3, <4>1
      <4> QED BY <4>1, <4>2
    <3> QED BY <3>1, <3>2
  <2> HIDE DEF Ends
  <2>5. end \in i + 2..Len(view) + 1
    BY <2>4
  <2>6. ContinuationUnit(view, i) = [width |-> end - i, out |-> <<>>]
    BY <1>1 DEF ContinuationUnit, Ends
  <2> HIDE DEF end
  <2>7. end - i \in Nat \ {0} /\ i + (end - i) <= Len(view) + 1
    BY <1>0, <2>5
  <2> QED BY <2>6, <2>7, DropOK
<1>2. CASE ~(ByteAt(view, i) = "\\" /\ ByteAt(view, i + 1) = "nl")
  BY <1>2, KeptOK DEF ContinuationUnit
<1> QED BY <1>1, <1>2

\* The bytes of a character in normal form.
LEMMA NfkcIs ==
  ASSUME NEW character \in Seq(Symbol)
  PROVE  nfkc(character) \in Seq(Symbol)
<1>1. <<".">> \in Seq(Symbol) /\ [i \in 1..11 |-> "x"] \in Seq(Symbol)
  <2>1. "." \in Symbol /\ "x" \in Symbol
    BY DEF Symbol
  <2>2. \A a \in Symbol : <<a>> \in Seq(Symbol) /\ [i \in 1..11 |-> a] \in Seq(Symbol)
    OBVIOUS
  <2> QED BY <2>1, <2>2
<1> QED BY <1>1, Zenon DEF nfkc

\* In valid UTF-8 a lead byte is not the last one.
LEMMA LeadHasNext ==
  ASSUME NEW view, Len(view) \in Nat, DOMAIN view = 1..Len(view), ValidUtf8(view),
         NEW i \in DOMAIN view, view[i].byte = "C3"
  PROVE  i + 1 \in DOMAIN view /\ view[i + 1].byte = "A9"
<1>1. i + 1 \in 1..Len(view) + 1 /\ i + 1 - 1 = i
  OBVIOUS
<1>2. ByteAt(view, i) = "C3"
  BY DEF ByteAt
<1>3. ByteAt(view, i + 1) = "A9"
  BY <1>1, <1>2 DEF ValidUtf8
<1> QED BY <1>3 DEF ByteAt

\* A unit of canonicalize keeps to the source map.
LEMMA CharacterOK ==
  ASSUME NEW P \in SUBSET Nat, NEW view \in View(P), NEW i \in DOMAIN view,
         ValidUtf8(view)
  PROVE  UnitOK(P, view, i, CharacterUnit(view, i))
<1> DEFINE width == IF view[i].byte = "C3" THEN 2 ELSE 1
           character == [k \in 1..width |-> view[i + k - 1].byte]
<1>0. Len(view) \in Nat /\ DOMAIN view = 1..Len(view)
  BY CellFields
<1>1. width \in {1, 2} /\ i + width - 1 \in DOMAIN view
  BY <1>0, LeadHasNext
<1>2. CharacterUnit(view, i) =
        IF is_invisible_control(view[i].byte)
        THEN [width |-> width, out |-> <<>>]
        ELSE Decoded(view, i, width, nfkc(character))
  BY DEF CharacterUnit
<1> HIDE DEF width
<1>3. character \in Seq(Symbol)
  <2>1. ASSUME NEW k \in 1..width PROVE view[i + k - 1].byte \in Symbol
    <3>1. i + k - 1 \in DOMAIN view
      BY <1>0, <1>1
    <3> QED BY <3>1, CellFields
  <2> QED BY <1>1, <2>1
<1> HIDE DEF character
<1>4. nfkc(character) \in Seq(Symbol)
  BY <1>3, NfkcIs
<1>5. UnitOK(P, view, i, Decoded(view, i, width, nfkc(character)))
  BY <1>1, <1>4, PairOK
<1>6. UnitOK(P, view, i, [width |-> width, out |-> <<>>])
  <2>1. width \in Nat \ {0} /\ i + width <= Len(view) + 1
    BY <1>0, <1>1
  <2> QED BY <2>1, DropOK
<1> QED BY <1>2, <1>5, <1>6

\* A transform whose every unit is right gives a view of the same source.
LEMMA TransformIs ==
  ASSUME NEW P \in SUBSET Nat, NEW view \in View(P), NEW unit,
         \A i \in DOMAIN view : UnitOK(P, view, i, unit[i])
  PROVE  Rewrite(view, unit) \in View(P)
<1> DEFINE N == Len(view)
           R == 1..N + 1
<1>1. N \in Nat /\ DOMAIN view = 1..N
  BY CellFields
<1>2. \A i \in 1..N : /\ unit[i].width \in Nat \ {0} /\ i + unit[i].width <= N + 1
                      /\ unit[i].out \in View(P)
  BY <1>1 DEF UnitOK
<1>3. R \in SUBSET (1..N + 1) /\ 1 \in R
  BY <1>1
<1>4. \A i \in R : i <= N => i + unit[i].width \in R /\ unit[i].out \in View(P)
  BY <1>1, <1>2
<1> HIDE DEF R
<1> QED BY <1>1, <1>2, <1>3, <1>4, RewriteIs

\* The decodings, collapsing and canonicalize give views of the same source.
LEMMA TransformsView ==
  ASSUME NEW P \in SUBSET Nat, NEW view \in View(P)
  PROVE  /\ decode_json_escapes(view) \in View(P)
         /\ decode_percent_encoding(view) \in View(P)
         /\ collapse_candidate_separators(view) \in View(P)
         /\ remove_structural_continuations(view) \in View(P)
         /\ ValidUtf8(view) => canonicalize(view) \in View(P)
<1>1. decode_json_escapes(view) \in View(P)
  <2> DEFINE unit == [i \in DOMAIN view |-> JsonUnit(view, i)]
  <2>1. \A i \in DOMAIN view : UnitOK(P, view, i, unit[i])
    BY JsonOK
  <2> HIDE DEF unit
  <2>2. Rewrite(view, unit) \in View(P)
    BY <2>1, TransformIs
  <2> QED BY <2>2 DEF unit, decode_json_escapes
<1>2. decode_percent_encoding(view) \in View(P)
  <2> DEFINE unit == [i \in DOMAIN view |-> PercentUnit(view, i)]
  <2>1. \A i \in DOMAIN view : UnitOK(P, view, i, unit[i])
    BY PercentOK
  <2> HIDE DEF unit
  <2>2. Rewrite(view, unit) \in View(P)
    BY <2>1, TransformIs
  <2> QED BY <2>2 DEF unit, decode_percent_encoding
<1>3. collapse_candidate_separators(view) \in View(P)
  <2> DEFINE unit == [i \in DOMAIN view |-> CollapseUnit(view, i)]
  <2>1. \A i \in DOMAIN view : UnitOK(P, view, i, unit[i])
    BY CollapseOK
  <2> HIDE DEF unit
  <2>2. Rewrite(view, unit) \in View(P)
    BY <2>1, TransformIs
  <2> QED BY <2>2 DEF unit, collapse_candidate_separators
<1>4. ASSUME NEW v \in View(P) PROVE remove_structural_continuations(v) \in View(P)
  <2> DEFINE unit == [i \in DOMAIN v |-> ContinuationUnit(v, i)]
  <2>1. \A i \in DOMAIN v : UnitOK(P, v, i, unit[i])
    BY ContinuationOK
  <2> HIDE DEF unit
  <2>2. Rewrite(v, unit) \in View(P)
    BY <2>1, TransformIs
  <2> QED BY <2>2 DEF unit, remove_structural_continuations
<1>5. ASSUME ValidUtf8(view) PROVE canonicalize(view) \in View(P)
  <2> DEFINE unit == [i \in DOMAIN view |-> CharacterUnit(view, i)]
  <2>1. \A i \in DOMAIN view : UnitOK(P, view, i, unit[i])
    BY <1>5, CharacterOK
  <2> HIDE DEF unit
  <2>2. Rewrite(view, unit) \in View(P)
    BY <2>1, TransformIs
  <2>3. remove_structural_continuations(Rewrite(view, unit)) \in View(P)
    BY <1>4, <2>2
  <2> QED BY <2>3 DEF unit, canonicalize
<1> QED BY <1>1, <1>2, <1>3, <1>4, <1>5

-----------------------------------------------------------------------------
(* The normalized text.                                                    *)

\* The positions of a text that are not inside a character.
Boundaries(source) ==
  {p \in 0..Len(source) : p + 1 \in DOMAIN source => source[p + 1] # "A9"}

\* normalize maps every byte to a whole number of characters of the text.
LEMMA NormalizeIs ==
  ASSUME NEW source \in Seq(Symbol), ValidUtf8(Raw(source))
  PROVE  normalize(source) \in View(Boundaries(source))
<1> DEFINE N == Len(source)
           raw == Raw(source)
           P == 0..N
           S == Boundaries(source)
           R == {i \in 1..N + 1 : i <= N => source[i] # "A9"}
           unit == [i \in DOMAIN raw |-> CharacterUnit(raw, i)]
<1>1. /\ N \in Nat /\ DOMAIN source = 1..N
      /\ \A i \in 1..N : source[i] \in Symbol
      /\ P \in SUBSET Nat /\ S \in SUBSET Nat
  BY DEF Boundaries
<1>2. /\ DOMAIN raw = 1..N
      /\ \A i \in 1..N : /\ raw[i].byte = source[i] /\ raw[i].start = i - 1
                         /\ raw[i].end = i
  BY <1>1 DEF Raw
<1>3. raw \in View(P) /\ Len(raw) = N
  <2>1. \A i \in 1..N : [byte |-> source[i], start |-> i - 1, end |-> i] \in Cell(P)
    BY <1>1 DEF Cell
  <2>2. raw = [i \in 1..N |-> [byte |-> source[i], start |-> i - 1, end |-> i]]
    BY <1>1 DEF Raw
  <2>3. raw \in Seq(Cell(P))
    BY <1>1, <2>1, <2>2
  <2> QED BY <1>1, <2>2, <2>3 DEF View
<1>4. \A i \in 1..N + 1 : ByteAt(raw, i) = "A9" <=> ByteAt(raw, i - 1) = "C3"
  BY <1>3 DEF ValidUtf8
<1>5. ValidUtf8(raw)
  OBVIOUS
<1> HIDE DEF raw
<1>6. \A i \in 1..N : ByteAt(raw, i) = source[i]
  BY <1>2 DEF ByteAt
<1>7. ByteAt(raw, 0) = "none" /\ ByteAt(raw, N + 1) = "none"
  BY <1>1, <1>2 DEF ByteAt
<1>8. 1 \in R
  <2>1. 1 <= N => source[1] # "A9"
    <3>1. ByteAt(raw, 1) = "A9" => ByteAt(raw, 1 - 1) = "C3"
      BY <1>1, <1>4
    <3> QED BY <1>1, <1>6, <1>7, <3>1
  <2> QED BY <1>1, <2>1
<1>9. ASSUME NEW i \in 1..N
      PROVE  /\ UnitOK(P, raw, i, CharacterUnit(raw, i))
             /\ CharacterUnit(raw, i).width = IF source[i] = "C3" THEN 2 ELSE 1
  <2>1. UnitOK(P, raw, i, CharacterUnit(raw, i))
    BY <1>1, <1>2, <1>3, <1>5, CharacterOK
  <2>2. raw[i].byte = source[i]
    BY <1>2
  <2> QED BY <2>1, <2>2 DEF CharacterUnit, Decoded
<1>10. \A i \in 1..N : unit[i] = CharacterUnit(raw, i)
  BY <1>2
<1>11. \A i \in 1..N : unit[i].width \in Nat \ {0} /\ i + unit[i].width <= N + 1
  BY <1>3, <1>9, <1>10 DEF UnitOK
<1>12. ASSUME NEW i \in R, i <= N
       PROVE  i + unit[i].width \in R /\ unit[i].out \in View(S)
  <2> DEFINE w == IF source[i] = "C3" THEN 2 ELSE 1
  <2>1. i \in 1..N /\ source[i] # "A9"
    BY <1>1, <1>12
  <2>2. unit[i].width = w /\ w \in {1, 2} /\ i + w \in 1..N + 1
    <3> HIDE DEF unit
    <3>1. unit[i].width = w
      BY <1>9, <1>10, <2>1
    <3>2. w \in {1, 2} /\ i + unit[i].width <= N + 1
      BY <1>11, <2>1
    <3> HIDE DEF w
    <3> QED BY <1>1, <2>1, <3>1, <3>2
  <2>3. i + w <= N => source[i + w] # "A9"
    <3>1. CASE source[i] = "C3"
      <4>1. i + 1 \in 1..N + 1 /\ i + 1 - 1 = i
        BY <2>1
      <4>2. ByteAt(raw, i + 1) = "A9"
        BY <1>4, <1>6, <2>1, <3>1, <4>1
      <4>3. ASSUME i + 2 <= N PROVE source[i + 2] # "A9"
        <5>1. i + 2 \in 1..N + 1 /\ i + 2 \in 1..N /\ i + 2 - 1 = i + 1
          BY <2>1, <4>3
        <5>2. ByteAt(raw, i + 2) = "A9" => ByteAt(raw, i + 1) = "C3"
          BY <1>4, <5>1
        <5> QED BY <1>6, <4>2, <5>1, <5>2
      <4> QED BY <3>1, <4>3
    <3>2. CASE source[i] # "C3"
      <4>1. i + 1 \in 1..N + 1 /\ i + 1 - 1 = i
        BY <2>1
      <4>2. ByteAt(raw, i + 1) = "A9" => ByteAt(raw, i) = "C3"
        BY <1>4, <4>1
      <4>3. i + 1 <= N => i + 1 \in 1..N
        BY <2>1
      <4> QED BY <1>6, <2>1, <3>2, <4>2, <4>3
    <3> QED BY <3>1, <3>2
  <2>4. i + w \in R
    BY <2>2, <2>3
  <2> DEFINE span == combined_source(raw, i, i + w - 1)
  <2>5. span.start = i - 1 /\ span.end = i + w - 1
    <3>1. i + w - 1 \in 1..N /\ i <= i + w - 1 /\ i \in i..i + w - 1
          /\ i + w - 1 \in i..i + w - 1 /\ i..i + w - 1 \subseteq 1..N
      BY <1>1, <2>1, <2>2
    <3> HIDE DEF w
    <3>2. /\ span.start \in P /\ span.end \in P
          /\ \A k \in i..i + w - 1 : span.start <= raw[k].start /\ raw[k].end <= span.end
          /\ \E k \in i..i + w - 1 : span.start = raw[k].start
          /\ \E k \in i..i + w - 1 : span.end = raw[k].end
      <4> DEFINE to == i + w - 1
      <4>1. i \in DOMAIN raw /\ to \in DOMAIN raw /\ i <= to
        BY <1>2, <2>1, <3>1
      <4> HIDE DEF to, P
      <4>2. LET sp == combined_source(raw, i, to)
            IN  /\ sp.start \in P /\ sp.end \in P /\ sp.start < sp.end
                /\ \A k \in i..to : sp.start <= raw[k].start /\ raw[k].end <= sp.end
                /\ \E k \in i..to : sp.start = raw[k].start
                /\ \E k \in i..to : sp.end = raw[k].end
        BY <1>1, <1>3, <4>1, CombinedSource
      <4> QED BY <4>2 DEF to
    <3> HIDE DEF span
    <3>3. PICK k \in i..i + w - 1 : span.start = raw[k].start
      BY <3>2
    <3>4. PICK l \in i..i + w - 1 : span.end = raw[l].end
      BY <3>2
    <3>5. raw[k].start = k - 1 /\ raw[l].end = l /\ raw[i].start = i - 1
          /\ raw[i + w - 1].end = i + w - 1
      BY <1>2, <2>1, <3>1
    <3>6. span.start <= i - 1 /\ i + w - 1 <= span.end
      BY <3>1, <3>2, <3>5
    <3> QED BY <1>1, <2>1, <2>2, <3>1, <3>3, <3>4, <3>5, <3>6
  <2>6. i - 1 \in S /\ i + w - 1 \in S /\ i - 1 < i + w - 1
    <3>1. i - 1 \in S
      BY <1>1, <2>1 DEF Boundaries
    <3>2. i + w - 1 \in 0..N /\ (i + w - 1) + 1 = i + w /\ i - 1 < i + w - 1
      BY <1>1, <2>1, <2>2
    <3> HIDE DEF w
    <3>3. i + w - 1 \in S
      BY <1>1, <2>3, <3>2 DEF Boundaries
    <3> QED BY <3>1, <3>2, <3>3
  <2>7. unit[i].out \in View(S)
    <3> DEFINE character == [k \in 1..w |-> raw[i + k - 1].byte]
    <3>1. raw[i].byte = source[i]
      BY <1>2, <2>1
    <3>2. CharacterUnit(raw, i) =
            IF is_invisible_control(raw[i].byte) THEN [width |-> w, out |-> <<>>]
            ELSE Decoded(raw, i, w, nfkc(character))
      BY <3>1 DEF CharacterUnit
    <3>3. character \in Seq(Symbol)
      <4>1. ASSUME NEW k \in 1..w PROVE raw[i + k - 1].byte \in Symbol
        <5>1. i + k - 1 \in 1..N
          BY <1>1, <2>1, <2>2
        <5> QED BY <1>1, <1>2, <5>1
      <4>2. w \in Nat
        BY <2>2
      <4> HIDE DEF w
      <4> QED BY <4>1, <4>2
    <3> HIDE DEF w, span, character, S
    <3>4. nfkc(character) \in Seq(Symbol)
      BY <3>3, NfkcIs
    <3>5. Decoded(raw, i, w, nfkc(character)).out \in View(S)
      BY <1>1, <2>5, <2>6, <3>4, DecodedIs DEF span
    <3>6. <<>> \in View(S)
      BY DEF View
    <3>7. [width |-> w, out |-> <<>>].out = <<>>
      OBVIOUS
    <3> QED BY <1>10, <2>1, <3>2, <3>5, <3>6, <3>7
  <2> QED BY <2>2, <2>4, <2>7
<1>13. R \in SUBSET (1..N + 1)
  OBVIOUS
<1>14. Rewrite(raw, unit) \in View(S)
  <2> HIDE DEF R, S, unit
  <2> QED BY <1>1, <1>3, <1>8, <1>11, <1>12, <1>13, RewriteIs
<1>15. remove_structural_continuations(Rewrite(raw, unit)) \in View(S)
  BY <1>1, <1>14, TransformsView
<1> QED BY <1>15 DEF normalize, canonicalize, raw

-----------------------------------------------------------------------------
(* The type invariant of the scan.                                         *)

\* A finding between two positions of P.
Found(P) ==
  {f \in [data_class : DOMAIN ActionOf, action : Actions, start : P, end : P] :
     f.start < f.end}

Queued(P) == [view : View(P), depth : Nat]
Scanned(P) == [view : View(P), secret : BOOLEAN]

\* Every view of the scan maps its bytes to whole characters of the text, and
\* so does every finding; the findings are resolved once.
VInv ==
  LET P == Boundaries(text.source)
  IN  /\ text \in Texts
      /\ queue \in Seq(Queued(P)) /\ seen \in SUBSET View(P)
      /\ regular \in Seq(View(P)) /\ views \in Seq(Scanned(P))
      /\ findings \in Seq(Found(P))
      /\ resolved = IF phase = "done" THEN resolve_overlaps(findings) ELSE <<>>

\* What a text is.
LEMMA TextIs ==
  ASSUME text \in Texts
  PROVE  /\ text.source \in Seq(Symbol) /\ ValidUtf8(Raw(text.source))
         /\ Boundaries(text.source) \in SUBSET Nat
BY ScannerAssumption DEF Boundaries

\* The first of a queue is taken, others are added.
LEMMA QueueStep ==
  ASSUME NEW S, NEW q \in Seq(S), q # <<>>, NEW more \in Seq(S),
         NEW r, r = Tail(q) \o more
  PROVE  /\ r \in Seq(S) /\ Head(q) = q[1] /\ Head(q) \in S /\ 1 \in DOMAIN q
         /\ \A i \in DOMAIN r :
              \/ i \in 1..Len(q) - 1 /\ i + 1 \in DOMAIN q /\ r[i] = q[i + 1]
              \/ /\ i \in Len(q)..Len(r) /\ i - (Len(q) - 1) \in DOMAIN more
                 /\ r[i] = more[i - (Len(q) - 1)]
         /\ \A i \in DOMAIN q : i # 1 => i - 1 \in DOMAIN r /\ r[i - 1] = q[i]
         /\ \A i \in DOMAIN more : i + (Len(q) - 1) \in DOMAIN r /\ r[i + (Len(q) - 1)] = more[i]
<1>1. Len(q) \in Nat \ {0} /\ DOMAIN q = 1..Len(q) /\ Len(more) \in Nat
      /\ DOMAIN more = 1..Len(more)
  OBVIOUS
<1>2. /\ Tail(q) \in Seq(S) /\ Len(Tail(q)) = Len(q) - 1
      /\ \A i \in 1..Len(q) - 1 : Tail(q)[i] = q[i + 1]
      /\ Head(q) = q[1] /\ q[1] \in S
  BY <1>1
<1>3. /\ r \in Seq(S) /\ Len(r) = Len(q) - 1 + Len(more) /\ DOMAIN r = 1..Len(r)
      /\ \A i \in 1..Len(q) - 1 : r[i] = Tail(q)[i]
      /\ \A i \in 1..Len(more) : r[i + (Len(q) - 1)] = more[i]
  BY <1>1, <1>2
<1>4. ASSUME NEW i \in DOMAIN r
      PROVE  \/ i \in 1..Len(q) - 1 /\ i + 1 \in DOMAIN q /\ r[i] = q[i + 1]
             \/ /\ i \in Len(q)..Len(r) /\ i - (Len(q) - 1) \in DOMAIN more
                /\ r[i] = more[i - (Len(q) - 1)]
  <2>1. CASE i \in 1..Len(q) - 1
    BY <1>1, <1>2, <1>3, <2>1
  <2>2. CASE i \notin 1..Len(q) - 1
    <3> DEFINE k == i - (Len(q) - 1)
    <3>1. i \in Len(q)..Len(r) /\ k \in 1..Len(more) /\ k + (Len(q) - 1) = i
      BY <1>1, <1>3, <2>2
    <3> HIDE DEF k
    <3>2. r[i] = more[k]
      BY <1>3, <3>1
    <3> QED BY <1>1, <3>1, <3>2 DEF k
  <2> QED BY <2>1, <2>2
<1>5. ASSUME NEW i \in DOMAIN q, i # 1
      PROVE  i - 1 \in DOMAIN r /\ r[i - 1] = q[i]
  <2>1. i - 1 \in 1..Len(q) - 1 /\ i - 1 + 1 = i
    BY <1>1, <1>5
  <2> QED BY <1>1, <1>2, <1>3, <2>1
<1>6. \A i \in DOMAIN more : i + (Len(q) - 1) \in DOMAIN r
  BY <1>1, <1>3
<1> QED BY <1>1, <1>2, <1>3, <1>4, <1>5, <1>6

\* The decodings of a view are views of the same source.
LEMMA DecodingsIs ==
  ASSUME NEW P \in SUBSET Nat, NEW view \in View(P)
  PROVE  Decodings(view) \in Seq(View(P))
<1>1. ASSUME NEW decoded \in View(P) PROVE Changed(view, decoded) \in Seq(View(P))
  BY DEF Changed
<1>2. decode_json_escapes(view) \in View(P) /\ decode_percent_encoding(view) \in View(P)
  BY TransformsView
<1> QED BY <1>1, <1>2 DEF Decodings

\* What TakeView queues.
Queueing(next, depth) ==
  [i \in DOMAIN next |-> [view |-> canonicalize(next[i]), depth |-> depth + 1]]

\* What a step that looks at a view does, with the types of what it queues.
LEMMA TakeIs ==
  ASSUME VInv, TakeView
  PROVE  LET P == Boundaries(text.source)
             next == HeadDecodings
             more == Queueing(next, Head(queue).depth)
         IN  /\ queue # <<>> /\ Head(queue) \in Queued(P)
             /\ next \in Seq(View(P)) /\ \A i \in DOMAIN next : ValidUtf8(next[i])
             /\ more \in Seq(Queued(P)) /\ DOMAIN more = DOMAIN next
             /\ \A i \in DOMAIN next : /\ more[i].view = canonicalize(next[i])
                                       /\ more[i].depth = Head(queue).depth + 1
             /\ queue' = Tail(queue) \o more
             /\ seen' = seen \cup {Head(queue).view}
             /\ regular' = Append(regular, Head(queue).view)
             /\ Head(queue).view \notin seen
             /\ UNCHANGED <<text, phase, views, findings, resolved>>
<1> DEFINE P == Boundaries(text.source)
           head == Head(queue)
           next == HeadDecodings
           more == Queueing(next, head.depth)
<1>1. queue \in Seq(Queued(P)) /\ queue # <<>> /\ P \in SUBSET Nat
  BY TextIs DEF VInv, TakeView
<1> HIDE DEF P
<1>2. head \in Queued(P)
  BY <1>1
<1>3. head.view \in View(P) /\ head.depth \in Nat
  BY <1>2 DEF Queued
<1>4. /\ \A i \in DOMAIN next : ValidUtf8(next[i])
      /\ queue' = Tail(queue) \o more
      /\ seen' = seen \cup {head.view}
      /\ regular' = Append(regular, head.view)
      /\ head.view \notin seen
      /\ UNCHANGED <<text, phase, views, findings, resolved>>
  BY DEF TakeView, Queueing
<1>5. next \in Seq(View(P))
  BY <1>1, <1>3, DecodingsIs DEF HeadDecodings
<1> HIDE DEF next, head
<1>6. Len(next) \in Nat /\ DOMAIN next = 1..Len(next) /\ \A i \in DOMAIN next : next[i] \in View(P)
  BY <1>5
<1>7. \A i \in DOMAIN next : canonicalize(next[i]) \in View(P)
  BY <1>1, <1>4, <1>6, TransformsView
<1>8. \A i \in DOMAIN next :
        [view |-> canonicalize(next[i]), depth |-> head.depth + 1] \in Queued(P)
  BY <1>3, <1>7 DEF Queued
<1>9. more = [i \in 1..Len(next) |->
                [view |-> canonicalize(next[i]), depth |-> head.depth + 1]]
  BY <1>6 DEF Queueing
<1>10. more \in Seq(Queued(P)) /\ DOMAIN more = DOMAIN next
  BY <1>6, <1>8, <1>9
<1>11. \A i \in DOMAIN next : /\ more[i].view = canonicalize(next[i])
                              /\ more[i].depth = head.depth + 1
  BY <1>6, <1>9
<1> QED BY <1>1, <1>2, <1>4, <1>5, <1>10, <1>11 DEF P, head, next

\* Both kinds of view that come of a composed one.
LEMMA CollapsedIs ==
  ASSUME NEW P \in SUBSET Nat, NEW view \in View(P)
  PROVE  CollapsedToo(view) \in Seq(Scanned(P))
<1> DEFINE collapsed == collapse_candidate_separators(view)
<1>1. collapsed \in View(P)
  BY TransformsView
<1> HIDE DEF collapsed
<1>2. /\ [view |-> view, secret |-> FALSE] \in Scanned(P)
      /\ [view |-> collapsed, secret |-> TRUE] \in Scanned(P)
  BY <1>1 DEF Scanned
<1> DEFINE a == [view |-> view, secret |-> FALSE]
           b == [view |-> collapsed, secret |-> TRUE]
<1>3. CollapsedToo(view) = <<a>> \o (IF collapsed = view THEN <<>> ELSE <<b>>)
  BY DEF CollapsedToo, collapsed
<1>4. a \in Scanned(P) /\ b \in Scanned(P)
  BY <1>2
<1> HIDE DEF a, b
<1> QED BY <1>3, <1>4

\* A match is found between boundaries.
LEMMA FindingIs ==
  ASSUME NEW P \in SUBSET Nat, NEW view \in View(P), NEW part \in Matches(view),
         NEW class \in DOMAIN ActionOf
  PROVE  finding(view, part[1], part[2], class) \in Found(P)
<1> DEFINE from == part[1]
           to == part[2]
           span == combined_source(view, from, to)
<1>1. from \in DOMAIN view /\ to \in DOMAIN view /\ from <= to
  BY DEF Matches
<1> HIDE DEF from, to
<1>2. span.start \in P /\ span.end \in P /\ span.start < span.end
  BY <1>1, CombinedSource
<1>3. finding(view, from, to, class) =
        [data_class |-> class, action |-> ActionOf[class],
         start |-> span.start, end |-> span.end]
  BY DEF finding
<1>4. ActionOf[class] \in Actions
  BY ScannerAssumption
<1> HIDE DEF span
<1>5. finding(view, from, to, class) \in Found(P)
  BY <1>2, <1>3, <1>4 DEF Found
<1> QED BY <1>5 DEF from, to

\* Every step of the scan keeps the types.
LEMMA ViewStep ==
  ASSUME VInv, Next
  PROVE  VInv'
<1> DEFINE P == Boundaries(text.source)
<1>0. /\ text \in Texts /\ P \in SUBSET Nat
      /\ queue \in Seq(Queued(P)) /\ seen \in SUBSET View(P)
      /\ regular \in Seq(View(P)) /\ views \in Seq(Scanned(P))
      /\ findings \in Seq(Found(P))
      /\ resolved = IF phase = "done" THEN resolve_overlaps(findings) ELSE <<>>
  BY TextIs DEF VInv
<1>1. CASE SkipSeen
  BY <1>0, <1>1 DEF VInv, SkipSeen
<1>2. CASE \/ RefuseView \/ DecodeFails \/ RefuseCollapsed
           \/ \E v \in DOMAIN views : DetectorPanics(v)
  BY <1>0, <1>2 DEF VInv, RefuseView, DecodeFails, RefuseCollapsed, Refusal,
                    DetectorPanics
<1>3. CASE TakeView
  <2> DEFINE head == Head(queue)
             more == Queueing(HeadDecodings, head.depth)
  <2>1. /\ queue # <<>> /\ head \in Queued(P) /\ more \in Seq(Queued(P))
        /\ queue' = Tail(queue) \o more
        /\ seen' = seen \cup {head.view} /\ regular' = Append(regular, head.view)
        /\ UNCHANGED <<text, phase, views, findings, resolved>>
    BY <1>3, TakeIs
  <2>2. head.view \in View(P)
    BY <2>1 DEF Queued
  <2> HIDE DEF P, head, more
  <2>3. queue' \in Seq(Queued(P))
    BY <1>0, <2>1, QueueStep
  <2>4. seen' \in SUBSET View(P) /\ regular' \in Seq(View(P))
    BY <1>0, <2>1, <2>2
  <2> QED BY <1>0, <2>1, <2>3, <2>4 DEF VInv, P
<1>4. CASE Composed \/ Collapsed
  BY <1>0, <1>4 DEF VInv, Composed, Collapsed
<1>5. CASE Collapse
  <2>1. Head(regular) \in View(P) /\ Tail(regular) \in Seq(View(P))
    BY <1>0, <1>5 DEF Collapse
  <2>2. CollapsedToo(Head(regular)) \in Seq(Scanned(P))
    BY <1>0, <2>1, CollapsedIs
  <2>3. views' = views \o CollapsedToo(Head(regular)) /\ regular' = Tail(regular)
        /\ UNCHANGED <<text, phase, queue, seen, findings, resolved>>
    BY <1>5 DEF Collapse
  <2> HIDE DEF P
  <2>4. views' \in Seq(Scanned(P))
    BY <1>0, <2>2, <2>3
  <2> QED BY <1>0, <2>1, <2>3, <2>4 DEF VInv, P
<1>6. ASSUME NEW v \in DOMAIN views, NEW class \in DOMAIN ActionOf,
             NEW part \in Matches(views[v].view), Detect(v, part[1], part[2], class)
      PROVE  VInv'
  <2>1. views[v].view \in View(P)
    <3> HIDE DEF P
    <3>1. views[v] \in Scanned(P)
      BY <1>0
    <3> QED BY <3>1 DEF Scanned
  <2> DEFINE found == finding(views[v].view, part[1], part[2], class)
  <2>2. found \in Found(P)
    BY <1>0, <2>1, FindingIs
  <2>3. findings' = Append(findings, found) /\ phase = "detect"
        /\ UNCHANGED <<text, phase, queue, seen, regular, views, resolved>>
    BY <1>6 DEF Detect
  <2> HIDE DEF P, found
  <2>4. findings' \in Seq(Found(P))
    BY <1>0, <2>2, <2>3
  <2> QED BY <1>0, <2>3, <2>4 DEF VInv, P
<1>7. CASE Resolve
  BY <1>0, <1>7 DEF VInv, Resolve
<1> QED BY <1>1, <1>2, <1>3, <1>4, <1>5, <1>6, <1>7 DEF Next

\* Every view and every finding of a scan lies on whole characters of its text.
THEOREM ScanInvariant == Spec => []VInv
<1>1. Init => VInv
  <2> SUFFICES ASSUME Init PROVE VInv
    OBVIOUS
  <2> DEFINE P == Boundaries(text.source)
  <2>1. text \in Texts /\ queue = <<Root(text.source)>> /\ phase = "compose"
        /\ seen = {} /\ regular = <<>> /\ views = <<>> /\ findings = <<>> /\ resolved = <<>>
    BY DEF Init
  <2>2. normalize(text.source) \in View(P)
    BY <2>1, TextIs, NormalizeIs
  <2> HIDE DEF P
  <2>3. Root(text.source) \in Queued(P)
    BY <2>2 DEF Root, Queued
  <2>4. queue \in Seq(Queued(P))
    BY <2>1, <2>3
  <2> QED BY <2>1, <2>4 DEF VInv, P
<1>2. VInv /\ [Next]_vars => VInv'
  <2> SUFFICES ASSUME VInv, [Next]_vars PROVE VInv'
    OBVIOUS
  <2>1. CASE UNCHANGED vars
    BY <2>1 DEF VInv, vars
  <2> QED BY <2>1, ViewStep
<1> QED BY <1>1, <1>2, PTL DEF Spec

-----------------------------------------------------------------------------
(* What becomes of the findings.                                           *)

\* The findings of a scan are findings for resolve_overlaps.
LEMMA ResolvedIs ==
  ASSUME VInv
  PROVE  /\ findings \in Seq(Finding(DOMAIN ActionOf))
         /\ findings \in Seq(Found(Boundaries(text.source)))
         /\ \A f \in Found(Boundaries(text.source)) :
              /\ f \in Finding(DOMAIN ActionOf)
              /\ f.start \in Boundaries(text.source) /\ f.end \in Boundaries(text.source)
         /\ phase # "done" => resolved = <<>>
         /\ phase = "done" => Resolves(DOMAIN ActionOf, resolved, findings)
<1> DEFINE P == Boundaries(text.source)
<1>1. /\ P \in SUBSET Nat /\ findings \in Seq(Found(P))
      /\ resolved = IF phase = "done" THEN resolve_overlaps(findings) ELSE <<>>
  BY TextIs DEF VInv
<1> HIDE DEF P
<1>2. Found(P) \subseteq Finding(DOMAIN ActionOf)
  BY <1>1 DEF Found, Finding
<1>3. findings \in Seq(Finding(DOMAIN ActionOf))
  BY <1>1, <1>2
<1>4. \A f \in Found(P) : f.start \in P /\ f.end \in P
  BY DEF Found
<1>5. phase = "done" => Resolves(DOMAIN ActionOf, resolved, findings)
  BY <1>1, <1>3, ResolveOverlaps
<1> QED BY <1>1, <1>2, <1>3, <1>4, <1>5 DEF P

\* The bounds and strengths of the findings and of what they are resolved to.
LEMMA ResolvedFields ==
  ASSUME VInv, phase = "done"
  PROVE  /\ \A i \in DOMAIN findings :
              /\ findings[i].start \in Nat /\ findings[i].end \in Nat
              /\ findings[i].start < findings[i].end
              /\ precedence(findings[i].action) \in Nat
         /\ \A j \in DOMAIN resolved :
              /\ resolved[j].start \in Nat /\ resolved[j].end \in Nat
              /\ resolved[j].start < resolved[j].end
              /\ precedence(resolved[j].action) \in Nat
         /\ \A i \in DOMAIN resolved : i \in Nat
<1>1. /\ findings \in Seq(Finding(DOMAIN ActionOf))
      /\ resolved \in Seq(Finding(DOMAIN ActionOf))
  BY ResolvedIs DEF Resolves
<1>2. \A f \in Finding(DOMAIN ActionOf) :
        /\ f.start \in Nat /\ f.end \in Nat /\ f.start < f.end
        /\ precedence(f.action) \in Nat
  BY FindingFields, PrecedenceType
<1>3. /\ \A i \in DOMAIN findings : findings[i] \in Finding(DOMAIN ActionOf)
      /\ \A j \in DOMAIN resolved : resolved[j] \in Finding(DOMAIN ActionOf) /\ j \in Nat
  BY <1>1
<1> QED BY <1>2, <1>3

\* DisjointAscending: what apply_rewrites replaces is disjoint and in order,
\* for any text, any matches and any limits.
THEOREM DisjointAscendingHolds == Spec => []DisjointAscending
<1>1. VInv => DisjointAscending
  <2> SUFFICES ASSUME VInv PROVE DisjointAscending
    OBVIOUS
  <2>1. CASE phase = "done"
    BY <2>1, ResolvedIs DEF Resolves, Apart, DisjointAscending
  <2>2. CASE phase # "done"
    BY <2>2, ResolvedIs DEF DisjointAscending
  <2> QED BY <2>1, <2>2
<1> QED BY <1>1, ScanInvariant, PTL

\* NeverWeaker: every finding lies in one resolved span that is handled at
\* least as strongly.
THEOREM NeverWeakerHolds == Spec => []NeverWeaker
<1>1. VInv => NeverWeaker
  <2> SUFFICES ASSUME VInv, phase = "done", NEW i \in DOMAIN findings
               PROVE  \E j \in DOMAIN resolved :
                        /\ Positions(findings[i]) \subseteq Positions(resolved[j])
                        /\ precedence(resolved[j].action) >= precedence(findings[i].action)
    BY DEF NeverWeaker
  <2>1. PICK j \in DOMAIN resolved :
          /\ Within(findings[i], resolved[j])
          /\ precedence(findings[i].action) <= precedence(resolved[j].action)
    BY ResolvedIs DEF Resolves
  <2>2. Positions(findings[i]) \subseteq Positions(resolved[j])
    BY <2>1, ResolvedFields DEF Within, Positions
  <2>3. precedence(resolved[j].action) >= precedence(findings[i].action)
    BY <2>1, ResolvedFields
  <2> QED BY <2>2, <2>3
<1> QED BY <1>1, ScanInvariant, PTL

\* NothingInvented: the resolved spans cover what the findings cover, and each
\* carries the class and action of a finding inside it.
THEOREM NothingInventedHolds == Spec => []NothingInvented
<1>1. VInv => NothingInvented
  <2> SUFFICES ASSUME VInv, phase = "done"
               PROVE  /\ UNION {Positions(resolved[j]) : j \in DOMAIN resolved}
                           = UNION {Positions(findings[i]) : i \in DOMAIN findings}
                      /\ \A j \in DOMAIN resolved : \E i \in DOMAIN findings :
                           /\ Positions(findings[i]) \subseteq Positions(resolved[j])
                           /\ findings[i].action = resolved[j].action
                           /\ findings[i].data_class = resolved[j].data_class
    BY DEF NothingInvented
  <2>1. /\ \A i \in DOMAIN findings : \E j \in DOMAIN resolved :
             Within(findings[i], resolved[j])
        /\ \A j \in DOMAIN resolved : \E i \in DOMAIN findings :
             /\ Within(findings[i], resolved[j])
             /\ resolved[j].action = findings[i].action
             /\ resolved[j].data_class = findings[i].data_class
        /\ \A j \in DOMAIN resolved : \A p \in resolved[j].start..resolved[j].end - 1 :
             \E i \in DOMAIN findings : findings[i].start <= p /\ p < findings[i].end
    BY ResolvedIs DEF Resolves
  <2>2. \A i \in DOMAIN findings, j \in DOMAIN resolved :
          Within(findings[i], resolved[j]) =>
            Positions(findings[i]) \subseteq Positions(resolved[j])
    BY ResolvedFields DEF Within, Positions
  <2>3. \A j \in DOMAIN resolved : \A p \in Positions(resolved[j]) :
          \E i \in DOMAIN findings : p \in Positions(findings[i])
    <3> SUFFICES ASSUME NEW j \in DOMAIN resolved, NEW p \in Positions(resolved[j])
                 PROVE  \E i \in DOMAIN findings : p \in Positions(findings[i])
      OBVIOUS
    <3>1. p \in resolved[j].start..resolved[j].end - 1
      BY DEF Positions
    <3>2. PICK i \in DOMAIN findings : findings[i].start <= p /\ p < findings[i].end
      BY <2>1, <3>1
    <3>3. p \in Positions(findings[i])
      BY <3>1, <3>2, ResolvedFields DEF Positions
    <3> QED BY <3>3
  <2>4. \A i \in DOMAIN findings : \A p \in Positions(findings[i]) :
          \E j \in DOMAIN resolved : p \in Positions(resolved[j])
    BY <2>1, <2>2
  <2>5. \A j \in DOMAIN resolved : \E i \in DOMAIN findings :
          /\ Positions(findings[i]) \subseteq Positions(resolved[j])
          /\ findings[i].action = resolved[j].action
          /\ findings[i].data_class = resolved[j].data_class
    BY <2>1, <2>2
  <2>6. UNION {Positions(resolved[j]) : j \in DOMAIN resolved}
          = UNION {Positions(findings[i]) : i \in DOMAIN findings}
    BY <2>3, <2>4
  <2> QED BY <2>5, <2>6
<1> QED BY <1>1, ScanInvariant, PTL

\* A span that String::replace_range accepts: it is not empty, lies in the
\* text, and begins and ends between two characters.
OnCharacters(f) ==
  /\ f.start \in Boundaries(text.source) /\ f.end \in Boundaries(text.source)
  /\ f.start < f.end

SpansOnCharacters ==
  /\ \A i \in DOMAIN findings : OnCharacters(findings[i])
  /\ \A j \in DOMAIN resolved : OnCharacters(resolved[j])

\* Whatever the decodings expand, drop or compose, a finding and a resolved
\* span can be replaced in the text.
THEOREM SpansOnCharactersHolds == Spec => []SpansOnCharacters
<1>1. VInv => SpansOnCharacters
  <2> SUFFICES ASSUME VInv PROVE SpansOnCharacters
    OBVIOUS
  <2> DEFINE P == Boundaries(text.source)
  <2>1. \A i \in DOMAIN findings : /\ findings[i].start \in P /\ findings[i].end \in P
                                   /\ findings[i].start < findings[i].end
    <3>1. /\ findings \in Seq(Found(P))
          /\ \A f \in Found(P) : /\ f \in Finding(DOMAIN ActionOf)
                                 /\ f.start \in P /\ f.end \in P
      BY ResolvedIs
    <3> HIDE DEF P
    <3>2. \A i \in DOMAIN findings : findings[i] \in Found(P)
      BY <3>1
    <3> QED BY <3>1, <3>2, FindingFields
  <2>2. ASSUME NEW j \in DOMAIN resolved
        PROVE  OnCharacters(resolved[j])
    <3>1. phase = "done"
      BY ResolvedIs
    <3>2. Resolves(DOMAIN ActionOf, resolved, findings)
      BY <3>1, ResolvedIs
    <3> DEFINE s == resolved[j].start
               e == resolved[j].end
    <3>3. s \in Nat /\ e \in Nat /\ s < e
      BY <3>1, ResolvedFields
    <3>4. ASSUME NEW p \in s..e - 1
          PROVE  \E i \in DOMAIN findings : /\ findings[i].start <= p /\ p < findings[i].end
                                            /\ s <= findings[i].start /\ findings[i].end <= e
      <4>1. PICK i \in DOMAIN findings : findings[i].start <= p /\ p < findings[i].end
        BY <3>2 DEF Resolves
      <4>2. PICK k \in DOMAIN resolved : Within(findings[i], resolved[k])
        BY <3>2 DEF Resolves
      <4>3. resolved[k].start <= p /\ p < resolved[k].end
        BY <3>1, <3>3, <4>1, <4>2, ResolvedFields DEF Within
      <4>4. \A a, b \in DOMAIN resolved : a < b => resolved[a].end <= resolved[b].start
        BY <3>2 DEF Resolves, Apart
      <4>5. ~(k < j)
        BY <3>1, <3>3, <4>3, <4>4, ResolvedFields
      <4>6. ~(j < k)
        BY <3>1, <3>3, <4>3, <4>4, ResolvedFields
      <4>7. k = j
        BY <3>1, <4>5, <4>6, ResolvedFields
      <4> QED BY <4>1, <4>2, <4>7 DEF Within
    <3>5. s \in P
      <4>1. s \in s..e - 1
        BY <3>3
      <4>2. PICK i \in DOMAIN findings : findings[i].start <= s /\ s <= findings[i].start
        BY <3>4, <4>1
      <4>3. findings[i].start = s
        BY <3>1, <3>3, <4>2, ResolvedFields
      <4> QED BY <2>1, <4>3
    <3>6. e \in P
      <4>1. e - 1 \in s..e - 1
        BY <3>3
      <4>2. PICK i \in DOMAIN findings : e - 1 < findings[i].end /\ findings[i].end <= e
        BY <3>4, <4>1
      <4>3. findings[i].end = e
        BY <3>1, <3>3, <4>2, ResolvedFields
      <4> QED BY <2>1, <4>3
    <3> QED BY <3>3, <3>5, <3>6 DEF OnCharacters
  <2> QED BY <2>1, <2>2 DEF SpansOnCharacters, OnCharacters
<1> QED BY <1>1, ScanInvariant, PTL

-----------------------------------------------------------------------------
(* Which views are scanned.                                                *)

LayerStep(h, root, k) == IF k = 0 THEN {root} ELSE Layer(h[k - 1])

IsLayers(h, root) == h = [k \in 0..MaxDecodeLayers |-> LayerStep(h, root, k)]

\* The forms of a text by the number of decodings they take.
Layers(source) == CHOOSE h : IsLayers(h, normalize(source))

\* What one more decoding makes of a view.
NextForms(view) ==
  {canonicalize(d) : d \in {e \in Range(Decodings(view)) : ValidUtf8(e)}}

\* The recursion of Forms has a solution.
LEMMA LayersExist ==
  ASSUME NEW root
  PROVE  \E h : IsLayers(h, root)
<1> DEFINE Solves(h, k) == h = [n \in 0..k |-> LayerStep(h, root, n)]
           Bad == {k \in Nat : ~\E h : Solves(h, k)}
<1>1. Bad = {}
  <2> SUFFICES ASSUME Bad # {} PROVE FALSE
    OBVIOUS
  <2>1. PICK k \in Bad : \A m \in Bad : k <= m
    <3>1. Bad \in SUBSET Nat
      OBVIOUS
    <3> HIDE DEF Bad
    <3> QED BY <3>1, LeastNatural
  <2>2. k # 0
    <3>1. Solves([n \in 0..0 |-> {root}], 0)
      BY DEF LayerStep
    <3> QED BY <3>1, <2>1
  <2>3. k - 1 \in Nat /\ k - 1 \notin Bad
    BY <2>1, <2>2
  <2>4. PICK h : Solves(h, k - 1)
    BY <2>3
  <2> DEFINE g == [n \in 0..k |-> IF n = k THEN Layer(h[k - 1]) ELSE h[n]]
  <2>5. k \in Nat \ {0}
    BY <2>2
  <2>6. g[k] = LayerStep(g, root, k)
    BY <2>5 DEF LayerStep
  <2>7. ASSUME NEW n \in 0..k - 1 PROVE g[n] = LayerStep(g, root, n)
    <3>1. g[n] = h[n] /\ h[n] = LayerStep(h, root, n)
      BY <2>4, <2>5
    <3>2. CASE n = 0
      BY <3>1, <3>2 DEF LayerStep
    <3>3. CASE n # 0
      <4>1. g[n - 1] = h[n - 1]
        BY <2>5, <3>3
      <4> HIDE DEF g
      <4> QED BY <3>1, <3>3, <4>1 DEF LayerStep
    <3> QED BY <3>2, <3>3
  <2>8. g = [n \in 0..k |-> g[n]]
    OBVIOUS
  <2> HIDE DEF g
  <2>9. \A n \in 0..k : g[n] = LayerStep(g, root, n)
    BY <2>5, <2>6, <2>7
  <2>10. Solves(g, k)
    BY <2>8, <2>9
  <2> QED BY <2>1, <2>10
<1>2. MaxDecodeLayers \notin Bad
  BY <1>1
<1>3. MaxDecodeLayers \in Nat
  BY ScannerAssumption
<1> QED BY <1>2, <1>3 DEF IsLayers

\* The layers, and the forms they make up.
LEMMA LayersAre ==
  LET h == Layers(text.source)
  IN  /\ h[0] = {normalize(text.source)}
      /\ \A k \in 1..MaxDecodeLayers : h[k] = Layer(h[k - 1])
      /\ Forms = UNION {h[k] : k \in 0..MaxDecodeLayers}
<1> DEFINE h == Layers(text.source)
<1>1. IsLayers(h, normalize(text.source))
  BY LayersExist, Zenon DEF Layers
<1>2. Forms = UNION {h[k] : k \in 0..MaxDecodeLayers}
  BY Zenon DEF Forms, Layers, IsLayers, LayerStep
<1> HIDE DEF h
<1>3. MaxDecodeLayers \in Nat
  BY ScannerAssumption
<1>4. h[0] = {normalize(text.source)}
  BY <1>1, <1>3 DEF IsLayers, LayerStep
<1>5. ASSUME NEW k \in 1..MaxDecodeLayers PROVE h[k] = Layer(h[k - 1])
  <2>1. k \in 0..MaxDecodeLayers /\ k # 0
    BY <1>3
  <2>2. h[k] = LayerStep(h, normalize(text.source), k)
    BY <1>1, <2>1, Zenon DEF IsLayers
  <2> QED BY <2>1, <2>2, Zenon DEF LayerStep
<1> QED BY <1>2, <1>4, <1>5 DEF h

\* A form of a form is in the next layer, and all of a layer are such.
LEMMA LayerIs ==
  ASSUME NEW from
  PROVE  \A w : w \in Layer(from) <=> \E v \in from : w \in NextForms(v)
BY Zenon DEF Layer, NextForms

\* Looked at with at most d decodings, or queued with no more.
Reached(dep, w, d) ==
  \/ w \in seen /\ dep[w] <= d
  \/ \E i \in DOMAIN queue : queue[i].view = w /\ queue[i].depth <= d

\* dep is the depth at which each view was looked at.  The queue is in the
\* order of depth, so that a view is looked at first where it has the most
\* decodings left; what is skipped later could have led nowhere else.
Explored(dep) ==
  LET layer == Layers(text.source)
  IN  /\ \A i \in DOMAIN queue : /\ queue[i].depth <= MaxDecodeLayers
                                 /\ queue[i].view \in layer[queue[i].depth]
      /\ \A i, j \in DOMAIN queue :
           i < j => /\ queue[i].depth <= queue[j].depth
                    /\ queue[j].depth <= queue[i].depth + 1
      /\ \A v \in seen : /\ dep[v] \in 0..MaxDecodeLayers /\ v \in layer[dep[v]]
                         /\ \A i \in DOMAIN queue : dep[v] <= queue[i].depth
      /\ \A v \in seen : dep[v] < MaxDecodeLayers =>
           \A w \in NextForms(v) : Reached(dep, w, dep[v] + 1)
      /\ Reached(dep, normalize(text.source), 0)

\* The queue holds typed entries.
LEMMA QueueFields ==
  ASSUME VInv
  PROVE  /\ Len(queue) \in Nat /\ DOMAIN queue = 1..Len(queue)
         /\ \A i \in DOMAIN queue : queue[i].depth \in Nat
         /\ MaxDecodeLayers \in Nat
<1> DEFINE P == Boundaries(text.source)
<1>1. queue \in Seq(Queued(P))
  BY DEF VInv
<1> HIDE DEF P
<1>2. \A q \in Queued(P) : q.depth \in Nat
  BY DEF Queued
<1> QED BY <1>1, <1>2, ScannerAssumption

\* A view already looked at led everywhere it can lead from here.
LEMMA ExploreSkip ==
  ASSUME VInv, SkipSeen, NEW dep, Explored(dep)
  PROVE  Explored(dep)'
<1> DEFINE layer == Layers(text.source)
<1>1. /\ queue # <<>> /\ Head(queue).view \in seen /\ queue' = Tail(queue)
      /\ seen' = seen /\ text' = text
  BY DEF SkipSeen
<1>2. /\ Len(queue) \in Nat /\ DOMAIN queue = 1..Len(queue)
      /\ \A i \in DOMAIN queue : queue[i].depth \in Nat
      /\ MaxDecodeLayers \in Nat
  BY QueueFields
<1>3. /\ 1 \in DOMAIN queue /\ Head(queue) = queue[1]
      /\ DOMAIN queue' = 1..Len(queue) - 1
      /\ \A i \in DOMAIN queue' : i + 1 \in DOMAIN queue /\ queue'[i] = queue[i + 1]
      /\ \A i \in DOMAIN queue : i # 1 => i - 1 \in DOMAIN queue' /\ queue'[i - 1] = queue[i]
  BY <1>1, <1>2, QueueStep DEF VInv
<1>4. layer' = layer
  BY <1>1
<1>5. /\ \A i \in DOMAIN queue : /\ queue[i].depth <= MaxDecodeLayers
                                 /\ queue[i].view \in layer[queue[i].depth]
      /\ \A i, j \in DOMAIN queue :
           i < j => /\ queue[i].depth <= queue[j].depth
                    /\ queue[j].depth <= queue[i].depth + 1
      /\ \A v \in seen : /\ dep[v] \in 0..MaxDecodeLayers /\ v \in layer[dep[v]]
                         /\ \A i \in DOMAIN queue : dep[v] <= queue[i].depth
      /\ \A v \in seen : dep[v] < MaxDecodeLayers =>
           \A w \in NextForms(v) : Reached(dep, w, dep[v] + 1)
      /\ Reached(dep, normalize(text.source), 0)
  BY DEF Explored
<1> HIDE DEF layer
<1>6. ASSUME NEW w, NEW d \in Nat, Reached(dep, w, d)
      PROVE  Reached(dep, w, d)'
  <2>1. CASE w \in seen /\ dep[w] <= d
    BY <1>1, <2>1 DEF Reached
  <2>2. ASSUME NEW i \in DOMAIN queue, queue[i].view = w, queue[i].depth <= d
        PROVE  Reached(dep, w, d)'
    <3>1. CASE i = 1
      <4>1. w \in seen /\ dep[w] <= queue[1].depth /\ dep[w] \in Nat
        BY <1>1, <1>3, <1>5, <2>2, <3>1
      <4>2. dep[w] <= d
        BY <1>2, <2>2, <3>1, <4>1
      <4> QED BY <1>1, <4>1, <4>2 DEF Reached
    <3>2. CASE i # 1
      <4>1. i - 1 \in DOMAIN queue' /\ queue'[i - 1] = queue[i]
        BY <1>3, <3>2
      <4> QED BY <2>2, <4>1 DEF Reached
    <3> QED BY <3>1, <3>2
  <2> QED BY <1>6, <2>1, <2>2 DEF Reached
<1>7. \A i \in DOMAIN queue' : /\ queue'[i].depth <= MaxDecodeLayers
                               /\ queue'[i].view \in layer[queue'[i].depth]
  BY <1>3, <1>5
<1>8. \A i, j \in DOMAIN queue' :
        i < j => /\ queue'[i].depth <= queue'[j].depth
                 /\ queue'[j].depth <= queue'[i].depth + 1
  <2> SUFFICES ASSUME NEW i \in DOMAIN queue', NEW j \in DOMAIN queue', i < j
               PROVE  /\ queue'[i].depth <= queue'[j].depth
                      /\ queue'[j].depth <= queue'[i].depth + 1
    OBVIOUS
  <2>1. i + 1 \in DOMAIN queue /\ j + 1 \in DOMAIN queue /\ i + 1 < j + 1
        /\ queue'[i] = queue[i + 1] /\ queue'[j] = queue[j + 1]
    BY <1>2, <1>3
  <2> QED BY <1>5, <2>1
<1>9. \A v \in seen : \A i \in DOMAIN queue' : dep[v] <= queue'[i].depth
  BY <1>3, <1>5
<1>10. \A v \in seen : dep[v] < MaxDecodeLayers =>
         \A w \in NextForms(v) : Reached(dep, w, dep[v] + 1)'
  <2> SUFFICES ASSUME NEW v \in seen, dep[v] < MaxDecodeLayers, NEW w \in NextForms(v)
               PROVE  Reached(dep, w, dep[v] + 1)'
    OBVIOUS
  <2>1. Reached(dep, w, dep[v] + 1) /\ dep[v] + 1 \in Nat
    BY <1>5
  <2> QED BY <1>6, <2>1
<1>11. Reached(dep, normalize(text.source), 0)'
  <2>1. \A w : Reached(dep, w, 0) => Reached(dep, w, 0)'
    BY <1>6
  <2> QED BY <1>1, <1>5, <2>1 DEF Reached
<1> QED BY <1>1, <1>4, <1>5, <1>7, <1>8, <1>9, <1>10, <1>11 DEF Explored, layer

\* A view looked at leaves its decodings at the end of the queue.
LEMMA ExploreTake ==
  ASSUME VInv, TakeView, NEW dep, Explored(dep)
  PROVE  \E e : Explored(e)'
<1> DEFINE layer == Layers(text.source)
           head == Head(queue)
           next == HeadDecodings
           more == Queueing(next, head.depth)
           n == Len(queue) - 1
<1>1. /\ queue # <<>>
      /\ \A i \in DOMAIN next : ValidUtf8(next[i])
      /\ DOMAIN more = DOMAIN next
      /\ \A i \in DOMAIN next : /\ more[i].view = canonicalize(next[i])
                                /\ more[i].depth = head.depth + 1
      /\ queue' = Tail(queue) \o more
      /\ seen' = seen \cup {head.view} /\ head.view \notin seen
      /\ text' = text
  BY TakeIs
<1>2. /\ Len(queue) \in Nat /\ DOMAIN queue = 1..Len(queue)
      /\ \A i \in DOMAIN queue : queue[i].depth \in Nat
      /\ MaxDecodeLayers \in Nat
  BY QueueFields
<1>3. /\ head = queue[1] /\ 1 \in DOMAIN queue
      /\ \A i \in DOMAIN queue' :
           \/ i \in 1..n /\ i + 1 \in DOMAIN queue /\ queue'[i] = queue[i + 1]
           \/ i \in Nat /\ i > n /\ i - n \in DOMAIN more /\ queue'[i] = more[i - n]
      /\ \A i \in DOMAIN queue : i # 1 => i - 1 \in DOMAIN queue' /\ queue'[i - 1] = queue[i]
      /\ \A i \in DOMAIN more : i + n \in DOMAIN queue' /\ queue'[i + n] = more[i]
  <2> DEFINE P == Boundaries(text.source)
  <2>1. queue \in Seq(Queued(P)) /\ more \in Seq(Queued(P))
    BY TakeIs DEF VInv
  <2> HIDE DEF P, more, head, next
  <2>2. /\ Head(queue) = queue[1] /\ 1 \in DOMAIN queue
        /\ \A i \in DOMAIN queue' :
             \/ i \in 1..n /\ i + 1 \in DOMAIN queue /\ queue'[i] = queue[i + 1]
             \/ /\ i \in Len(queue)..Len(queue') /\ i - n \in DOMAIN more
                /\ queue'[i] = more[i - n]
        /\ \A i \in DOMAIN queue : i # 1 => i - 1 \in DOMAIN queue' /\ queue'[i - 1] = queue[i]
        /\ \A i \in DOMAIN more : i + n \in DOMAIN queue' /\ queue'[i + n] = more[i]
    BY <1>1, <2>1, QueueStep, SMTT(30)
  <2>3. queue' \in Seq(Queued(P))
    BY <1>1, <2>1, QueueStep
  <2>4. Len(queue') \in Nat
    BY <2>3
  <2> QED BY <1>2, <2>2, <2>4 DEF head
<1>4. layer' = layer
  BY <1>1
<1>5. /\ \A i \in DOMAIN queue : /\ queue[i].depth <= MaxDecodeLayers
                                 /\ queue[i].view \in layer[queue[i].depth]
      /\ \A i, j \in DOMAIN queue :
           i < j => /\ queue[i].depth <= queue[j].depth
                    /\ queue[j].depth <= queue[i].depth + 1
      /\ \A v \in seen : /\ dep[v] \in 0..MaxDecodeLayers /\ v \in layer[dep[v]]
                         /\ \A i \in DOMAIN queue : dep[v] <= queue[i].depth
      /\ \A v \in seen : dep[v] < MaxDecodeLayers =>
           \A w \in NextForms(v) : Reached(dep, w, dep[v] + 1)
      /\ Reached(dep, normalize(text.source), 0)
  BY DEF Explored
<1>6. next = IF head.depth < MaxDecodeLayers THEN Decodings(head.view) ELSE <<>>
  BY DEF HeadDecodings, Decodable
<1>7. /\ \A k \in 1..MaxDecodeLayers : layer[k] = Layer(layer[k - 1])
  BY LayersAre
<1> HIDE DEF layer, more, next, n
<1> DEFINE d == head.depth
<1>8. d \in Nat /\ d <= MaxDecodeLayers /\ head.view \in layer[d]
  BY <1>2, <1>3, <1>5
<1>9. PICK e : e = [v \in seen \cup {head.view} |-> IF v = head.view THEN d ELSE dep[v]]
  OBVIOUS
<1> HIDE DEF head, d
<1>10. e[head.view] = d /\ \A v \in seen : e[v] = dep[v]
  BY <1>1, <1>9
<1>11. \A i \in DOMAIN queue : d <= queue[i].depth /\ queue[i].depth <= d + 1
  <2> SUFFICES ASSUME NEW i \in DOMAIN queue
               PROVE  d <= queue[i].depth /\ queue[i].depth <= d + 1
    OBVIOUS
  <2>1. CASE i = 1
    BY <1>2, <1>3, <2>1 DEF d
  <2>2. CASE i # 1
    <3>1. 1 < i
      BY <1>2, <2>2
    <3> QED BY <1>3, <1>5, <3>1 DEF d
  <2> QED BY <2>1, <2>2
<1>12. ASSUME NEW i \in DOMAIN next
       PROVE  /\ d < MaxDecodeLayers /\ more[i].depth = d + 1
              /\ more[i].view \in NextForms(head.view)
              /\ more[i].view \in layer[d + 1]
  <2>1. d < MaxDecodeLayers /\ next = Decodings(head.view)
    BY <1>6 DEF d
  <2>2. more[i].view = canonicalize(next[i]) /\ more[i].depth = d + 1 /\ ValidUtf8(next[i])
    BY <1>1 DEF d
  <2>3. next[i] \in Range(Decodings(head.view))
    BY <2>1 DEF Range
  <2>4. more[i].view \in NextForms(head.view)
    BY <2>2, <2>3 DEF NextForms
  <2>5. d + 1 \in 1..MaxDecodeLayers /\ (d + 1) - 1 = d
    BY <1>2, <1>8, <2>1
  <2>6. layer[d + 1] = Layer(layer[d])
    BY <1>7, <2>5
  <2>7. more[i].view \in Layer(layer[d])
    BY <1>8, <2>4, LayerIs
  <2> QED BY <2>1, <2>2, <2>4, <2>6, <2>7
<1>13. ASSUME NEW w \in NextForms(head.view), d < MaxDecodeLayers
       PROVE  \E i \in DOMAIN more : more[i].view = w /\ more[i].depth = d + 1
  <2>1. next = Decodings(head.view)
    BY <1>6, <1>13 DEF d
  <2>2. PICK x \in Range(next) : w = canonicalize(x)
    BY <2>1 DEF NextForms
  <2>3. PICK i \in DOMAIN next : next[i] = x
    BY <2>2 DEF Range
  <2> QED BY <1>1, <2>2, <2>3 DEF d
<1>14. ASSUME NEW w, NEW k \in Nat, Reached(dep, w, k)
       PROVE  Reached(e, w, k)'
  <2>1. CASE w \in seen /\ dep[w] <= k
    BY <1>1, <1>10, <2>1 DEF Reached
  <2>2. ASSUME NEW i \in DOMAIN queue, queue[i].view = w, queue[i].depth <= k
        PROVE  Reached(e, w, k)'
    <3>1. CASE i = 1
      <4>1. w = head.view /\ d <= k
        BY <1>3, <2>2, <3>1 DEF d
      <4> QED BY <1>1, <1>10, <4>1 DEF Reached
    <3>2. CASE i # 1
      <4>1. i - 1 \in DOMAIN queue' /\ queue'[i - 1] = queue[i]
        BY <1>3, <3>2
      <4> QED BY <2>2, <4>1 DEF Reached
    <3> QED BY <3>1, <3>2
  <2> QED BY <1>14, <2>1, <2>2 DEF Reached
<1>15. \A i \in DOMAIN queue' : /\ queue'[i].depth <= MaxDecodeLayers
                                /\ queue'[i].view \in layer[queue'[i].depth]
                                /\ d <= queue'[i].depth /\ queue'[i].depth <= d + 1
                                /\ queue'[i].depth \in Nat
  <2> SUFFICES ASSUME NEW i \in DOMAIN queue'
               PROVE  /\ queue'[i].depth <= MaxDecodeLayers
                      /\ queue'[i].view \in layer[queue'[i].depth]
                      /\ d <= queue'[i].depth /\ queue'[i].depth <= d + 1
                      /\ queue'[i].depth \in Nat
    OBVIOUS
  <2>1. CASE i + 1 \in DOMAIN queue /\ queue'[i] = queue[i + 1]
    BY <1>2, <1>5, <1>11, <2>1
  <2>2. CASE i - n \in DOMAIN more /\ queue'[i] = more[i - n]
    <3>1. /\ d < MaxDecodeLayers /\ queue'[i].depth = d + 1
          /\ queue'[i].view \in layer[d + 1]
      BY <1>1, <1>12, <2>2
    <3> QED BY <1>2, <1>8, <3>1
  <2> QED BY <1>3, <2>1, <2>2
<1>16. \A i, j \in DOMAIN queue' :
         i < j => /\ queue'[i].depth <= queue'[j].depth
                  /\ queue'[j].depth <= queue'[i].depth + 1
  <2> SUFFICES ASSUME NEW i \in DOMAIN queue', NEW j \in DOMAIN queue', i < j
               PROVE  /\ queue'[i].depth <= queue'[j].depth
                      /\ queue'[j].depth <= queue'[i].depth + 1
    OBVIOUS
  <2>0. n \in Nat
    BY <1>2, <1>3 DEF n
  <2>1. CASE j - n \in DOMAIN more /\ queue'[j] = more[j - n]
    <3>1. queue'[j].depth = d + 1
      BY <1>1, <1>12, <2>1
    <3> QED BY <1>8, <1>15, <3>1
  <2>2. CASE j \in 1..n /\ j + 1 \in DOMAIN queue /\ queue'[j] = queue[j + 1]
    <3>1. i \in Nat /\ i <= n
      BY <1>3, <2>0, <2>2
    <3>2. i + 1 \in DOMAIN queue /\ queue'[i] = queue[i + 1] /\ i + 1 < j + 1
      BY <1>3, <2>0, <2>2, <3>1
    <3> QED BY <1>5, <2>2, <3>2
  <2> QED BY <1>3, <2>1, <2>2
<1>17. \A v \in seen' : /\ e[v] \in 0..MaxDecodeLayers /\ v \in layer[e[v]]
                        /\ \A i \in DOMAIN queue' : e[v] <= queue'[i].depth
  <2> SUFFICES ASSUME NEW v \in seen'
               PROVE  /\ e[v] \in 0..MaxDecodeLayers /\ v \in layer[e[v]]
                      /\ \A i \in DOMAIN queue' : e[v] <= queue'[i].depth
    OBVIOUS
  <2>1. CASE v = head.view
    BY <1>2, <1>8, <1>10, <1>15, <2>1
  <2>2. CASE v \in seen
    <3>1. e[v] = dep[v] /\ dep[v] \in 0..MaxDecodeLayers /\ v \in layer[dep[v]] /\ dep[v] <= d
      BY <1>3, <1>5, <1>10, <2>2 DEF d
    <3> QED BY <1>2, <1>8, <1>15, <3>1
  <2> QED BY <1>1, <2>1, <2>2
<1>18. \A v \in seen' : e[v] < MaxDecodeLayers =>
         \A w \in NextForms(v) : Reached(e, w, e[v] + 1)'
  <2> SUFFICES ASSUME NEW v \in seen', e[v] < MaxDecodeLayers, NEW w \in NextForms(v)
               PROVE  Reached(e, w, e[v] + 1)'
    OBVIOUS
  <2>1. CASE v = head.view
    <3>1. PICK i \in DOMAIN more : more[i].view = w /\ more[i].depth = d + 1
      BY <1>10, <1>13, <2>1
    <3>2. i + n \in DOMAIN queue' /\ queue'[i + n].view = w /\ queue'[i + n].depth = d + 1
      BY <1>3, <3>1
    <3> QED BY <1>8, <1>10, <2>1, <3>2 DEF Reached
  <2>2. CASE v \in seen
    <3>1. e[v] = dep[v] /\ dep[v] + 1 \in Nat /\ Reached(dep, w, dep[v] + 1)
      BY <1>5, <1>10, <2>2
    <3>2. Reached(e, w, dep[v] + 1)'
      BY <1>14, <3>1
    <3> QED BY <3>1, <3>2
  <2> QED BY <1>1, <2>1, <2>2
<1>19. Reached(e, normalize(text.source), 0)'
  <2>1. \A w : Reached(dep, w, 0) => Reached(e, w, 0)'
    BY <1>14
  <2> QED BY <1>1, <1>5, <2>1 DEF Reached
<1>20. Explored(e)'
  BY <1>1, <1>4, <1>15, <1>16, <1>17, <1>18, <1>19 DEF Explored, layer
<1> QED BY <1>20

\* When nothing is queued, every form was looked at, and nothing else.
LEMMA AllSeen ==
  ASSUME VInv, NEW dep, Explored(dep), queue = <<>>
  PROVE  seen = Forms
<1> DEFINE layer == Layers(text.source)
<1>1. /\ \A v \in seen : dep[v] \in 0..MaxDecodeLayers /\ v \in layer[dep[v]]
      /\ \A v \in seen : dep[v] < MaxDecodeLayers =>
           \A w \in NextForms(v) : w \in seen /\ dep[w] <= dep[v] + 1
      /\ normalize(text.source) \in seen /\ dep[normalize(text.source)] <= 0
  BY DEF Explored, Reached
<1>2. /\ layer[0] = {normalize(text.source)}
      /\ \A k \in 1..MaxDecodeLayers : layer[k] = Layer(layer[k - 1])
      /\ Forms = UNION {layer[k] : k \in 0..MaxDecodeLayers}
  BY LayersAre
<1> HIDE DEF layer
<1>3. MaxDecodeLayers \in Nat
  BY ScannerAssumption
<1> DEFINE Bad == {k \in 0..MaxDecodeLayers :
                     ~\A v \in layer[k] : v \in seen /\ dep[v] <= k}
<1>4. Bad = {}
  <2> SUFFICES ASSUME Bad # {} PROVE FALSE
    OBVIOUS
  <2>1. PICK k \in Bad : \A m \in Bad : k <= m
    <3>1. Bad \in SUBSET Nat
      BY <1>3
    <3> HIDE DEF Bad
    <3> QED BY <3>1, LeastNatural
  <2>2. k \in 0..MaxDecodeLayers /\ ~\A v \in layer[k] : v \in seen /\ dep[v] <= k
    OBVIOUS
  <2>3. k # 0
    BY <1>1, <1>2, <2>2
  <2>4. k - 1 \in 0..MaxDecodeLayers /\ k - 1 < k /\ k \in 1..MaxDecodeLayers
    BY <1>3, <2>2, <2>3
  <2>5. k - 1 \notin Bad
    <3>1. ~(k <= k - 1)
      BY <2>2
    <3> HIDE DEF Bad
    <3> QED BY <2>1, <3>1
  <2>6. \A v \in layer[k - 1] : v \in seen /\ dep[v] <= k - 1
    BY <2>4, <2>5
  <2>7. ASSUME NEW w \in layer[k] PROVE w \in seen /\ dep[w] <= k
    <3>1. w \in Layer(layer[k - 1])
      BY <1>2, <2>4
    <3>2. PICK v \in layer[k - 1] : w \in NextForms(v)
      BY <3>1, LayerIs
    <3>3. v \in seen /\ dep[v] <= k - 1 /\ dep[v] \in 0..MaxDecodeLayers
      BY <1>1, <2>6
    <3>4. dep[v] < MaxDecodeLayers
      BY <1>3, <2>2, <3>3
    <3>5. w \in seen /\ dep[w] <= dep[v] + 1 /\ dep[w] \in 0..MaxDecodeLayers
      BY <1>1, <3>2, <3>3, <3>4
    <3> QED BY <2>2, <3>3, <3>5
  <2> QED BY <2>2, <2>7
<1>5. ASSUME NEW v \in Forms PROVE v \in seen
  <2>1. PICK k \in 0..MaxDecodeLayers : v \in layer[k]
    BY <1>2
  <2>2. k \notin Bad
    BY <1>4
  <2> QED BY <2>1, <2>2
<1>6. ASSUME NEW v \in seen PROVE v \in Forms
  BY <1>1, <1>2
<1> QED BY <1>5, <1>6

\* Everything looked at is a composed view; the composed views and, once it is
\* their turn, what collapsing makes of them are scanned.
XInv ==
  /\ phase = "compose" => /\ views = <<>> /\ seen = Range(regular)
                          /\ \E dep : Explored(dep)
  /\ phase \in {"collapse", "detect"} =>
       /\ Range(regular) \cup ViewsOf(FALSE) = Forms
       /\ ViewsOf(TRUE) = {collapse_candidate_separators(f) :
            f \in {g \in ViewsOf(FALSE) : collapse_candidate_separators(g) # g}}
  /\ phase = "detect" => regular = <<>>

\* What views holds.
LEMMA ViewsOfIs ==
  \A b : \A x : x \in ViewsOf(b) <=>
    \E i \in DOMAIN views : views[i].secret = b /\ views[i].view = x
BY DEF ViewsOf, Range

\* The views a collapse adds.
LEMMA CollapsedAdds ==
  ASSUME VInv, Collapse
  PROVE  LET f == Head(regular)
             c == collapse_candidate_separators(f)
         IN  /\ ViewsOf(FALSE)' = ViewsOf(FALSE) \cup {f}
             /\ ViewsOf(TRUE)' = ViewsOf(TRUE) \cup (IF c = f THEN {} ELSE {c})
             /\ Range(regular) = Range(regular)' \cup {f}
<1> DEFINE f == Head(regular)
           c == collapse_candidate_separators(f)
           P == Boundaries(text.source)
           more == CollapsedToo(f)
<1>1. /\ regular # <<>> /\ views' = views \o more /\ regular' = Tail(regular)
      /\ regular \in Seq(View(P)) /\ views \in Seq(Scanned(P)) /\ P \in SUBSET Nat
  BY TextIs DEF Collapse, VInv
<1> HIDE DEF P
<1>2. f \in View(P)
  BY <1>1
<1>3. more \in Seq(Scanned(P))
  BY <1>1, <1>2, CollapsedIs
<1>4. Range(regular) = Range(regular)' \cup {f}
  <2>1. /\ Len(regular) \in Nat \ {0} /\ DOMAIN regular = 1..Len(regular)
        /\ f = regular[1] /\ DOMAIN regular' = 1..Len(regular) - 1
        /\ \A i \in 1..Len(regular) - 1 : regular'[i] = regular[i + 1]
    BY <1>1
  <2> HIDE DEF f
  <2>2. ASSUME NEW i \in DOMAIN regular PROVE regular[i] \in Range(regular)' \cup {f}
    <3>1. CASE i = 1
      BY <2>1, <3>1
    <3>2. CASE i # 1
      <4>1. i - 1 \in DOMAIN regular' /\ (i - 1) + 1 = i
        BY <2>1, <3>2
      <4>2. regular'[i - 1] = regular[i]
        BY <2>1, <4>1
      <4> QED BY <4>1, <4>2 DEF Range
    <3> QED BY <3>1, <3>2
  <2>3. ASSUME NEW i \in DOMAIN regular' PROVE regular'[i] \in Range(regular)
    <3>1. i + 1 \in DOMAIN regular /\ regular'[i] = regular[i + 1]
      BY <2>1
    <3> QED BY <3>1 DEF Range
  <2>4. f \in Range(regular)
    BY <2>1 DEF Range
  <2>5. \A x : x \in Range(regular) <=> \E i \in DOMAIN regular : x = regular[i]
    BY DEF Range
  <2>6. \A x : x \in Range(regular)' <=> \E i \in DOMAIN regular' : x = regular'[i]
    BY DEF Range
  <2> QED BY <2>2, <2>3, <2>4, <2>5, <2>6
<1>5. /\ DOMAIN more = IF c = f THEN 1..1 ELSE 1..2
      /\ more[1].view = f /\ more[1].secret = FALSE
      /\ c # f => more[2].view = c /\ more[2].secret = TRUE
  <2> DEFINE a == [view |-> f, secret |-> FALSE]
             b == [view |-> c, secret |-> TRUE]
  <2>1. more = <<a>> \o (IF c = f THEN <<>> ELSE <<b>>)
    BY DEF CollapsedToo
  <2>2. a.view = f /\ a.secret = FALSE /\ b.view = c /\ b.secret = TRUE
    OBVIOUS
  <2> HIDE DEF a, b, more, f, c
  <2>3. CASE c = f
    <3>1. more = <<a>>
      BY <2>1, <2>3
    <3> QED BY <2>2, <2>3, <3>1
  <2>4. CASE c # f
    <3>1. /\ <<a>> \in Seq({a, b}) /\ <<b>> \in Seq({a, b})
          /\ more = <<a>> \o <<b>>
      BY <2>1, <2>4
    <3>2. DOMAIN more = 1..2 /\ more[1] = a /\ more[2] = b
      BY <3>1
    <3> QED BY <2>2, <2>4, <3>2
  <2> QED BY <2>3, <2>4
<1> HIDE DEF f, c, more
<1>6. /\ Len(views) \in Nat /\ DOMAIN views = 1..Len(views) /\ Len(more) \in Nat
      /\ DOMAIN more = 1..Len(more) /\ DOMAIN views' = 1..Len(views) + Len(more)
      /\ \A i \in 1..Len(views) : views'[i] = views[i]
      /\ \A i \in 1..Len(more) : views'[Len(views) + i] = more[i]
  BY <1>1, <1>3
<1> DEFINE Has(vs, b, x) == \E i \in DOMAIN vs : vs[i].secret = b /\ vs[i].view = x
<1>7. ASSUME NEW b, NEW x
      PROVE  Has(views', b, x) <=> (Has(views, b, x) \/ Has(more, b, x))
  <2>1. ASSUME NEW i \in DOMAIN views, views[i].secret = b, views[i].view = x
        PROVE  Has(views', b, x)
    <3>1. i \in DOMAIN views' /\ views'[i] = views[i]
      BY <1>6
    <3> QED BY <2>1, <3>1
  <2>2. ASSUME NEW i \in DOMAIN more, more[i].secret = b, more[i].view = x
        PROVE  Has(views', b, x)
    <3>1. Len(views) + i \in DOMAIN views' /\ views'[Len(views) + i] = more[i]
      BY <1>6
    <3> QED BY <2>2, <3>1
  <2>3. ASSUME NEW j \in DOMAIN views', views'[j].secret = b, views'[j].view = x,
               ~Has(views, b, x)
        PROVE  Has(more, b, x)
    <3>1. j \notin 1..Len(views)
      BY <1>6, <2>3
    <3>2. j - Len(views) \in DOMAIN more /\ Len(views) + (j - Len(views)) = j
      BY <1>6, <3>1
    <3>3. views'[j] = more[j - Len(views)]
      BY <1>6, <3>2
    <3> QED BY <2>3, <3>2, <3>3
  <2> QED BY <2>1, <2>2, <2>3
<1>8. /\ \A x : x \in ViewsOf(FALSE) <=> Has(views, FALSE, x)
      /\ \A x : x \in ViewsOf(FALSE)' <=> Has(views', FALSE, x)
      /\ \A x : x \in ViewsOf(TRUE) <=> Has(views, TRUE, x)
      /\ \A x : x \in ViewsOf(TRUE)' <=> Has(views', TRUE, x)
  BY DEF ViewsOf, Range
<1>9. ViewsOf(FALSE)' = ViewsOf(FALSE) \cup {f}
  <2>1. \A x : Has(more, FALSE, x) <=> x = f
    BY <1>5
  <2> HIDE DEF Has
  <2>2. \A x : x \in ViewsOf(FALSE)' <=> (x \in ViewsOf(FALSE) \/ x = f)
    BY <1>7, <1>8, <2>1, Zenon
  <2> QED BY <2>2
<1>10. ViewsOf(TRUE)' = ViewsOf(TRUE) \cup (IF c = f THEN {} ELSE {c})
  <2>1. \A x : Has(more, TRUE, x) <=> (c # f /\ x = c)
    BY <1>5
  <2> HIDE DEF Has
  <2>2. \A x : x \in ViewsOf(TRUE)' <=> (x \in ViewsOf(TRUE) \/ (c # f /\ x = c))
    BY <1>7, <1>8, <2>1, Zenon
  <2>3. CASE c = f
    <3>1. \A x : x \in ViewsOf(TRUE)' <=> x \in ViewsOf(TRUE)
      BY <2>2, <2>3, Zenon
    <3> QED BY <2>3, <3>1
  <2>4. CASE c # f
    <3>1. \A x : x \in ViewsOf(TRUE)' <=> (x \in ViewsOf(TRUE) \/ x = c)
      BY <2>2, <2>4, Zenon
    <3> QED BY <2>4, <3>1
  <2> QED BY <2>3, <2>4
<1> QED BY <1>4, <1>9, <1>10 DEF f, c

\* Every step of the scan keeps track of the views.
LEMMA FormStep ==
  ASSUME VInv, XInv, Next
  PROVE  XInv'
<1>1. CASE SkipSeen
  <2>1. phase = "compose" /\ UNCHANGED <<phase, views, seen, regular>>
    BY <1>1 DEF SkipSeen
  <2>2. PICK dep : Explored(dep)
    BY <2>1 DEF XInv
  <2>3. Explored(dep)'
    BY <1>1, <2>2, ExploreSkip
  <2> QED BY <2>1, <2>3 DEF XInv
<1>2. CASE \/ RefuseView \/ DecodeFails \/ RefuseCollapsed
           \/ \E v \in DOMAIN views : DetectorPanics(v)
  BY <1>2 DEF XInv, RefuseView, DecodeFails, RefuseCollapsed, Refusal,
              DetectorPanics
<1>3. CASE TakeView
  <2>1. phase = "compose" /\ UNCHANGED <<phase, views>>
    BY <1>3 DEF TakeView
  <2>2. PICK dep : Explored(dep)
    BY <2>1 DEF XInv
  <2>3. \E e : Explored(e)'
    BY <1>3, <2>2, ExploreTake
  <2>4. seen' = seen \cup {Head(queue).view} /\ regular' = Append(regular, Head(queue).view)
    BY <1>3, TakeIs
  <2>5. seen' = Range(regular)'
    <3> DEFINE P == Boundaries(text.source)
               x == Head(queue).view
    <3>1. regular \in Seq(View(P)) /\ seen = Range(regular)
      BY <2>1 DEF VInv, XInv
    <3> HIDE DEF P, x
    <3>2. regular' = Append(regular, x) /\ seen' = seen \cup {x}
      BY <2>4 DEF x
    <3>3. /\ Len(regular) \in Nat /\ DOMAIN regular = 1..Len(regular)
          /\ DOMAIN regular' = 1..Len(regular) + 1
          /\ \A i \in 1..Len(regular) : regular'[i] = regular[i]
          /\ regular'[Len(regular) + 1] = x
      BY <3>1, <3>2
    <3>4. \A y : y \in Range(regular)' <=> \E i \in DOMAIN regular' : y = regular'[i]
      BY DEF Range
    <3>5. \A y : y \in Range(regular) <=> \E i \in DOMAIN regular : y = regular[i]
      BY DEF Range
    <3>6. ASSUME NEW y \in Range(regular)' PROVE y \in Range(regular) \cup {x}
      BY <3>3, <3>4, <3>5
    <3>7. ASSUME NEW y \in Range(regular) PROVE y \in Range(regular)'
      <4>1. PICK i \in DOMAIN regular : y = regular[i]
        BY <3>5
      <4>2. i \in DOMAIN regular' /\ y = regular'[i]
        BY <3>3, <4>1
      <4> QED BY <3>4, <4>2
    <3>8. x \in Range(regular)'
      <4>1. Len(regular) + 1 \in DOMAIN regular'
        BY <3>3
      <4> QED BY <3>3, <3>4, <4>1
    <3> QED BY <3>1, <3>2, <3>6, <3>7, <3>8
  <2> QED BY <2>1, <2>3, <2>5 DEF XInv
<1>4. CASE Composed
  <2>1. phase = "compose" /\ phase' = "collapse" /\ queue = <<>>
        /\ UNCHANGED <<text, seen, regular, views>>
    BY <1>4 DEF Composed
  <2>2. PICK dep : Explored(dep)
    BY <2>1 DEF XInv
  <2>3. views = <<>> /\ Range(regular) = Forms
    BY <2>1, <2>2, AllSeen DEF XInv
  <2>4. \A b : ViewsOf(b) = {}
    BY <2>3, ViewsOfIs
  <2>5. Range(regular)' = Range(regular) /\ ViewsOf(FALSE)' = {} /\ ViewsOf(TRUE)' = {}
        /\ Forms' = Forms
    <3>1. ViewsOf(FALSE)' = ViewsOf(FALSE) /\ ViewsOf(TRUE)' = ViewsOf(TRUE)
      BY <2>1 DEF ViewsOf
    <3>2. Forms' = Forms
      BY <2>1 DEF Forms
    <3> QED BY <2>1, <2>4, <3>1, <3>2
  <2> QED BY <2>1, <2>3, <2>5 DEF XInv
<1>5. CASE Collapse
  <2> DEFINE f == Head(regular)
             c == collapse_candidate_separators(f)
  <2>1. phase = "collapse" /\ phase' = phase /\ text' = text
    BY <1>5 DEF Collapse
  <2>2. /\ ViewsOf(FALSE)' = ViewsOf(FALSE) \cup {f}
        /\ ViewsOf(TRUE)' = ViewsOf(TRUE) \cup (IF c = f THEN {} ELSE {c})
        /\ Range(regular) = Range(regular)' \cup {f}
    BY <1>5, CollapsedAdds
  <2>3. Forms' = Forms
    BY <2>1 DEF Forms
  <2>4. /\ Range(regular) \cup ViewsOf(FALSE) = Forms
        /\ ViewsOf(TRUE) = {collapse_candidate_separators(x) :
             x \in {g \in ViewsOf(FALSE) : collapse_candidate_separators(g) # g}}
    BY <2>1 DEF XInv
  <2> HIDE DEF f
  <2>5. Range(regular)' \cup ViewsOf(FALSE)' = Forms'
    BY <2>2, <2>3, <2>4
  <2>6. ViewsOf(TRUE)' = {collapse_candidate_separators(x) :
          x \in {g \in ViewsOf(FALSE)' : collapse_candidate_separators(g) # g}}
    BY <2>2, <2>4
  <2> QED BY <2>1, <2>5, <2>6 DEF XInv
<1>6. CASE Collapsed
  <2>1. phase = "collapse" /\ phase' = "detect" /\ regular = <<>>
        /\ UNCHANGED <<text, regular, views>>
    BY <1>6 DEF Collapsed
  <2>2. Forms' = Forms /\ ViewsOf(TRUE)' = ViewsOf(TRUE) /\ ViewsOf(FALSE)' = ViewsOf(FALSE)
        /\ Range(regular)' = Range(regular)
    BY <2>1 DEF Forms, ViewsOf
  <2> QED BY <2>1, <2>2 DEF XInv
<1>7. ASSUME NEW v \in DOMAIN views, NEW class \in DOMAIN ActionOf,
             NEW part \in Matches(views[v].view), Detect(v, part[1], part[2], class)
      PROVE  XInv'
  <2>1. phase = "detect" /\ UNCHANGED <<text, phase, regular, views>>
    BY <1>7 DEF Detect
  <2>2. Forms' = Forms /\ ViewsOf(TRUE)' = ViewsOf(TRUE) /\ ViewsOf(FALSE)' = ViewsOf(FALSE)
        /\ Range(regular)' = Range(regular)
    BY <2>1 DEF Forms, ViewsOf
  <2> QED BY <2>1, <2>2 DEF XInv
<1>8. CASE Resolve
  BY <1>8 DEF Resolve, XInv
<1> QED BY <1>1, <1>2, <1>3, <1>4, <1>5, <1>6, <1>7, <1>8 DEF Next

\* Composition looks at the forms of the text breadth first, and misses none.
THEOREM ComposeInvariant == Spec => []XInv
<1>1. Init => XInv
  <2> SUFFICES ASSUME Init PROVE XInv
    OBVIOUS
  <2>1. /\ queue = <<Root(text.source)>> /\ phase = "compose"
        /\ seen = {} /\ regular = <<>> /\ views = <<>>
    BY DEF Init
  <2> DEFINE root == normalize(text.source)
  <2>2. /\ DOMAIN queue = {1} /\ queue[1].view = root /\ queue[1].depth = 0
    BY <2>1 DEF Root
  <2>3. Layers(text.source)[0] = {root} /\ MaxDecodeLayers \in Nat
    BY LayersAre, ScannerAssumption
  <2>4. Explored(<<>>)
    <3> HIDE DEF root
    <3>1. Reached(<<>>, root, 0)
      BY <2>2 DEF Reached
    <3> QED BY <2>1, <2>2, <2>3, <3>1 DEF Explored, root
  <2>5. Range(regular) = {}
    BY <2>1 DEF Range
  <2> QED BY <2>1, <2>4, <2>5 DEF XInv
<1>2. VInv /\ XInv /\ [Next]_vars => XInv'
  <2> SUFFICES ASSUME VInv, XInv, [Next]_vars PROVE XInv'
    OBVIOUS
  <2>1. CASE UNCHANGED vars
    <3>1. UNCHANGED <<text, phase, queue, seen, regular, views>>
      BY <2>1 DEF vars
    <3>2. Forms' = Forms /\ ViewsOf(TRUE)' = ViewsOf(TRUE) /\ ViewsOf(FALSE)' = ViewsOf(FALSE)
          /\ Range(regular)' = Range(regular)
      BY <3>1 DEF Forms, ViewsOf
    <3>3. \A dep : Explored(dep) => Explored(dep)'
      BY <3>1 DEF Explored, Reached
    <3> QED BY <3>1, <3>2, <3>3 DEF XInv
  <2> QED BY <2>1, FormStep
<1> QED BY <1>1, <1>2, ScanInvariant, PTL DEF Spec

\* NoFormSkipped: when detection begins, every form of the text through any
\* number of layers of decoding is scanned, and so is the collapsed form of
\* each, although views multiply, equal ones are dropped and the limits cut.
THEOREM NoFormSkippedHolds == Spec => []NoFormSkipped
<1>1. XInv => NoFormSkipped
  <2> SUFFICES ASSUME XInv, phase = "detect"
               PROVE  /\ ViewsOf(FALSE) = Forms
                      /\ ViewsOf(TRUE) = {collapse_candidate_separators(f) :
                           f \in {g \in Forms : collapse_candidate_separators(g) # g}}
    BY DEF NoFormSkipped
  <2>1. regular = <<>> /\ Range(regular) \cup ViewsOf(FALSE) = Forms
    BY DEF XInv
  <2>2. Range(regular) = {}
    BY <2>1 DEF Range
  <2>3. ViewsOf(FALSE) = Forms
    BY <2>1, <2>2
  <2> QED BY <2>3 DEF XInv
<1> QED BY <1>1, ComposeInvariant, PTL

-----------------------------------------------------------------------------
(* What the source span of a match carries.                                *)

\* Two bytes of a view come from the same characters of the source.
Same(c, e) == c.start = e.start /\ c.end = e.end

\* A view in order: its bytes come from the source one after the other,
\* except those of one character, which only two transforms write.
InOrder(view) ==
  \A i, j \in DOMAIN view : i < j =>
    \/ view[i].end <= view[j].start
    \/ /\ Same(view[i], view[j])
       /\ <<view[i].byte, view[j].byte>> \in {<<"x", "x">>, <<"C3", "A9">>}

Ordered == {view \in View(Nat) : InOrder(view)}

\* No byte outside of the part has the source of a byte inside.
WholeFrom(view, a) == a = 1 \/ ~Same(view[a - 1], view[a])

WholeTo(view, b) == b = Len(view) \/ ~Same(view[b], view[b + 1])

Run(view, a, b) ==
  /\ a \in DOMAIN view /\ b \in DOMAIN view /\ a <= b
  /\ WholeFrom(view, a) /\ WholeTo(view, b)

\* s has the bytes of a part of a view.
Reads(s, view, a, b) ==
  /\ s \in View(Nat) /\ Len(s) = b - a + 1
  /\ \A k \in 1..Len(s) : s[k].byte = view[a + k - 1].byte

\* The bytes of a unit have their source for themselves.
Alone(view, i, width) ==
  \A k \in i..i + width - 1, j \in DOMAIN view :
    j \notin i..i + width - 1 => ~Same(view[k], view[j])

\* A unit keeps one byte, or it writes for bytes that stand alone a
\* character that has all of their source.
UnitKeeps(view, i, u) ==
  /\ u.width \in Nat \ {0} /\ i + u.width <= Len(view) + 1
  /\ u.out \in View(Nat)
  /\ \/ u.width = 1 /\ u.out = <<view[i]>>
     \/ /\ Alone(view, i, u.width)
        /\ \A k \in DOMAIN u.out : /\ u.out[k].start = view[i].start
                                   /\ u.out[k].end = view[i + u.width - 1].end
        /\ \A k, l \in DOMAIN u.out : k < l =>
             <<u.out[k].byte, u.out[l].byte>> \in {<<"x", "x">>, <<"C3", "A9">>}

\* R are indices of units, and all that are come to from one of them.
Units(view, unit, R) ==
  /\ R \in SUBSET (1..Len(view) + 1)
  /\ \A i \in 1..Len(view) : /\ unit[i].width \in Nat \ {0}
                             /\ i + unit[i].width <= Len(view) + 1
  /\ \A i \in R : i <= Len(view) => /\ i + unit[i].width \in R
                                    /\ UnitKeeps(view, i, unit[i])

\* Two units take and write the same bytes.
SameUnit(v, u) ==
  /\ v.width = u.width /\ Len(v.out) = Len(u.out)
  /\ \A k \in DOMAIN u.out : v.out[k].byte = u.out[k].byte

\* The units of another view do from c to d what those of the view do, if
\* they end there, unless they drop bytes at an end.
Alike(view, unit, c, d, us) ==
  /\ \A j \in 1..d - c + 1 : us[j].width \in Nat \ {0} /\ j + us[j].width <= d - c + 2
  /\ \A j \in 1..d - c + 1 : us[j].out \in View(Nat)
  /\ \A i \in c..d :
       /\ i + unit[i].width <= d + 1
       /\ (i = c \/ i + unit[i].width = d + 1) => unit[i].out # <<>>
       => SameUnit(us[i - c + 1], unit[i])

Solution(h, view, unit) ==
  /\ h[Len(view) + 1] = <<>>
  /\ \A i \in 1..Len(view) : h[i] = unit[i].out \o h[i + unit[i].width]

\* What Rewrite gives from each index on.
LEMMA FromIs ==
  ASSUME NEW view \in View(Nat), NEW unit,
         \A i \in 1..Len(view) : /\ unit[i].width \in Nat \ {0}
                                 /\ i + unit[i].width <= Len(view) + 1
  PROVE  \E h : Solution(h, view, unit) /\ Rewrite(view, unit) = h[1]
<1> DEFINE N == Len(view)
           from == CHOOSE h : h = [i \in 1..Len(view) + 1 |-> FromStep(h, view, unit, i)]
<1>0. N \in Nat
  BY DEF View
<1>1. Rewrite(view, unit) = from[1]
  BY DEF Rewrite, FromStep
<1>2. from = [i \in 1..Len(view) + 1 |-> FromStep(from, view, unit, i)]
  <2>1. \E h : IsFrom(h, view, unit)
    BY <1>0, FromExists
  <2> QED BY <2>1, Zenon DEF IsFrom
<1> HIDE DEF from
<1>3. \A i \in 1..N + 1 : from[i] = FromStep(from, view, unit, i)
  BY <1>2
<1>4. from[N + 1] = <<>>
  <2>1. N + 1 \in 1..N + 1 /\ N + 1 > N
    BY <1>0
  <2> QED BY <1>3, <2>1, Zenon DEF FromStep
<1>5. ASSUME NEW i \in 1..N PROVE from[i] = unit[i].out \o from[i + unit[i].width]
  <2>1. i \in 1..N + 1 /\ ~(i > N)
    BY <1>0
  <2> QED BY <1>3, <2>1, Zenon DEF FromStep
<1> QED BY <1>1, <1>4, <1>5 DEF Solution

\* Induction from the last index of a view to the first.
LEMMA Downward ==
  ASSUME NEW N \in Nat, NEW R \in SUBSET (1..N + 1), NEW G,
         \A i \in R : (\A j \in R : i < j => j \in G) => i \in G
  PROVE  R \subseteq G
<1> DEFINE Bad == {k \in Nat : N + 1 - k \in R /\ N + 1 - k \notin G}
<1>1. Bad = {}
  <2> SUFFICES ASSUME Bad # {} PROVE FALSE
    OBVIOUS
  <2>1. PICK k \in Bad : \A m \in Bad : k <= m
    <3>1. Bad \in SUBSET Nat
      OBVIOUS
    <3> HIDE DEF Bad
    <3> QED BY <3>1, LeastNatural
  <2> DEFINE n == N + 1 - k
  <2>2. k \in Nat /\ n \in R /\ n \notin G
    OBVIOUS
  <2>3. PICK j \in R : n < j /\ j \notin G
    BY <2>2
  <2>4. /\ N + 1 - j \in Nat /\ N + 1 - (N + 1 - j) = j /\ ~(k <= N + 1 - j)
    BY <2>2, <2>3
  <2>5. N + 1 - j \in Bad
    BY <2>3, <2>4
  <2> HIDE DEF Bad
  <2> QED BY <2>1, <2>4, <2>5
<1>2. ASSUME NEW i \in R, i \notin G PROVE FALSE
  <2>1. N + 1 - i \in Nat /\ N + 1 - (N + 1 - i) = i
    OBVIOUS
  <2>2. N + 1 - i \in Bad
    BY <1>2, <2>1
  <2> QED BY <1>1, <2>2
<1> QED BY <1>2

\* Two sequences one after the other.
LEMMA ConcatIs ==
  ASSUME NEW P \in SUBSET Nat, NEW s \in View(P), NEW t \in View(P)
  PROVE  /\ s \o t \in View(P) /\ Len(s \o t) = Len(s) + Len(t)
         /\ Len(s) \in Nat /\ Len(t) \in Nat
         /\ DOMAIN s = 1..Len(s) /\ DOMAIN t = 1..Len(t)
         /\ DOMAIN (s \o t) = 1..Len(s) + Len(t)
         /\ \A k \in 1..Len(s) : (s \o t)[k] = s[k]
         /\ \A k \in Len(s) + 1..Len(s) + Len(t) :
              k - Len(s) \in 1..Len(t) /\ (s \o t)[k] = t[k - Len(s)]
         /\ \A k \in 1..Len(t) : (s \o t)[Len(s) + k] = t[k]
BY DEF View

\* Where a byte that was written comes from.
Origin(view, i, cell) ==
  \E j \in i..Len(view) :
    \/ cell = view[j]
    \/ /\ cell.start = view[j].start
       /\ \A m \in 1..j - 1 : view[m].end <= view[j].start

\* A unit of an ordered view.
LEMMA UnitSpan ==
  ASSUME NEW view \in Ordered, NEW i \in DOMAIN view, NEW u, UnitKeeps(view, i, u),
         NEW k \in DOMAIN u.out
  PROVE  /\ i + u.width - 1 \in DOMAIN view /\ i <= i + u.width - 1
         /\ u.out[k].start = view[i].start
         /\ u.out[k].end = view[i + u.width - 1].end
<1>1. /\ Len(view) \in Nat /\ DOMAIN view = 1..Len(view)
      /\ u.width \in Nat \ {0} /\ i + u.width <= Len(view) + 1
  BY CellFields DEF Ordered, UnitKeeps
<1>2. CASE u.width = 1 /\ u.out = <<view[i]>>
  <2>1. k = 1 /\ u.out[k] = view[i] /\ i + u.width - 1 = i
    BY <1>1, <1>2
  <2> QED BY <1>1, <2>1
<1>3. CASE ~(u.width = 1 /\ u.out = <<view[i]>>)
  BY <1>1, <1>3 DEF UnitKeeps
<1> QED BY <1>2, <1>3

\* What stands alone comes after all before it, and before all after it.
LEMMA AloneApart ==
  ASSUME NEW view \in Ordered, NEW i \in DOMAIN view, NEW u, UnitKeeps(view, i, u),
         ~(u.width = 1 /\ u.out = <<view[i]>>)
  PROVE  /\ \A m \in 1..i - 1 : view[m].end <= view[i].start
         /\ \A j \in i + u.width..Len(view) : view[i + u.width - 1].end <= view[j].start
<1>1. /\ Len(view) \in Nat /\ DOMAIN view = 1..Len(view)
      /\ u.width \in Nat \ {0} /\ i + u.width <= Len(view) + 1
      /\ Alone(view, i, u.width)
  BY CellFields DEF Ordered, UnitKeeps
<1>2. ASSUME NEW m \in 1..i - 1 PROVE view[m].end <= view[i].start
  <2>1. m \in DOMAIN view /\ m \notin i..i + u.width - 1 /\ i \in i..i + u.width - 1 /\ m < i
    BY <1>1
  <2>2. ~Same(view[i], view[m])
    BY <1>1, <2>1 DEF Alone
  <2> QED BY <2>1, <2>2 DEF Ordered, InOrder, Same
<1>3. ASSUME NEW j \in i + u.width..Len(view)
      PROVE  view[i + u.width - 1].end <= view[j].start
  <2> DEFINE k == i + u.width - 1
  <2>1. /\ j \in DOMAIN view /\ j \notin i..i + u.width - 1 /\ k \in i..i + u.width - 1
        /\ k \in DOMAIN view /\ k < j
    BY <1>1
  <2>2. ~Same(view[k], view[j])
    BY <1>1, <2>1 DEF Alone
  <2> QED BY <2>1, <2>2 DEF Ordered, InOrder
<1> QED BY <1>2, <1>3

\* Rewriting keeps a view in order.
LEMMA RewriteOrdered ==
  ASSUME NEW view \in Ordered, NEW unit, NEW R, Units(view, unit, R), NEW h,
         Solution(h, view, unit)
  PROVE  \A i \in R : /\ h[i] \in Ordered
                      /\ \A k \in DOMAIN h[i] : Origin(view, i, h[i][k])
<1> DEFINE N == Len(view)
           Good(i) == /\ h[i] \in Ordered
                      /\ \A k \in DOMAIN h[i] : Origin(view, i, h[i][k])
           G == {i \in R : Good(i)}
<1>0. /\ N \in Nat /\ DOMAIN view = 1..N /\ view \in View(Nat) /\ R \in SUBSET (1..N + 1)
  BY CellFields DEF Ordered, Units
<1>1. ASSUME NEW i \in R, \A j \in R : i < j => j \in G PROVE i \in G
  <2>1. CASE i = N + 1
    <3>1. h[i] = <<>>
      BY <2>1 DEF Solution
    <3>2. <<>> \in Ordered
      BY DEF Ordered, InOrder, View
    <3> QED BY <3>1, <3>2
  <2>2. CASE i # N + 1
    <3> DEFINE u == unit[i]
               n == i + u.width
    <3>0. i \in 1..N
      BY <1>0, <2>2
    <3>1. i \in 1..N /\ UnitKeeps(view, i, u) /\ n \in R /\ h[i] = u.out \o h[n]
      <4>1. i <= N
        BY <3>0
      <4>2. UnitKeeps(view, i, u) /\ n \in R
        BY <4>1 DEF Units
      <4> QED BY <3>0, <4>2 DEF Solution
    <3>2. u.width \in Nat \ {0} /\ n <= N + 1 /\ u.out \in View(Nat)
      BY <3>1 DEF UnitKeeps
    <3> HIDE DEF u
    <3>3. i < n /\ n \in 1..N + 1
      BY <3>1, <3>2
    <3>4. Good(n)
      BY <1>1, <3>1, <3>3
    <3> HIDE DEF n
    <3> DEFINE o == u.out
               t == h[n]
               len == Len(o)
    <3>5. t \in View(Nat) /\ InOrder(t)
      BY <3>4 DEF Ordered
    <3>6. /\ h[i] \in View(Nat) /\ len \in Nat /\ Len(t) \in Nat
          /\ DOMAIN o = 1..len /\ DOMAIN t = 1..Len(t)
          /\ DOMAIN h[i] = 1..len + Len(t)
          /\ \A k \in 1..len : h[i][k] = o[k]
          /\ \A k \in len + 1..len + Len(t) : k - len \in 1..Len(t) /\ h[i][k] = t[k - len]
      <4>1. Nat \in SUBSET Nat /\ o \in View(Nat) /\ h[i] = o \o t
        BY <3>1, <3>2
      <4> HIDE DEF o, t
      <4> QED BY <3>5, <4>1, ConcatIs
    <3> HIDE DEF o, t, len
    <3>7. ASSUME NEW k \in 1..len + Len(t) PROVE k \in 1..len \/ k \in len + 1..len + Len(t)
      BY <3>6
    <3>8. ASSUME NEW k \in DOMAIN h[i] PROVE Origin(view, i, h[i][k])
      <4>1. CASE k \in 1..len
        <5>1. h[i][k] = o[k] /\ k \in DOMAIN o
          BY <3>6, <4>1
        <5>2. CASE u.width = 1 /\ o = <<view[i]>>
          <6>1. h[i][k] = view[i] /\ i \in i..Len(view)
            BY <3>1, <5>1, <5>2
          <6> QED BY <6>1 DEF Origin
        <5>3. CASE ~(u.width = 1 /\ o = <<view[i]>>)
          <6>1. o[k].start = view[i].start /\ i \in i..Len(view)
            BY <1>0, <3>1, <5>1, UnitSpan DEF o
          <6>2. \A m \in 1..i - 1 : view[m].end <= view[i].start
            BY <1>0, <3>1, <5>3, AloneApart DEF o
          <6> QED BY <5>1, <6>1, <6>2 DEF Origin
        <5> QED BY <5>2, <5>3
      <4>2. CASE k \in len + 1..len + Len(t)
        <5>1. h[i][k] = t[k - len] /\ k - len \in DOMAIN t
          BY <3>6, <4>2
        <5>2. Origin(view, n, t[k - len])
          BY <3>4, <5>1 DEF t
        <5>3. \A j \in n..Len(view) : j \in i..Len(view)
          BY <3>1, <3>3
        <5> QED BY <5>1, <5>2, <5>3 DEF Origin
      <4> QED BY <3>6, <3>7, <4>1, <4>2
    <3>9. ASSUME NEW k \in DOMAIN h[i], NEW l \in DOMAIN h[i], k < l
          PROVE  \/ h[i][k].end <= h[i][l].start
                 \/ /\ Same(h[i][k], h[i][l])
                    /\ <<h[i][k].byte, h[i][l].byte>> \in {<<"x", "x">>, <<"C3", "A9">>}
      <4>1. CASE l \in 1..len
        <5>1. k \in 1..len /\ h[i][k] = o[k] /\ h[i][l] = o[l]
          BY <3>6, <3>9, <4>1
        <5>2. ~(o = <<view[i]>>)
          BY <3>6, <3>9, <4>1, <5>1 DEF len
        <5>3. Same(o[k], o[l])
          <6>1. k \in DOMAIN u.out /\ l \in DOMAIN u.out /\ i \in DOMAIN view
            BY <1>0, <3>1, <3>6, <4>1, <5>1 DEF o
          <6>2. /\ u.out[k].start = view[i].start /\ u.out[l].start = view[i].start
                /\ u.out[k].end = view[i + u.width - 1].end
                /\ u.out[l].end = view[i + u.width - 1].end
            BY <3>1, <6>1, UnitSpan
          <6> QED BY <6>2 DEF Same, o
        <5>4. <<o[k].byte, o[l].byte>> \in {<<"x", "x">>, <<"C3", "A9">>}
          BY <3>1, <3>6, <3>9, <4>1, <5>1, <5>2 DEF UnitKeeps, o
        <5> QED BY <5>1, <5>3, <5>4
      <4>2. CASE k \in len + 1..len + Len(t)
        <5>1. l \in len + 1..len + Len(t)
          BY <3>6, <3>9, <4>2
        <5>2. /\ k - len \in DOMAIN t /\ l - len \in DOMAIN t /\ k - len < l - len
              /\ h[i][k] = t[k - len] /\ h[i][l] = t[l - len]
          BY <3>6, <3>9, <4>2, <5>1
        <5> QED BY <3>5, <5>2 DEF InOrder
      <4>3. CASE k \in 1..len /\ l \in len + 1..len + Len(t)
        <5> DEFINE f == t[l - len]
                   b == i + u.width - 1
        <5>1. h[i][k] = o[k] /\ k \in DOMAIN o /\ h[i][l] = f /\ l - len \in DOMAIN t
          BY <3>6, <4>3
        <5>2. PICK j \in n..N : \/ f = view[j]
                                \/ /\ f.start = view[j].start
                                   /\ \A m \in 1..j - 1 : view[m].end <= view[j].start
          BY <3>4, <5>1 DEF Origin, t
        <5>3. /\ b \in DOMAIN view /\ i <= b /\ o[k].end = view[b].end /\ o[k].start = view[i].start
          <6>1. k \in DOMAIN u.out /\ i \in DOMAIN view
            BY <1>0, <3>1, <5>1 DEF o
          <6> QED BY <3>1, <6>1, UnitSpan DEF o
        <5>4. j \in DOMAIN view /\ b < j /\ b \in 1..j - 1 /\ j \in i + u.width..N
          BY <1>0, <3>1, <3>2, <3>3, <5>2, <5>3 DEF n
        <5> HIDE DEF b, f
        <5>5. CASE f.start = view[j].start /\ view[b].end <= view[j].start
          BY <5>1, <5>3, <5>5
        <5>6. CASE f = view[j] /\ ~(view[b].end <= view[j].start)
          <6>1. u.width = 1 /\ o = <<view[i]>>
            BY <1>0, <3>1, <5>4, <5>6, AloneApart DEF b, o
          <6>2. b = i /\ o[k] = view[i]
            BY <1>0, <3>1, <5>1, <6>1 DEF b
          <6>3. /\ Same(view[i], view[j])
                /\ <<view[i].byte, view[j].byte>> \in {<<"x", "x">>, <<"C3", "A9">>}
            BY <5>3, <5>4, <5>6, <6>2 DEF Ordered, InOrder
          <6> QED BY <5>1, <5>6, <6>2, <6>3
        <5> QED BY <5>2, <5>4, <5>5, <5>6
      <4> QED BY <3>6, <3>7, <4>1, <4>2, <4>3
    <3>10. InOrder(h[i])
      BY <3>9 DEF InOrder
    <3> QED BY <3>6, <3>8, <3>10 DEF Ordered
  <2> QED BY <2>1, <2>2
<1>2. R \subseteq G
  <2> HIDE DEF G
  <2> QED BY <1>0, <1>1, Downward
<1> QED BY <1>2

\* t is s from a on.
Rest(t, s, a) ==
  /\ Len(t) = Len(s) - a + 1
  /\ \A k \in 1..Len(t) : t[k] = s[a + k - 1]

\* Two bytes of one character that are side by side are both kept.
LEMMA SameKept ==
  ASSUME NEW view \in Ordered, NEW unit, NEW R, Units(view, unit, R), NEW h,
         Solution(h, view, unit), NEW i \in R, NEW n \in 1..Len(view),
         i <= Len(view), n = i + unit[i].width, Same(view[n - 1], view[n])
  PROVE  /\ n = i + 1 /\ unit[i].out = <<view[i]>> /\ n \in R
         /\ unit[n].out = <<view[n]>> /\ h[n] \in View(Nat) /\ h[n] # <<>>
         /\ h[n][1] = view[n]
<1> DEFINE N == Len(view)
<1>1. /\ N \in Nat /\ DOMAIN view = 1..N /\ view \in View(Nat) /\ R \in SUBSET (1..N + 1)
  BY CellFields DEF Ordered, Units
<1>2. i \in 1..N /\ n \in R /\ UnitKeeps(view, i, unit[i]) /\ n <= N
  BY <1>1 DEF Units
<1>3. UnitKeeps(view, n, unit[n]) /\ n + unit[n].width \in R
  BY <1>2 DEF Units
<1>4. unit[i].width \in Nat \ {0} /\ unit[n].width \in Nat \ {0}
  BY <1>2, <1>3 DEF UnitKeeps
<1>5. Same(view[n], view[n - 1])
  BY DEF Same
<1>6. /\ n - 1 \in i..i + unit[i].width - 1 /\ n \notin i..i + unit[i].width - 1
      /\ n - 1 \notin n..n + unit[n].width - 1 /\ n \in n..n + unit[n].width - 1
      /\ n - 1 \in DOMAIN view /\ n \in DOMAIN view
  <2> DEFINE p == unit[i].width
             q == unit[n].width
  <2>1. n = i + p /\ p \in Nat \ {0} /\ q \in Nat \ {0}
    BY <1>4
  <2> HIDE DEF p, q
  <2>2. /\ n - 1 \in i..i + p - 1 /\ n \notin i..i + p - 1
        /\ n - 1 \notin n..n + q - 1 /\ n \in n..n + q - 1
        /\ n - 1 \in DOMAIN view /\ n \in DOMAIN view
    BY <1>1, <1>2, <2>1
  <2> QED BY <2>2 DEF p, q
<1>7. ~Alone(view, i, unit[i].width) /\ ~Alone(view, n, unit[n].width)
  BY <1>5, <1>6 DEF Alone
<1>8. /\ unit[i].width = 1 /\ unit[i].out = <<view[i]>>
      /\ unit[n].width = 1 /\ unit[n].out = <<view[n]>>
  BY <1>2, <1>3, <1>7 DEF UnitKeeps
<1>9. h[n] = <<view[n]>> \o h[n + 1] /\ n + 1 \in R
  BY <1>3, <1>8 DEF Solution
<1>10. h[n] \in View(Nat) /\ h[n + 1] \in View(Nat)
  BY <1>2, <1>9, RewriteOrdered DEF Ordered
<1>11. h[n] # <<>> /\ h[n][1] = view[n]
  <2>1. <<view[n]>> \in View(Nat) /\ Len(<<view[n]>>) = 1 /\ <<view[n]>>[1] = view[n]
    BY <1>1, <1>2, CellFields DEF View
  <2>2. Nat \in SUBSET Nat
    OBVIOUS
  <2> DEFINE one == <<view[n]>>
             t == h[n + 1]
  <2> HIDE DEF one, t
  <2>3. one \in View(Nat) /\ t \in View(Nat) /\ Len(one) = 1 /\ one[1] = view[n]
        /\ h[n] = one \o t
    BY <1>9, <1>10, <2>1 DEF one, t
  <2>4. /\ Len(one \o t) = Len(one) + Len(t) /\ Len(t) \in Nat
        /\ \A k \in 1..Len(one) : (one \o t)[k] = one[k]
    BY <2>2, <2>3, ConcatIs
  <2>5. Len(h[n]) # 0 /\ h[n][1] = view[n]
    BY <2>3, <2>4
  <2> QED BY <2>5
<1> QED BY <1>2, <1>8, <1>10, <1>11

\* A run of what is written begins with what a unit writes, and that unit
\* begins a run of what is read.
LEMMA RunStarts ==
  ASSUME NEW view \in Ordered, NEW unit, NEW R, Units(view, unit, R), NEW h,
         Solution(h, view, unit)
  PROVE  \A i \in R : \A a \in DOMAIN h[i] : WholeFrom(h[i], a) =>
           \E c \in i..Len(view) :
             /\ c \in R /\ unit[c].out # <<>> /\ view[c].start = h[i][a].start
             /\ c = i \/ ~Same(view[c - 1], view[c])
             /\ Rest(h[c], h[i], a)
<1> DEFINE N == Len(view)
           Starts(i, a, c) ==
             /\ c \in R /\ unit[c].out # <<>> /\ view[c].start = h[i][a].start
             /\ c = i \/ ~Same(view[c - 1], view[c])
             /\ Rest(h[c], h[i], a)
           Good(i) == \A a \in DOMAIN h[i] : WholeFrom(h[i], a) =>
                        \E c \in i..N : Starts(i, a, c)
           G == {i \in R : Good(i)}
<1>0. /\ N \in Nat /\ DOMAIN view = 1..N /\ view \in View(Nat) /\ R \in SUBSET (1..N + 1)
  BY CellFields DEF Ordered, Units
<1>1. ASSUME NEW i \in R, \A j \in R : i < j => j \in G PROVE i \in G
  <2>1. CASE i = N + 1
    <3>1. h[i] = <<>>
      BY <2>1 DEF Solution
    <3> QED BY <3>1
  <2>2. CASE i # N + 1
    <3> SUFFICES ASSUME NEW a \in DOMAIN h[i], WholeFrom(h[i], a)
                 PROVE  \E c \in i..N : Starts(i, a, c)
      OBVIOUS
    <3> DEFINE o == unit[i].out
               n == i + unit[i].width
               t == h[n]
    <3>1. i \in 1..N /\ i <= N
      BY <1>0, <2>2
    <3>2. UnitKeeps(view, i, unit[i]) /\ n \in R /\ h[i] = o \o t
      BY <3>1 DEF Units, Solution
    <3>3. unit[i].width \in Nat \ {0} /\ n <= N + 1 /\ o \in View(Nat)
      BY <3>2 DEF UnitKeeps
    <3>4. i < n /\ n \in 1..N + 1
      BY <3>1, <3>3
    <3>5. Good(n)
      BY <1>1, <3>2, <3>4
    <3>6. t \in View(Nat) /\ h[i] \in View(Nat)
      BY <3>2, RewriteOrdered DEF Ordered
    <3> DEFINE len == Len(o)
    <3>7. /\ len \in Nat /\ Len(t) \in Nat /\ DOMAIN o = 1..len /\ DOMAIN t = 1..Len(t)
          /\ DOMAIN h[i] = 1..len + Len(t) /\ Len(h[i]) = len + Len(t)
          /\ \A k \in 1..len : h[i][k] = o[k]
          /\ \A k \in len + 1..len + Len(t) : k - len \in 1..Len(t) /\ h[i][k] = t[k - len]
      <4>1. Nat \in SUBSET Nat
        OBVIOUS
      <4> HIDE DEF o, t
      <4> QED BY <3>2, <3>3, <3>6, <4>1, ConcatIs
    <3> HIDE DEF o, n, t, len
    <3>8. CASE a \in 1..len
      <4>1. a = 1
        <5> SUFFICES ASSUME a # 1 PROVE FALSE
          OBVIOUS
        <5>1. a - 1 \in 1..len /\ h[i][a] = o[a] /\ h[i][a - 1] = o[a - 1]
          BY <3>7, <3>8
        <5>2. a \in DOMAIN unit[i].out /\ a - 1 \in DOMAIN unit[i].out /\ i \in DOMAIN view
          BY <1>0, <3>1, <3>7, <3>8, <5>1 DEF o
        <5>3. Same(o[a - 1], o[a])
          BY <3>2, <5>2, UnitSpan DEF Same, o
        <5> QED BY <5>1, <5>3 DEF WholeFrom
      <4>2. 1 \in DOMAIN unit[i].out /\ i \in DOMAIN view /\ h[i][1] = o[1] /\ i \in i..N
        BY <1>0, <3>1, <3>7, <3>8, <4>1 DEF o
      <4>3. view[i].start = h[i][a].start
        BY <3>2, <4>1, <4>2, UnitSpan DEF o
      <4>4. unit[i].out # <<>>
        BY <4>2
      <4>5. Rest(h[i], h[i], a)
        BY <3>7, <4>1 DEF Rest
      <4> QED BY <4>2, <4>3, <4>4, <4>5
    <3>9. CASE a \in len + 1..len + Len(t)
      <4> DEFINE b == a - len
      <4>1. b \in DOMAIN h[n] /\ b \in 1..Len(t) /\ h[i][a] = t[b] /\ b \in Nat /\ a = len + b
        <5>1. DOMAIN h[n] = 1..Len(t)
          BY <3>7 DEF t
        <5> QED BY <3>7, <3>9, <5>1
      <4> HIDE DEF b
      <4>2. WholeFrom(h[n], b)
        <5>1. CASE b = 1
          BY <5>1 DEF WholeFrom
        <5>2. CASE b # 1
          <6>1. a - 1 \in len + 1..len + Len(t) /\ (a - 1) - len = b - 1 /\ a # 1
            BY <3>7, <4>1, <5>2
          <6>2. h[i][a - 1] = t[b - 1]
            BY <3>7, <6>1
          <6> QED BY <4>1, <6>1, <6>2 DEF WholeFrom, t
        <5> QED BY <5>1, <5>2
      <4>3. PICK c \in n..N : Starts(n, b, c)
        BY <3>5, <4>1, <4>2
      <4>4. c \in i..N /\ view[c].start = h[i][a].start
        BY <3>1, <3>4, <4>1, <4>3 DEF t
      <4>5. Rest(h[c], h[i], a)
        <5>1. Len(h[c]) = Len(t) - b + 1 /\ \A k \in 1..Len(h[c]) : h[c][k] = t[b + k - 1]
          BY <4>3 DEF Rest, t
        <5>2. ASSUME NEW k \in 1..Len(h[c])
              PROVE  a + k - 1 \in len + 1..len + Len(t) /\ (a + k - 1) - len = b + k - 1
          BY <3>7, <4>1, <5>1
        <5>3. \A k \in 1..Len(h[c]) : h[c][k] = h[i][a + k - 1]
          BY <3>7, <5>1, <5>2
        <5>4. Len(h[c]) = Len(h[i]) - a + 1
          BY <3>7, <4>1, <5>1
        <5> QED BY <5>3, <5>4 DEF Rest
      <4>6. c = i \/ ~Same(view[c - 1], view[c])
        <5> SUFFICES ASSUME c = n, Same(view[n - 1], view[n]) PROVE FALSE
          BY <4>3
        <5>1. /\ n = i + 1 /\ unit[i].out = <<view[i]>> /\ h[n][1] = view[n]
          <6>1. n \in 1..N /\ n = i + unit[i].width
            BY <1>0, <3>4, <4>3 DEF n
          <6> QED BY <3>1, <6>1, SameKept
        <5>2. b = 1
          <6>1. Len(h[n]) = Len(h[n]) - b + 1
            BY <4>3 DEF Rest
          <6> QED BY <3>7, <4>1, <6>1 DEF t
        <5>3. len = 1 /\ o[1] = view[i]
          BY <5>1 DEF len, o
        <5>4. a = 2 /\ h[i][1] = view[i] /\ h[i][2] = view[n]
          BY <3>7, <4>1, <5>1, <5>2, <5>3 DEF t
        <5>5. ~Same(h[i][1], h[i][2])
          BY <5>4 DEF WholeFrom
        <5>6. n - 1 = i
          BY <3>1, <5>1
        <5> QED BY <5>4, <5>5, <5>6
      <4> QED BY <4>3, <4>4, <4>5, <4>6
    <3> QED BY <3>7, <3>8, <3>9
  <2> QED BY <2>1, <2>2
<1>2. R \subseteq G
  <2> HIDE DEF G
  <2> QED BY <1>0, <1>1, Downward
<1> QED BY <1>2

\* Units that are alike from c to d write from i on the first b bytes of t.
Follows(view, unit, c, d, i, t, b) ==
  \A s, us, g :
    /\ s \in View(Nat) /\ Len(s) = d - c + 1
    /\ Alike(view, unit, c, d, us) /\ Solution(g, s, us)
    => /\ g[i - c + 1] \in View(Nat) /\ Len(g[i - c + 1]) = b
       /\ \A k \in 1..b : g[i - c + 1][k].byte = t[k].byte

\* A run of what is written ends with what a unit writes, that unit ends a
\* run of what is read, and what was read from c to there decides it.
LEMMA RunEnds ==
  ASSUME NEW view \in Ordered, NEW unit, NEW R, Units(view, unit, R), NEW h,
         Solution(h, view, unit), NEW c \in R, unit[c].out # <<>>
  PROVE  \A i \in R : i >= c => \A b \in DOMAIN h[i] : WholeTo(h[i], b) =>
           \E d \in i..Len(view) :
             /\ d + 1 \in R /\ view[d].end = h[i][b].end /\ WholeTo(view, d)
             /\ Follows(view, unit, c, d, i, h[i], b)
<1> DEFINE N == Len(view)
           Ends(i, b, d) ==
             /\ d + 1 \in R /\ view[d].end = h[i][b].end /\ WholeTo(view, d)
             /\ Follows(view, unit, c, d, i, h[i], b)
           Good(i) == i >= c => \A b \in DOMAIN h[i] : WholeTo(h[i], b) =>
                        \E d \in i..N : Ends(i, b, d)
           G == {i \in R : Good(i)}
<1>0. /\ N \in Nat /\ DOMAIN view = 1..N /\ view \in View(Nat) /\ R \in SUBSET (1..N + 1)
  BY CellFields DEF Ordered, Units
<1>1. ASSUME NEW i \in R, \A j \in R : i < j => j \in G PROVE i \in G
  <2>1. CASE i = N + 1
    <3>1. h[i] = <<>>
      BY <2>1 DEF Solution
    <3> QED BY <3>1
  <2>2. CASE i # N + 1
    <3> SUFFICES ASSUME i >= c, NEW b \in DOMAIN h[i], WholeTo(h[i], b)
                 PROVE  \E d \in i..N : Ends(i, b, d)
      OBVIOUS
    <3> DEFINE o == unit[i].out
               p == unit[i].width
               n == i + p
               t == h[n]
               len == Len(o)
    <3>1. i \in 1..N /\ i <= N /\ c \in 1..N + 1
      BY <1>0, <2>2
    <3>2. UnitKeeps(view, i, unit[i]) /\ n \in R /\ h[i] = o \o t
      BY <3>1 DEF Units, Solution
    <3>3. p \in Nat \ {0} /\ n <= N + 1 /\ o \in View(Nat)
      BY <3>2 DEF UnitKeeps
    <3> HIDE DEF p
    <3>4. i < n /\ n \in 1..N + 1 /\ n >= c
      BY <3>1, <3>3
    <3>5. Good(n)
      BY <1>1, <3>2, <3>4
    <3>6. t \in View(Nat) /\ h[i] \in View(Nat)
      BY <3>2, RewriteOrdered DEF Ordered
    <3>7. /\ len \in Nat /\ Len(t) \in Nat /\ DOMAIN o = 1..len /\ DOMAIN t = 1..Len(t)
          /\ DOMAIN h[i] = 1..len + Len(t) /\ Len(h[i]) = len + Len(t)
          /\ \A k \in 1..len : h[i][k] = o[k]
          /\ \A k \in len + 1..len + Len(t) : k - len \in 1..Len(t) /\ h[i][k] = t[k - len]
          /\ \A k \in 1..Len(t) : h[i][len + k] = t[k]
      <4>1. Nat \in SUBSET Nat
        OBVIOUS
      <4> HIDE DEF o, t
      <4> QED BY <3>2, <3>3, <3>6, <4>1, ConcatIs
    <3> HIDE DEF o, n, t, len
    \* What alike units write from i on.
    <3>10. ASSUME NEW d \in i..N, n <= d + 1, n = d + 1 => o # <<>>,
                  NEW s, NEW us, NEW g, s \in View(Nat), Len(s) = d - c + 1,
                  Alike(view, unit, c, d, us), Solution(g, s, us),
                  NEW rest \in View(Nat), rest = g[n - c + 1]
           PROVE  /\ g[i - c + 1] \in View(Nat)
                  /\ Len(g[i - c + 1]) = len + Len(rest)
                  /\ \A k \in 1..len : g[i - c + 1][k].byte = o[k].byte
                  /\ \A k \in 1..Len(rest) : g[i - c + 1][len + k] = rest[k]
      <4> DEFINE j == i - c + 1
                 q == us[j].out
      <4>1. j \in 1..d - c + 1 /\ i \in c..d /\ d \in Nat
        BY <1>0, <3>1
      <4>2. /\ i + unit[i].width <= d + 1
            /\ (i = c \/ i + unit[i].width = d + 1) => unit[i].out # <<>>
        BY <3>10 DEF n, p, o
      <4>3. /\ us[j].width = unit[i].width /\ Len(q) = Len(unit[i].out)
            /\ \A k \in DOMAIN unit[i].out : q[k].byte = unit[i].out[k].byte
        BY <3>10, <4>1, <4>2 DEF Alike, SameUnit
      <4>4. q \in View(Nat)
        BY <3>10, <4>1 DEF Alike
      <4>5. g[j] = q \o g[j + us[j].width]
        BY <3>10, <4>1 DEF Solution
      <4>6. j + us[j].width = n - c + 1
        BY <3>1, <3>3, <4>3 DEF n, p
      <4>7. g[j] = q \o rest
        BY <3>10, <4>5, <4>6
      <4>8. Len(q) = len /\ \A k \in 1..len : q[k].byte = o[k].byte
        BY <3>7, <4>3 DEF o, len
      <4> HIDE DEF q, j
      <4>9. Nat \in SUBSET Nat
        OBVIOUS
      <4>10. /\ g[j] \in View(Nat) /\ Len(g[j]) = Len(q) + Len(rest)
             /\ \A k \in 1..Len(q) : g[j][k] = q[k]
             /\ \A k \in 1..Len(rest) : g[j][Len(q) + k] = rest[k]
        BY <4>4, <4>7, <4>9, ConcatIs
      <4>11. /\ g[j] \in View(Nat) /\ Len(g[j]) = len + Len(rest)
             /\ \A k \in 1..len : g[j][k].byte = o[k].byte
             /\ \A k \in 1..Len(rest) : g[j][len + k] = rest[k]
        BY <4>8, <4>10
      <4> QED BY <4>11 DEF j
    <3>8. CASE b \in 1..len
      <4> DEFINE d == n - 1
      <4>1. b = len
        <5> SUFFICES ASSUME b # len PROVE FALSE
          OBVIOUS
        <5>1. /\ b + 1 \in 1..len /\ h[i][b] = o[b] /\ h[i][b + 1] = o[b + 1]
              /\ b # Len(h[i])
          BY <3>7, <3>8
        <5>2. b \in DOMAIN unit[i].out /\ b + 1 \in DOMAIN unit[i].out /\ i \in DOMAIN view
          BY <1>0, <3>1, <3>7, <3>8, <5>1 DEF o
        <5>3. Same(o[b], o[b + 1])
          BY <3>2, <5>2, UnitSpan DEF Same, o
        <5> QED BY <5>1, <5>3 DEF WholeTo
      <4>2. d \in i..N /\ d + 1 = n /\ d = i + p - 1
        BY <1>0, <3>1, <3>3, <3>4 DEF n
      <4>3. view[d].end = h[i][b].end
        <5>1. b \in DOMAIN unit[i].out /\ i \in DOMAIN view /\ h[i][b] = o[b]
          BY <1>0, <3>1, <3>7, <3>8 DEF o
        <5>2. o[b].end = view[i + p - 1].end
          BY <3>2, <5>1, UnitSpan DEF o, p
        <5> QED BY <4>2, <5>1, <5>2
      <4>4. WholeTo(view, d)
        <5> SUFFICES ASSUME n \in 1..N, Same(view[n - 1], view[n]) PROVE FALSE
          BY <1>0, <3>4, <4>2 DEF WholeTo
        <5>1. /\ n = i + 1 /\ unit[i].out = <<view[i]>> /\ h[n] # <<>>
              /\ h[n][1] = view[n]
          BY <3>1, SameKept DEF n, p
        <5>2. len = 1 /\ o[1] = view[i]
          BY <5>1 DEF len, o
        <5>3. 1 \in 1..Len(t)
          BY <3>6, <3>7, <5>1 DEF t, View
        <5>4. h[i][1] = view[i] /\ h[i][1 + 1] = t[1] /\ t[1] = view[n] /\ b = 1 /\ b # Len(h[i])
          BY <3>7, <4>1, <5>1, <5>2, <5>3 DEF t
        <5>5. ~Same(h[i][1], h[i][1 + 1])
          BY <5>4 DEF WholeTo
        <5>6. n - 1 = i
          BY <3>1, <5>1
        <5> QED BY <5>4, <5>5, <5>6
      <4>5. Follows(view, unit, c, d, i, h[i], b)
        <5> HIDE DEF d
        <5> SUFFICES ASSUME NEW s, NEW us, NEW g, s \in View(Nat), Len(s) = d - c + 1,
                            Alike(view, unit, c, d, us), Solution(g, s, us)
                     PROVE  /\ g[i - c + 1] \in View(Nat) /\ Len(g[i - c + 1]) = b
                            /\ \A k \in 1..b : g[i - c + 1][k].byte = h[i][k].byte
          BY DEF Follows
        <5>1. g[n - c + 1] = <<>>
          <6>1. Len(s) + 1 = n - c + 1
            <7>1. d \in Int /\ c \in Int /\ n \in Int /\ n = d + 1
              BY <1>0, <3>1, <3>4, <4>2
            <7>2. Len(s) = d - c + 1
              OBVIOUS
            <7> QED BY <7>1, <7>2
          <6> QED BY <6>1 DEF Solution
        <5>2. <<>> \in View(Nat) /\ Len(<<>>) = 0
          BY DEF View
        <5>3. o # <<>> /\ n <= d + 1
          BY <3>7, <3>8, <4>2
        <5>4. /\ g[i - c + 1] \in View(Nat) /\ Len(g[i - c + 1]) = len + 0
              /\ \A k \in 1..len : g[i - c + 1][k].byte = o[k].byte
          BY <3>10, <4>2, <5>1, <5>2, <5>3
        <5> QED BY <3>7, <4>1, <5>4
      <4> QED BY <3>2, <4>2, <4>3, <4>4, <4>5
    <3>9. CASE b \in len + 1..len + Len(t)
      <4> DEFINE e == b - len
      <4>1. e \in 1..Len(t) /\ h[i][b] = t[e] /\ b = len + e /\ e \in Nat
        BY <3>7, <3>9
      <4>2. e \in DOMAIN h[n]
        BY <3>7, <4>1 DEF t
      <4> HIDE DEF e
      <4>3. WholeTo(h[n], e)
        <5>1. CASE e = Len(t)
          BY <5>1 DEF WholeTo, t
        <5>2. CASE e # Len(t)
          <6>1. e + 1 \in 1..Len(t) /\ len + (e + 1) = b + 1 /\ b # Len(h[i])
            <7> DEFINE m == Len(t)
            <7>1. len \in Nat /\ m \in Nat /\ Len(h[i]) = len + m
              BY <3>7
            <7>2. e \in 1..m /\ b = len + e /\ e # m
              BY <4>1, <5>2
            <7> HIDE DEF m
            <7>3. e + 1 \in 1..m /\ len + (e + 1) = b + 1 /\ b # len + m
              BY <7>1, <7>2
            <7> QED BY <7>1, <7>3 DEF m
          <6>2. h[i][b + 1] = t[e + 1]
            BY <3>7, <6>1
          <6> QED BY <4>1, <6>1, <6>2 DEF WholeTo, t
        <5> QED BY <5>1, <5>2
      <4>4. PICK d \in n..N : Ends(n, e, d)
        BY <3>4, <3>5, <4>2, <4>3
      <4>5. d \in i..N /\ view[d].end = h[i][b].end
        BY <3>1, <3>4, <4>1, <4>4 DEF t
      <4>6. Follows(view, unit, c, d, i, h[i], b)
        <5> SUFFICES ASSUME NEW s, NEW us, NEW g, s \in View(Nat), Len(s) = d - c + 1,
                            Alike(view, unit, c, d, us), Solution(g, s, us)
                     PROVE  /\ g[i - c + 1] \in View(Nat) /\ Len(g[i - c + 1]) = b
                            /\ \A k \in 1..b : g[i - c + 1][k].byte = h[i][k].byte
          BY DEF Follows
        <5> DEFINE rest == g[n - c + 1]
        <5>1. rest \in View(Nat) /\ Len(rest) = e /\ \A k \in 1..e : rest[k].byte = t[k].byte
          BY <4>4 DEF Follows, t
        <5>2. n <= d + 1 /\ ~(n = d + 1)
          BY <3>4
        <5> HIDE DEF rest
        <5>3. /\ g[i - c + 1] \in View(Nat) /\ Len(g[i - c + 1]) = len + Len(rest)
              /\ \A k \in 1..len : g[i - c + 1][k].byte = o[k].byte
              /\ \A k \in 1..Len(rest) : g[i - c + 1][len + k] = rest[k]
          BY <3>10, <4>5, <5>1, <5>2 DEF rest
        <5>4. ASSUME NEW k \in 1..b PROVE g[i - c + 1][k].byte = h[i][k].byte
          <6>1. CASE k \in 1..len
            BY <3>7, <5>3, <6>1
          <6>2. CASE k \in len + 1..b
            <7>1. k - len \in 1..e /\ k = len + (k - len) /\ k - len \in 1..Len(t)
              BY <3>7, <4>1, <6>2
            <7>2. g[i - c + 1][k] = rest[k - len]
              BY <5>1, <5>3, <7>1
            <7>3. h[i][k] = t[k - len]
              BY <3>7, <7>1
            <7> QED BY <5>1, <7>1, <7>2, <7>3
          <6> QED BY <3>7, <4>1, <6>1, <6>2
        <5> QED BY <4>1, <5>1, <5>3, <5>4
      <4> QED BY <4>4, <4>5, <4>6
    <3> QED BY <3>7, <3>8, <3>9
  <2> QED BY <2>1, <2>2
<1>2. R \subseteq G
  <2> HIDE DEF G
  <2> QED BY <1>0, <1>1, Downward
<1> QED BY <1>2

\* Rewriting keeps order, and a run of what is written comes from a run of
\* what is read, which by itself is rewritten to it.
LEMMA RunPulls ==
  ASSUME NEW view \in Ordered, NEW unit, NEW R, Units(view, unit, R), 1 \in R
  PROVE  LET t == Rewrite(view, unit)
         IN  /\ t \in Ordered
             /\ \A a, b : Run(t, a, b) =>
                  \E c, d :
                    /\ c \in R /\ d + 1 \in R /\ Run(view, c, d)
                    /\ view[c].start = t[a].start /\ view[d].end = t[b].end
                    /\ \A s, us : Reads(s, view, c, d) /\ Alike(view, unit, c, d, us)
                         => Reads(Rewrite(s, us), t, a, b)
<1> DEFINE N == Len(view)
           t == Rewrite(view, unit)
<1>0. /\ N \in Nat /\ DOMAIN view = 1..N /\ view \in View(Nat) /\ R \in SUBSET (1..N + 1)
      /\ \A i \in 1..N : unit[i].width \in Nat \ {0} /\ i + unit[i].width <= N + 1
  BY CellFields DEF Ordered, Units
<1>1. PICK h : Solution(h, view, unit) /\ t = h[1]
  BY <1>0, FromIs
<1>2. \A i \in R : h[i] \in Ordered
  BY <1>1, RewriteOrdered
<1>3. t \in Ordered
  BY <1>1, <1>2
<1> HIDE DEF t
<1>4. ASSUME NEW a, NEW b, Run(t, a, b)
      PROVE  \E c, d :
               /\ c \in R /\ d + 1 \in R /\ Run(view, c, d)
               /\ view[c].start = t[a].start /\ view[d].end = t[b].end
               /\ \A s, us : Reads(s, view, c, d) /\ Alike(view, unit, c, d, us)
                    => Reads(Rewrite(s, us), t, a, b)
  <2>1. /\ a \in DOMAIN t /\ b \in DOMAIN t /\ a <= b /\ WholeFrom(t, a) /\ WholeTo(t, b)
        /\ Len(t) \in Nat /\ DOMAIN t = 1..Len(t)
    BY <1>3, <1>4, CellFields DEF Run, Ordered
  <2>2. PICK c \in 1..N :
          /\ c \in R /\ unit[c].out # <<>> /\ view[c].start = t[a].start
          /\ c = 1 \/ ~Same(view[c - 1], view[c])
          /\ Rest(h[c], t, a)
    BY <1>1, <2>1, RunStarts
  <2> DEFINE e == b - a + 1
             r == h[c]
  <2>3. /\ r \in Ordered /\ Len(r) \in Nat /\ DOMAIN r = 1..Len(r)
        /\ Len(r) = Len(t) - a + 1 /\ \A k \in 1..Len(r) : r[k] = t[a + k - 1]
    BY <1>2, <2>2, CellFields DEF Ordered, Rest
  <2> HIDE DEF r
  <2>4. e \in 1..Len(r) /\ r[e] = t[b] /\ e \in Nat
    BY <2>1, <2>3
  <2>5. WholeTo(r, e)
    <3>1. CASE b = Len(t)
      BY <2>1, <2>3, <3>1 DEF WholeTo
    <3>2. CASE b # Len(t)
      <4>1. e + 1 \in 1..Len(r) /\ a + (e + 1) - 1 = b + 1
        BY <2>1, <2>3, <3>2
      <4>2. r[e + 1] = t[b + 1]
        BY <2>3, <4>1
      <4> HIDE DEF e
      <4> QED BY <2>1, <2>4, <3>2, <4>2 DEF WholeTo
    <3> QED BY <3>1, <3>2
  <2> HIDE DEF e
  <2>6. PICK d \in c..N :
          /\ d + 1 \in R /\ view[d].end = r[e].end /\ WholeTo(view, d)
          /\ Follows(view, unit, c, d, c, r, e)
    <3>1. c >= c /\ e \in DOMAIN h[c] /\ WholeTo(h[c], e)
      BY <2>3, <2>4, <2>5 DEF r
    <3> QED BY <1>1, <2>2, <3>1, RunEnds DEF r
  <2>7. Run(view, c, d)
    BY <1>0, <2>2, <2>6 DEF Run, WholeFrom
  <2>8. ASSUME NEW s, NEW us, Reads(s, view, c, d), Alike(view, unit, c, d, us)
        PROVE  Reads(Rewrite(s, us), t, a, b)
    <3>1. s \in View(Nat) /\ Len(s) = d - c + 1 /\ Len(s) + 1 = d - c + 2
      BY <1>0, <2>6, <2>8 DEF Reads
    <3>2. \A i \in 1..Len(s) : us[i].width \in Nat \ {0} /\ i + us[i].width <= Len(s) + 1
      BY <2>8, <3>1 DEF Alike
    <3>3. PICK g : Solution(g, s, us) /\ Rewrite(s, us) = g[1]
      BY <3>1, <3>2, FromIs
    <3>4. c - c + 1 = 1
      OBVIOUS
    <3>5. /\ g[1] \in View(Nat) /\ Len(g[1]) = e
          /\ \A k \in 1..e : g[1][k].byte = r[k].byte
      BY <2>6, <2>8, <3>1, <3>3, <3>4 DEF Follows
    <3>6. \A k \in 1..e : r[k] = t[a + k - 1]
      BY <2>3, <2>4
    <3> QED BY <3>3, <3>5, <3>6 DEF Reads, e
  <2> QED BY <2>2, <2>4, <2>6, <2>7, <2>8
<1> QED BY <1>3, <1>4 DEF t

-----------------------------------------------------------------------------
(* The transforms on a part of a view.                                     *)

Paired == {<<"x", "x">>, <<"C3", "A9">>}

\* Bytes of no character that a transform wrote stand alone.
LEMMA AloneBytes ==
  ASSUME NEW view \in Ordered, NEW i \in DOMAIN view, NEW width \in Nat \ {0},
         i + width <= Len(view) + 1,
         \A k \in i..i + width - 1 : view[k].byte \notin {"x", "C3", "A9"}
  PROVE  Alone(view, i, width)
<1>0. /\ view \in View(Nat) /\ InOrder(view) /\ Len(view) \in Nat /\ DOMAIN view = 1..Len(view)
      /\ \A k \in DOMAIN view : /\ view[k].start \in Nat /\ view[k].end \in Nat
                                /\ view[k].start < view[k].end
  BY CellFields DEF Ordered
<1>1. ASSUME NEW k \in i..i + width - 1, NEW j \in DOMAIN view,
             j \notin i..i + width - 1, Same(view[k], view[j])
      PROVE  FALSE
  <2>1. k \in DOMAIN view /\ (k < j \/ j < k)
    BY <1>0, <1>1
  <2>2. view[k].start = view[j].start /\ view[k].end = view[j].end
    BY <1>1 DEF Same
  <2>3. view[k].byte \notin {"x", "C3", "A9"}
    OBVIOUS
  <2>4. CASE k < j
    <3>1. ~(view[k].end <= view[j].start)
      BY <1>0, <2>1, <2>2
    <3>2. <<view[k].byte, view[j].byte>> \in {<<"x", "x">>, <<"C3", "A9">>}
      BY <1>0, <2>1, <2>4, <3>1 DEF InOrder
    <3> QED BY <2>3, <3>2
  <2>5. CASE j < k
    <3>1. ~(view[j].end <= view[k].start)
      BY <1>0, <2>1, <2>2
    <3>2. <<view[j].byte, view[k].byte>> \in {<<"x", "x">>, <<"C3", "A9">>}
      BY <1>0, <2>1, <2>5, <3>1 DEF InOrder
    <3> QED BY <2>3, <3>2
  <2> QED BY <2>1, <2>4, <2>5
<1> QED BY <1>1 DEF Alone

\* The source of a part of an ordered view.
LEMMA HullIs ==
  ASSUME NEW view \in Ordered, NEW from \in DOMAIN view, NEW to \in DOMAIN view, from <= to
  PROVE  /\ combined_source(view, from, to).start = view[from].start
         /\ combined_source(view, from, to).end = view[to].end
<1> DEFINE span == combined_source(view, from, to)
<1>0. /\ view \in View(Nat) /\ InOrder(view) /\ Len(view) \in Nat /\ DOMAIN view = 1..Len(view)
      /\ \A k \in DOMAIN view : /\ view[k].start \in Nat /\ view[k].end \in Nat
                                /\ view[k].start < view[k].end
  BY CellFields DEF Ordered
<1>1. /\ span.start \in Nat /\ span.end \in Nat
      /\ \A i \in from..to : span.start <= view[i].start /\ view[i].end <= span.end
      /\ \E i \in from..to : span.start = view[i].start
      /\ \E i \in from..to : span.end = view[i].end
  <2>1. Nat \in SUBSET Nat
    OBVIOUS
  <2> QED BY <1>0, <2>1, CombinedSource
<1> HIDE DEF span
<1>2. \A i \in from..to : /\ i \in DOMAIN view
                          /\ view[from].start <= view[i].start /\ view[i].end <= view[to].end
  <2> SUFFICES ASSUME NEW i \in from..to
               PROVE  /\ i \in DOMAIN view
                      /\ view[from].start <= view[i].start /\ view[i].end <= view[to].end
    OBVIOUS
  <2>1. i \in DOMAIN view /\ (from = i \/ from < i) /\ (i = to \/ i < to)
    BY <1>0
  <2>2. view[from].start <= view[i].start
    <3>1. from < i => view[from].end <= view[i].start \/ view[from].start = view[i].start
      BY <1>0, <2>1 DEF InOrder, Same
    <3> QED BY <1>0, <2>1, <3>1
  <2>3. view[i].end <= view[to].end
    <3>1. i < to => view[i].end <= view[to].start \/ view[i].end = view[to].end
      BY <1>0, <2>1 DEF InOrder, Same
    <3> QED BY <1>0, <2>1, <3>1
  <2> QED BY <2>1, <2>2, <2>3
<1>3. from \in from..to /\ to \in from..to
  BY <1>0
<1> QED BY <1>0, <1>1, <1>2, <1>3 DEF span

\* What a decoded unit writes.
LEMMA DecodedBytes ==
  ASSUME NEW view, NEW i, NEW width, NEW bytes \in Seq(Symbol)
  PROVE  LET u == Decoded(view, i, width, bytes)
         IN  /\ u.width = width /\ Len(u.out) = Len(bytes) /\ DOMAIN u.out = 1..Len(bytes)
             /\ \A k \in 1..Len(bytes) :
                  /\ u.out[k].byte = bytes[k]
                  /\ u.out[k].start = combined_source(view, i, i + width - 1).start
                  /\ u.out[k].end = combined_source(view, i, i + width - 1).end
<1> DEFINE span == combined_source(view, i, i + width - 1)
           out == append_with_source(bytes, span)
<1>1. Decoded(view, i, width, bytes).width = width /\ Decoded(view, i, width, bytes).out = out
  BY DEF Decoded
<1> HIDE DEF span
<1>2. out = [k \in 1..Len(bytes) |->
               [byte |-> bytes[k], start |-> span.start, end |-> span.end]]
  BY DEF append_with_source
<1>3. Len(bytes) \in Nat
  OBVIOUS
<1>4. Len(out) = Len(bytes) /\ DOMAIN out = 1..Len(bytes)
  BY <1>2, <1>3
<1>5. \A k \in 1..Len(bytes) : /\ out[k].byte = bytes[k] /\ out[k].start = span.start
                               /\ out[k].end = span.end
  BY <1>2
<1> HIDE DEF out
<1> QED BY <1>1, <1>4, <1>5 DEF span

\* Bytes that stand alone and are decoded to one character.
LEMMA DecodedKeeps ==
  ASSUME NEW view \in Ordered, NEW i \in DOMAIN view, NEW width \in {1, 2},
         i + width - 1 \in DOMAIN view, NEW bytes \in Seq(Symbol),
         \A k, l \in DOMAIN bytes : k < l => <<bytes[k], bytes[l]>> \in Paired,
         Alone(view, i, width)
  PROVE  UnitKeeps(view, i, Decoded(view, i, width, bytes))
<1> DEFINE u == Decoded(view, i, width, bytes)
<1>0. view \in View(Nat) /\ Nat \in SUBSET Nat /\ Len(view) \in Nat /\ DOMAIN view = 1..Len(view)
  BY CellFields DEF Ordered
<1>1. UnitOK(Nat, view, i, u)
  BY <1>0, PairOK
<1>2. /\ u.width = width /\ DOMAIN u.out = 1..Len(bytes) /\ DOMAIN bytes = 1..Len(bytes)
      /\ \A k \in 1..Len(bytes) :
           /\ u.out[k].byte = bytes[k]
           /\ u.out[k].start = combined_source(view, i, i + width - 1).start
           /\ u.out[k].end = combined_source(view, i, i + width - 1).end
  BY DecodedBytes
<1>3. /\ combined_source(view, i, i + width - 1).start = view[i].start
      /\ combined_source(view, i, i + width - 1).end = view[i + width - 1].end
  <2>1. i <= i + width - 1
    BY <1>0
  <2> QED BY <2>1, HullIs
<1> HIDE DEF u
<1>4. \A k \in DOMAIN u.out : /\ u.out[k].start = view[i].start
                              /\ u.out[k].end = view[i + u.width - 1].end
  BY <1>2, <1>3
<1>5. \A k, l \in DOMAIN u.out : k < l =>
        <<u.out[k].byte, u.out[l].byte>> \in {<<"x", "x">>, <<"C3", "A9">>}
  BY <1>2 DEF Paired
<1>6. Alone(view, i, u.width)
  BY <1>2
<1>7. UnitKeeps(view, i, u)
  BY <1>1, <1>4, <1>5, <1>6 DEF UnitKeeps, UnitOK
<1> QED BY <1>7 DEF u

\* A byte that is kept.
LEMMA KeptKeeps ==
  ASSUME NEW view \in Ordered, NEW i \in DOMAIN view
  PROVE  UnitKeeps(view, i, Kept(view, i))
<1>1. view \in View(Nat) /\ Nat \in SUBSET Nat
  BY DEF Ordered
<1>2. UnitOK(Nat, view, i, Kept(view, i))
  BY <1>1, KeptOK
<1>3. Kept(view, i).width = 1 /\ Kept(view, i).out = <<view[i]>>
  BY DEF Kept
<1> QED BY <1>2, <1>3 DEF UnitKeeps, UnitOK

\* Bytes that stand alone and are dropped.
LEMMA DropKeeps ==
  ASSUME NEW view \in Ordered, NEW i \in DOMAIN view, NEW width \in Nat \ {0},
         i + width <= Len(view) + 1, Alone(view, i, width)
  PROVE  UnitKeeps(view, i, [width |-> width, out |-> <<>>])
<1> DEFINE u == [width |-> width, out |-> <<>>]
<1>1. u.width = width /\ u.out = <<>> /\ DOMAIN u.out = {} /\ u.out \in View(Nat)
  BY DEF View
<1> HIDE DEF u
<1>2. UnitKeeps(view, i, u)
  BY <1>1 DEF UnitKeeps
<1> QED BY <1>2 DEF u

\* The bytes of a view and of what reads a part of it.
LEMMA ReadsByte ==
  ASSUME NEW view \in Ordered, NEW c \in DOMAIN view, NEW d \in DOMAIN view, c <= d,
         NEW s, Reads(s, view, c, d), NEW i \in c..d
  PROVE  /\ i \in DOMAIN view /\ i - c + 1 \in DOMAIN s
         /\ s \in View(Nat) /\ Len(s) = d - c + 1 /\ DOMAIN s = 1..d - c + 1
         /\ s[i - c + 1].byte = view[i].byte
         /\ ByteAt(s, i - c + 1) = ByteAt(view, i)
<1>1. /\ Len(view) \in Nat /\ DOMAIN view = 1..Len(view)
      /\ s \in View(Nat) /\ Len(s) = d - c + 1 /\ DOMAIN s = 1..Len(s)
      /\ \A k \in 1..Len(s) : s[k].byte = view[c + k - 1].byte
  BY CellFields DEF Ordered, Reads
<1>2. i - c + 1 \in 1..Len(s) /\ c + (i - c + 1) - 1 = i /\ i \in DOMAIN view
  BY <1>1
<1>3. s[i - c + 1].byte = view[i].byte
  BY <1>1, <1>2
<1> QED BY <1>1, <1>2, <1>3 DEF ByteAt

\* The byte after the last one.
LEMMA NoByteAfter ==
  ASSUME NEW s \in View(Nat)
  PROVE  ByteAt(s, Len(s) + 1) = "none" /\ ByteAt(s, 0) = "none"
BY CellFields DEF ByteAt

\* A kept byte and the same byte kept elsewhere.
LEMMA KeptAlike ==
  ASSUME NEW view, NEW i, NEW s, NEW j, s[j].byte = view[i].byte
  PROVE  SameUnit(Kept(s, j), Kept(view, i))
BY DEF SameUnit, Kept

\* The same bytes decoded elsewhere.
LEMMA DecodedAlike ==
  ASSUME NEW view, NEW i, NEW s, NEW j, NEW width, NEW bytes \in Seq(Symbol)
  PROVE  SameUnit(Decoded(s, j, width, bytes), Decoded(view, i, width, bytes))
<1> DEFINE u == Decoded(view, i, width, bytes)
           v == Decoded(s, j, width, bytes)
<1>1. /\ u.width = width /\ Len(u.out) = Len(bytes) /\ DOMAIN u.out = 1..Len(bytes)
      /\ \A k \in 1..Len(bytes) : u.out[k].byte = bytes[k]
  BY DecodedBytes
<1>2. /\ v.width = width /\ Len(v.out) = Len(bytes)
      /\ \A k \in 1..Len(bytes) : v.out[k].byte = bytes[k]
  BY DecodedBytes
<1> HIDE DEF u, v
<1>3. SameUnit(v, u)
  BY <1>1, <1>2 DEF SameUnit
<1> QED BY <1>3 DEF u, v

\* A part of a view has the source of a part of what it was rewritten to.
SameSource(view, c, d, t, a, b) ==
  view[c].start = t[a].start /\ view[d].end = t[b].end

\* RunPulls for a transform that may come to every byte.
LEMMA TransformPulls ==
  ASSUME NEW view \in Ordered, NEW unit,
         \A i \in DOMAIN view : UnitKeeps(view, i, unit[i])
  PROVE  LET t == Rewrite(view, unit)
         IN  /\ t \in Ordered
             /\ \A a, b : Run(t, a, b) =>
                  \E c, d :
                    /\ Run(view, c, d) /\ SameSource(view, c, d, t, a, b)
                    /\ \A s, us : Reads(s, view, c, d) /\ Alike(view, unit, c, d, us)
                         => Reads(Rewrite(s, us), t, a, b)
<1> DEFINE R == 1..Len(view) + 1
<1>1. Len(view) \in Nat /\ DOMAIN view = 1..Len(view)
  BY CellFields DEF Ordered
<1>2. Units(view, unit, R)
  <2>1. \A i \in 1..Len(view) : /\ unit[i].width \in Nat \ {0}
                                /\ i + unit[i].width <= Len(view) + 1
                                /\ UnitKeeps(view, i, unit[i])
    BY <1>1 DEF UnitKeeps
  <2>2. \A i \in R : i <= Len(view) => /\ i + unit[i].width \in R
                                       /\ UnitKeeps(view, i, unit[i])
    BY <1>1, <2>1
  <2> HIDE DEF R
  <2>3. R \in SUBSET (1..Len(view) + 1)
    BY DEF R
  <2> QED BY <2>1, <2>2, <2>3 DEF Units
<1>3. 1 \in R
  BY <1>1
<1> HIDE DEF R
<1> DEFINE t == Rewrite(view, unit)
<1>4. /\ t \in Ordered
      /\ \A a, b : Run(t, a, b) =>
           \E c, d :
             /\ c \in R /\ d + 1 \in R /\ Run(view, c, d)
             /\ view[c].start = t[a].start /\ view[d].end = t[b].end
             /\ \A s, us : Reads(s, view, c, d) /\ Alike(view, unit, c, d, us)
                  => Reads(Rewrite(s, us), t, a, b)
  BY <1>2, <1>3, RunPulls
<1> HIDE DEF t
<1>5. ASSUME NEW a, NEW b, Run(t, a, b)
      PROVE  \E c, d :
               /\ Run(view, c, d) /\ SameSource(view, c, d, t, a, b)
               /\ \A s, us : Reads(s, view, c, d) /\ Alike(view, unit, c, d, us)
                    => Reads(Rewrite(s, us), t, a, b)
  BY <1>4, <1>5, Zenon DEF SameSource
<1> QED BY <1>4, <1>5 DEF t

\* Units are alike when each is right for its own view and they agree.
LEMMA AlikeWhen ==
  ASSUME NEW view, NEW unit, NEW c \in Nat, NEW d \in Nat, NEW s \in View(Nat),
         Len(s) = d - c + 1, NEW us,
         \A j \in DOMAIN s : UnitOK(Nat, s, j, us[j]),
         \A i \in c..d :
           /\ i + unit[i].width <= d + 1
           /\ (i = c \/ i + unit[i].width = d + 1) => unit[i].out # <<>>
           => SameUnit(us[i - c + 1], unit[i])
  PROVE  Alike(view, unit, c, d, us)
<1>1. DOMAIN s = 1..d - c + 1 /\ Len(s) + 1 = d - c + 2
  BY CellFields
<1>2. \A j \in 1..d - c + 1 : /\ us[j].width \in Nat \ {0} /\ j + us[j].width <= d - c + 2
                              /\ us[j].out \in View(Nat)
  BY <1>1 DEF UnitOK
<1> QED BY <1>2 DEF Alike

\* A run of a view.
LEMMA RunIs ==
  ASSUME NEW view \in Ordered, NEW c, NEW d, Run(view, c, d)
  PROVE  /\ c \in DOMAIN view /\ d \in DOMAIN view /\ c <= d
         /\ c \in Nat /\ d \in Nat /\ Len(view) \in Nat /\ DOMAIN view = 1..Len(view)
BY CellFields DEF Ordered, Run

\* A run of decoded JSON escapes is decoded from a run.
LEMMA JsonPulls ==
  ASSUME NEW view \in Ordered
  PROVE  LET t == decode_json_escapes(view)
         IN  /\ t \in Ordered
             /\ \A a, b : Run(t, a, b) =>
                  \E c, d :
                    /\ Run(view, c, d) /\ SameSource(view, c, d, t, a, b)
                    /\ \A s : Reads(s, view, c, d) =>
                         Reads(decode_json_escapes(s), t, a, b)
<1> DEFINE Unit(v) == [i \in DOMAIN v |-> JsonUnit(v, i)]
           unit == Unit(view)
           t == Rewrite(view, unit)
<1>0. \A v : decode_json_escapes(v) = Rewrite(v, Unit(v))
  BY DEF decode_json_escapes
<1>1. view \in View(Nat) /\ Nat \in SUBSET Nat /\ Len(view) \in Nat /\ DOMAIN view = 1..Len(view)
  BY CellFields DEF Ordered
<1>2. /\ "none" \notin EscapeTail
      /\ \A tail \in EscapeTail : tail \notin {"x", "C3", "A9"}
  BY DEF EscapeTail, Escape
<1>3. ASSUME NEW tail \in EscapeTail
      PROVE  /\ decode_escape(tail) \in Seq(Symbol)
             /\ \A k, l \in DOMAIN decode_escape(tail) : k < l =>
                  <<decode_escape(tail)[k], decode_escape(tail)[l]>> \in Paired
  <2>1. decode_escape(tail) \in Seq(Symbol)
    BY EscapeIs
  <2>2. \/ decode_escape(tail) = <<"C3", "A9">>
        \/ \E byte : decode_escape(tail) = <<byte>>
    BY DEF EscapeTail, Escape, decode_escape
  <2>3. CASE decode_escape(tail) = <<"C3", "A9">>
    BY <2>1, <2>3 DEF Paired
  <2>4. CASE \E byte : decode_escape(tail) = <<byte>>
    BY <2>1, <2>4
  <2> QED BY <2>2, <2>3, <2>4
<1>4. ASSUME NEW i \in DOMAIN view PROVE UnitKeeps(view, i, unit[i])
  <2> DEFINE tail == ByteAt(view, i + 1)
  <2>1. CASE ByteAt(view, i) = "\\" /\ tail \in EscapeTail
    <3>1. i + 1 \in DOMAIN view
      BY <1>2, <2>1, ByteAtIs
    <3>2. view[i].byte = "\\" /\ view[i + 1].byte = tail
      BY <2>1, <3>1 DEF ByteAt
    <3>3. 2 \in Nat \ {0} /\ i + 2 <= Len(view) + 1 /\ i + 2 - 1 = i + 1
          /\ \A k \in i..i + 2 - 1 : k = i \/ k = i + 1
      BY <1>1, <3>1
    <3>4. Alone(view, i, 2)
      <4>1. \A k \in i..i + 2 - 1 : view[k].byte \notin {"x", "C3", "A9"}
        BY <1>2, <2>1, <3>2, <3>3
      <4> QED BY <3>3, <4>1, AloneBytes
    <3>5. unit[i] = Decoded(view, i, 2, decode_escape(tail))
      BY <2>1 DEF JsonUnit
    <3> HIDE DEF tail, unit
    <3> QED BY <1>3, <2>1, <3>1, <3>3, <3>4, <3>5, DecodedKeeps
  <2>2. CASE ~(ByteAt(view, i) = "\\" /\ tail \in EscapeTail)
    <3>1. unit[i] = Kept(view, i)
      BY <2>2 DEF JsonUnit
    <3> QED BY <3>1, KeptKeeps
  <2> QED BY <2>1, <2>2
<1>5. ASSUME NEW c, NEW d, Run(view, c, d), NEW s, Reads(s, view, c, d)
      PROVE  Alike(view, unit, c, d, Unit(s))
  <2>1. /\ c \in DOMAIN view /\ d \in DOMAIN view /\ c <= d /\ c \in Nat /\ d \in Nat
        /\ s \in View(Nat) /\ Len(s) = d - c + 1
    BY <1>5, RunIs DEF Reads
  <2>2. \A j \in DOMAIN s : UnitOK(Nat, s, j, Unit(s)[j])
    BY <1>1, <2>1, JsonOK
  <2>3. ASSUME NEW i \in c..d, i + unit[i].width <= d + 1
        PROVE  SameUnit(Unit(s)[i - c + 1], unit[i])
    <3> DEFINE j == i - c + 1
    <3>1. /\ i \in DOMAIN view /\ j \in DOMAIN s /\ s[j].byte = view[i].byte
          /\ ByteAt(s, j) = ByteAt(view, i)
      BY <1>5, <2>1, ReadsByte
    <3>2. unit[i] = JsonUnit(view, i) /\ Unit(s)[j] = JsonUnit(s, j)
      BY <3>1
    <3>3. ByteAt(s, j + 1) = IF i < d THEN ByteAt(view, i + 1) ELSE "none"
      <4>1. CASE i < d
        <5>1. i + 1 \in c..d /\ (i + 1) - c + 1 = j + 1
          BY <2>1, <4>1
        <5>2. ByteAt(s, (i + 1) - c + 1) = ByteAt(view, i + 1)
          BY <1>5, <2>1, <5>1, ReadsByte
        <5> QED BY <4>1, <5>1, <5>2
      <4>2. CASE ~(i < d)
        <5>1. j + 1 = Len(s) + 1
          BY <2>1, <4>2
        <5> QED BY <2>1, <4>2, <5>1, NoByteAfter
      <4> QED BY <4>1, <4>2
    <3> HIDE DEF j, unit
    <3>4. CASE ByteAt(view, i) = "\\" /\ ByteAt(view, i + 1) \in EscapeTail
      <4> DEFINE bytes == decode_escape(ByteAt(view, i + 1))
      <4>1. JsonUnit(view, i) = Decoded(view, i, 2, bytes) /\ bytes \in Seq(Symbol)
        BY <1>3, <3>4 DEF JsonUnit
      <4> HIDE DEF bytes
      <4>2. JsonUnit(view, i).width = 2
        BY <4>1, DecodedBytes
      <4>3. i < d
        BY <2>1, <2>3, <3>2, <4>2
      <4>4. JsonUnit(s, j) = Decoded(s, j, 2, bytes)
        BY <3>1, <3>3, <3>4, <4>3 DEF JsonUnit, bytes
      <4> QED BY <3>2, <4>1, <4>4, DecodedAlike DEF j
    <3>5. CASE ~(ByteAt(view, i) = "\\" /\ ByteAt(view, i + 1) \in EscapeTail)
      <4>1. JsonUnit(view, i) = Kept(view, i)
        BY <3>5 DEF JsonUnit
      <4>2. JsonUnit(s, j) = Kept(s, j)
        BY <1>2, <3>1, <3>3, <3>5 DEF JsonUnit
      <4> QED BY <3>1, <3>2, <4>1, <4>2, KeptAlike DEF j
    <3> QED BY <3>4, <3>5
  <2> HIDE DEF unit, Unit
  <2> QED BY <2>1, <2>2, <2>3, AlikeWhen
<1> HIDE DEF unit, Unit
<1>6. /\ t \in Ordered
      /\ \A a, b : Run(t, a, b) =>
           \E c, d :
             /\ Run(view, c, d) /\ SameSource(view, c, d, t, a, b)
             /\ \A s, us : Reads(s, view, c, d) /\ Alike(view, unit, c, d, us)
                  => Reads(Rewrite(s, us), t, a, b)
  BY <1>4, TransformPulls
<1>7. t = decode_json_escapes(view)
  BY <1>0 DEF unit
<1> HIDE DEF t
<1>8. ASSUME NEW a, NEW b, Run(t, a, b)
      PROVE  \E c, d : /\ Run(view, c, d) /\ SameSource(view, c, d, t, a, b)
                       /\ \A s : Reads(s, view, c, d) => Reads(decode_json_escapes(s), t, a, b)
  <2>1. PICK c, d :
          /\ Run(view, c, d) /\ SameSource(view, c, d, t, a, b)
          /\ \A s, us : Reads(s, view, c, d) /\ Alike(view, unit, c, d, us)
               => Reads(Rewrite(s, us), t, a, b)
    BY <1>6, <1>8, Zenon
  <2>2. ASSUME NEW s, Reads(s, view, c, d) PROVE Reads(decode_json_escapes(s), t, a, b)
    <3>1. Alike(view, unit, c, d, Unit(s))
      BY <1>5, <2>1, <2>2
    <3>2. Reads(Rewrite(s, Unit(s)), t, a, b)
      BY <2>1, <2>2, <3>1, Zenon
    <3> QED BY <1>0, <3>2
  <2> QED BY <2>1, <2>2
<1> QED BY <1>6, <1>7, <1>8

\* A run of decoded percent encodings is decoded from a run.
LEMMA PercentPulls ==
  ASSUME NEW view \in Ordered
  PROVE  LET t == decode_percent_encoding(view)
         IN  /\ t \in Ordered
             /\ \A a, b : Run(t, a, b) =>
                  \E c, d :
                    /\ Run(view, c, d) /\ SameSource(view, c, d, t, a, b)
                    /\ \A s : Reads(s, view, c, d) =>
                         Reads(decode_percent_encoding(s), t, a, b)
<1> DEFINE Unit(v) == [i \in DOMAIN v |-> PercentUnit(v, i)]
           unit == Unit(view)
           t == Rewrite(view, unit)
<1>0. \A v : decode_percent_encoding(v) = Rewrite(v, Unit(v))
  BY DEF decode_percent_encoding
<1>1. view \in View(Nat) /\ Nat \in SUBSET Nat /\ Len(view) \in Nat /\ DOMAIN view = 1..Len(view)
  BY CellFields DEF Ordered
<1>2. /\ "none" \notin DOMAIN HexPair
      /\ \A pair \in DOMAIN HexPair : pair \notin {"x", "C3", "A9"}
  BY DEF HexPair
<1>3. ASSUME NEW pair \in DOMAIN HexPair
      PROVE  /\ <<HexPair[pair]>> \in Seq(Symbol)
             /\ \A k, l \in DOMAIN <<HexPair[pair]>> : k < l =>
                  <<<<HexPair[pair]>>[k], <<HexPair[pair]>>[l]>> \in Paired
  BY HexPairIs
<1>4. ASSUME NEW i \in DOMAIN view PROVE UnitKeeps(view, i, unit[i])
  <2> DEFINE pair == ByteAt(view, i + 1)
  <2>1. CASE ByteAt(view, i) = "%" /\ pair \in DOMAIN HexPair
    <3>1. i + 1 \in DOMAIN view
      BY <1>2, <2>1, ByteAtIs
    <3>2. view[i].byte = "%" /\ view[i + 1].byte = pair
      BY <2>1, <3>1 DEF ByteAt
    <3>3. 2 \in Nat \ {0} /\ i + 2 <= Len(view) + 1 /\ i + 2 - 1 = i + 1
          /\ \A k \in i..i + 2 - 1 : k = i \/ k = i + 1
      BY <1>1, <3>1
    <3>4. Alone(view, i, 2)
      <4>1. \A k \in i..i + 2 - 1 : view[k].byte \notin {"x", "C3", "A9"}
        BY <1>2, <2>1, <3>2, <3>3
      <4> QED BY <3>3, <4>1, AloneBytes
    <3>5. unit[i] = Decoded(view, i, 2, <<HexPair[pair]>>)
      BY <2>1 DEF PercentUnit
    <3> HIDE DEF pair, unit
    <3> QED BY <1>3, <2>1, <3>1, <3>3, <3>4, <3>5, DecodedKeeps
  <2>2. CASE ~(ByteAt(view, i) = "%" /\ pair \in DOMAIN HexPair)
    <3>1. unit[i] = Kept(view, i)
      BY <2>2 DEF PercentUnit
    <3> QED BY <3>1, KeptKeeps
  <2> QED BY <2>1, <2>2
<1>5. ASSUME NEW c, NEW d, Run(view, c, d), NEW s, Reads(s, view, c, d)
      PROVE  Alike(view, unit, c, d, Unit(s))
  <2>1. /\ c \in DOMAIN view /\ d \in DOMAIN view /\ c <= d /\ c \in Nat /\ d \in Nat
        /\ s \in View(Nat) /\ Len(s) = d - c + 1
    BY <1>5, RunIs DEF Reads
  <2>2. \A j \in DOMAIN s : UnitOK(Nat, s, j, Unit(s)[j])
    BY <1>1, <2>1, PercentOK
  <2>3. ASSUME NEW i \in c..d, i + unit[i].width <= d + 1
        PROVE  SameUnit(Unit(s)[i - c + 1], unit[i])
    <3> DEFINE j == i - c + 1
    <3>1. /\ i \in DOMAIN view /\ j \in DOMAIN s /\ s[j].byte = view[i].byte
          /\ ByteAt(s, j) = ByteAt(view, i)
      BY <1>5, <2>1, ReadsByte
    <3>2. unit[i] = PercentUnit(view, i) /\ Unit(s)[j] = PercentUnit(s, j)
      BY <3>1
    <3>3. ByteAt(s, j + 1) = IF i < d THEN ByteAt(view, i + 1) ELSE "none"
      <4>1. CASE i < d
        <5>1. i + 1 \in c..d /\ (i + 1) - c + 1 = j + 1
          BY <2>1, <4>1
        <5>2. ByteAt(s, (i + 1) - c + 1) = ByteAt(view, i + 1)
          BY <1>5, <2>1, <5>1, ReadsByte
        <5> QED BY <4>1, <5>1, <5>2
      <4>2. CASE ~(i < d)
        <5>1. j + 1 = Len(s) + 1
          BY <2>1, <4>2
        <5> QED BY <2>1, <4>2, <5>1, NoByteAfter
      <4> QED BY <4>1, <4>2
    <3> HIDE DEF j, unit
    <3>4. CASE ByteAt(view, i) = "%" /\ ByteAt(view, i + 1) \in DOMAIN HexPair
      <4> DEFINE bytes == <<HexPair[ByteAt(view, i + 1)]>>
      <4>1. PercentUnit(view, i) = Decoded(view, i, 2, bytes) /\ bytes \in Seq(Symbol)
        BY <1>3, <3>4 DEF PercentUnit
      <4> HIDE DEF bytes
      <4>2. PercentUnit(view, i).width = 2
        BY <4>1, DecodedBytes
      <4>3. i < d
        BY <2>1, <2>3, <3>2, <4>2
      <4>4. PercentUnit(s, j) = Decoded(s, j, 2, bytes)
        BY <3>1, <3>3, <3>4, <4>3 DEF PercentUnit, bytes
      <4> QED BY <3>2, <4>1, <4>4, DecodedAlike DEF j
    <3>5. CASE ~(ByteAt(view, i) = "%" /\ ByteAt(view, i + 1) \in DOMAIN HexPair)
      <4>1. PercentUnit(view, i) = Kept(view, i)
        BY <3>5 DEF PercentUnit
      <4>2. PercentUnit(s, j) = Kept(s, j)
        BY <1>2, <3>1, <3>3, <3>5 DEF PercentUnit
      <4> QED BY <3>1, <3>2, <4>1, <4>2, KeptAlike DEF j
    <3> QED BY <3>4, <3>5
  <2> HIDE DEF unit, Unit
  <2> QED BY <2>1, <2>2, <2>3, AlikeWhen
<1> HIDE DEF unit, Unit
<1>6. /\ t \in Ordered
      /\ \A a, b : Run(t, a, b) =>
           \E c, d :
             /\ Run(view, c, d) /\ SameSource(view, c, d, t, a, b)
             /\ \A s, us : Reads(s, view, c, d) /\ Alike(view, unit, c, d, us)
                  => Reads(Rewrite(s, us), t, a, b)
  BY <1>4, TransformPulls
<1>7. t = decode_percent_encoding(view)
  BY <1>0 DEF unit
<1> HIDE DEF t
<1>8. ASSUME NEW a, NEW b, Run(t, a, b)
      PROVE  \E c, d : /\ Run(view, c, d) /\ SameSource(view, c, d, t, a, b)
                       /\ \A s : Reads(s, view, c, d) => Reads(decode_percent_encoding(s), t, a, b)
  <2>1. PICK c, d :
          /\ Run(view, c, d) /\ SameSource(view, c, d, t, a, b)
          /\ \A s, us : Reads(s, view, c, d) /\ Alike(view, unit, c, d, us)
               => Reads(Rewrite(s, us), t, a, b)
    BY <1>6, <1>8, Zenon
  <2>2. ASSUME NEW s, Reads(s, view, c, d) PROVE Reads(decode_percent_encoding(s), t, a, b)
    <3>1. Alike(view, unit, c, d, Unit(s))
      BY <1>5, <2>1, <2>2
    <3>2. Reads(Rewrite(s, Unit(s)), t, a, b)
      BY <2>1, <2>2, <3>1, Zenon
    <3> QED BY <1>0, <3>2
  <2> QED BY <2>1, <2>2
<1> QED BY <1>6, <1>7, <1>8

\* A run of a collapsed view is collapsed from a run: a separator that is
\* dropped stands between two bytes of it.
LEMMA CollapsePulls ==
  ASSUME NEW view \in Ordered
  PROVE  LET t == collapse_candidate_separators(view)
         IN  /\ t \in Ordered
             /\ \A a, b : Run(t, a, b) =>
                  \E c, d :
                    /\ Run(view, c, d) /\ SameSource(view, c, d, t, a, b)
                    /\ \A s : Reads(s, view, c, d) =>
                         Reads(collapse_candidate_separators(s), t, a, b)
<1> DEFINE Unit(v) == [i \in DOMAIN v |-> CollapseUnit(v, i)]
           Drops(v, i) == /\ ByteAt(v, i) = "."
                          /\ i - 1 \in DOMAIN v /\ is_token_byte(ByteAt(v, i - 1))
                          /\ i + 1 \in DOMAIN v /\ is_token_byte(ByteAt(v, i + 1))
           unit == Unit(view)
           t == Rewrite(view, unit)
<1>0. \A v : collapse_candidate_separators(v) = Rewrite(v, Unit(v))
  BY DEF collapse_candidate_separators
<1>1. view \in View(Nat) /\ Nat \in SUBSET Nat /\ Len(view) \in Nat /\ DOMAIN view = 1..Len(view)
  BY CellFields DEF Ordered
<1>2. \A v, i : /\ Drops(v, i) => CollapseUnit(v, i) = [width |-> 1, out |-> <<>>]
                /\ ~Drops(v, i) => CollapseUnit(v, i) = Kept(v, i)
  BY DEF CollapseUnit
<1>3. \A v, i : CollapseUnit(v, i).width = 1
  BY DEF CollapseUnit, Kept
<1>4. ASSUME NEW i \in DOMAIN view PROVE UnitKeeps(view, i, unit[i])
  <2>1. CASE Drops(view, i)
    <3>1. 1 \in Nat \ {0} /\ i + 1 <= Len(view) + 1 /\ \A k \in i..i + 1 - 1 : k = i
      BY <1>1
    <3>2. view[i].byte = "."
      BY <2>1 DEF ByteAt
    <3>3. Alone(view, i, 1)
      BY <3>1, <3>2, AloneBytes
    <3>4. unit[i] = [width |-> 1, out |-> <<>>]
      BY <1>2, <2>1
    <3> QED BY <3>1, <3>3, <3>4, DropKeeps
  <2>2. CASE ~Drops(view, i)
    <3>1. unit[i] = Kept(view, i)
      BY <1>2, <2>2
    <3> QED BY <3>1, KeptKeeps
  <2> QED BY <2>1, <2>2
<1>5. ASSUME NEW c, NEW d, Run(view, c, d), NEW s, Reads(s, view, c, d)
      PROVE  Alike(view, unit, c, d, Unit(s))
  <2>1. /\ c \in DOMAIN view /\ d \in DOMAIN view /\ c <= d /\ c \in Nat /\ d \in Nat
        /\ s \in View(Nat) /\ Len(s) = d - c + 1 /\ DOMAIN s = 1..d - c + 1
    BY <1>5, RunIs, CellFields DEF Reads
  <2>2. \A j \in DOMAIN s : UnitOK(Nat, s, j, Unit(s)[j])
    BY <1>1, <2>1, CollapseOK
  <2>3. ASSUME NEW i \in c..d, (i = c \/ i + unit[i].width = d + 1) => unit[i].out # <<>>
        PROVE  SameUnit(Unit(s)[i - c + 1], unit[i])
    <3> DEFINE j == i - c + 1
    <3>1. /\ i \in DOMAIN view /\ j \in DOMAIN s /\ s[j].byte = view[i].byte
          /\ ByteAt(s, j) = ByteAt(view, i)
      BY <1>5, <2>1, ReadsByte
    <3>2. unit[i] = CollapseUnit(view, i) /\ Unit(s)[j] = CollapseUnit(s, j)
      BY <3>1
    <3>3. ASSUME j + 1 \in DOMAIN s
          PROVE  i + 1 \in DOMAIN view /\ ByteAt(s, j + 1) = ByteAt(view, i + 1)
      <4>1. i + 1 \in c..d /\ (i + 1) - c + 1 = j + 1
        BY <2>1, <3>3
      <4>2. i + 1 \in DOMAIN view /\ ByteAt(s, (i + 1) - c + 1) = ByteAt(view, i + 1)
        BY <1>5, <2>1, <4>1, ReadsByte
      <4> QED BY <4>1, <4>2
    <3>4. ASSUME j - 1 \in DOMAIN s
          PROVE  i - 1 \in DOMAIN view /\ ByteAt(s, j - 1) = ByteAt(view, i - 1)
      <4>1. i - 1 \in c..d /\ (i - 1) - c + 1 = j - 1
        BY <2>1, <3>4
      <4>2. i - 1 \in DOMAIN view /\ ByteAt(s, (i - 1) - c + 1) = ByteAt(view, i - 1)
        BY <1>5, <2>1, <4>1, ReadsByte
      <4> QED BY <4>1, <4>2
    <3>5. CASE Drops(view, i)
      <4>1. unit[i].width = 1 /\ unit[i].out = <<>>
        BY <1>2, <3>2, <3>5
      <4>2. i # c /\ i + 1 # d + 1
        BY <2>3, <4>1
      <4>3. j + 1 \in DOMAIN s /\ j - 1 \in DOMAIN s
        BY <2>1, <4>2
      <4> HIDE DEF j
      <4>4. Drops(s, j)
        BY <3>1, <3>3, <3>4, <3>5, <4>3
      <4>5. Unit(s)[j] = [width |-> 1, out |-> <<>>] /\ unit[i] = [width |-> 1, out |-> <<>>]
        BY <1>2, <3>2, <3>5, <4>4
      <4> QED BY <4>5 DEF SameUnit, j
    <3>6. CASE ~Drops(view, i)
      <4> HIDE DEF j
      <4>1. ~Drops(s, j)
        BY <3>1, <3>3, <3>4, <3>6
      <4>2. Unit(s)[j] = Kept(s, j) /\ unit[i] = Kept(view, i)
        BY <1>2, <3>2, <3>6, <4>1
      <4> QED BY <3>1, <4>2, KeptAlike DEF j
    <3> QED BY <3>5, <3>6
  <2> HIDE DEF unit, Unit
  <2> QED BY <2>1, <2>2, <2>3, AlikeWhen
<1> HIDE DEF unit, Unit
<1>6. /\ t \in Ordered
      /\ \A a, b : Run(t, a, b) =>
           \E c, d :
             /\ Run(view, c, d) /\ SameSource(view, c, d, t, a, b)
             /\ \A s, us : Reads(s, view, c, d) /\ Alike(view, unit, c, d, us)
                  => Reads(Rewrite(s, us), t, a, b)
  BY <1>4, TransformPulls
<1>7. t = collapse_candidate_separators(view)
  BY <1>0 DEF unit
<1> HIDE DEF t
<1>8. ASSUME NEW a, NEW b, Run(t, a, b)
      PROVE  \E c, d : /\ Run(view, c, d) /\ SameSource(view, c, d, t, a, b)
                       /\ \A s : Reads(s, view, c, d) =>
                            Reads(collapse_candidate_separators(s), t, a, b)
  <2>1. PICK c, d :
          /\ Run(view, c, d) /\ SameSource(view, c, d, t, a, b)
          /\ \A s, us : Reads(s, view, c, d) /\ Alike(view, unit, c, d, us)
               => Reads(Rewrite(s, us), t, a, b)
    BY <1>6, <1>8, Zenon
  <2>2. ASSUME NEW s, Reads(s, view, c, d)
        PROVE  Reads(collapse_candidate_separators(s), t, a, b)
    <3>1. Alike(view, unit, c, d, Unit(s))
      BY <1>5, <2>1, <2>2
    <3>2. Reads(Rewrite(s, Unit(s)), t, a, b)
      BY <2>1, <2>2, <3>1, Zenon
    <3> QED BY <1>0, <3>2
  <2> QED BY <2>1, <2>2
<1> QED BY <1>6, <1>7, <1>8

\* A structural continuation: a backslash, a line end, the blanks after it.
LEMMA ContinuationIs ==
  ASSUME NEW view \in View(Nat), NEW i \in DOMAIN view,
         ByteAt(view, i) = "\\", ByteAt(view, i + 1) = "nl"
  PROVE  \E k \in i + 2..Len(view) + 1 :
           /\ ByteAt(view, k) # "sp" /\ \A m \in i + 2..k - 1 : ByteAt(view, m) = "sp"
           /\ ContinuationUnit(view, i) = [width |-> k - i, out |-> <<>>]
<1> DEFINE Ends(k) == /\ ByteAt(view, k) # "sp"
                      /\ \A m \in i + 2..k - 1 : ByteAt(view, m) = "sp"
           end == CHOOSE k \in i + 2..Len(view) + 1 : Ends(k)
           T == {k \in i + 2..Len(view) + 1 : ByteAt(view, k) # "sp"}
<1>0. Len(view) \in Nat /\ DOMAIN view = 1..Len(view)
  BY CellFields
<1>1. i + 1 \in DOMAIN view
  BY ByteAtIs
<1>2. T \in SUBSET Nat /\ Len(view) + 1 \in T
  <2>1. ByteAt(view, Len(view) + 1) = "none"
    BY NoByteAfter
  <2> QED BY <1>0, <1>1, <2>1
<1>3. PICK k \in T : \A m \in T : k <= m
  <2> HIDE DEF T
  <2> QED BY <1>2, LeastNatural
<1>4. k \in i + 2..Len(view) + 1 /\ Ends(k)
  <2>1. k \in i + 2..Len(view) + 1 /\ ByteAt(view, k) # "sp"
    OBVIOUS
  <2>2. ASSUME NEW m \in i + 2..k - 1 PROVE ByteAt(view, m) = "sp"
    <3>1. m \in i + 2..Len(view) + 1 /\ ~(k <= m)
      BY <1>0, <2>1
    <3>2. m \notin T
      <4> HIDE DEF T
      <4> QED BY <1>3, <3>1
    <3> QED BY <3>1, <3>2
  <2> QED BY <2>1, <2>2
<1>5. ContinuationUnit(view, i) = [width |-> end - i, out |-> <<>>]
  BY DEF ContinuationUnit
<1> HIDE DEF Ends
<1>6. end \in i + 2..Len(view) + 1 /\ Ends(end)
  BY <1>4
<1> HIDE DEF end
<1> QED BY <1>5, <1>6 DEF Ends

\* There is one end of the blanks.
LEMMA OneEnd ==
  ASSUME NEW view, NEW i \in Nat, NEW k \in Nat, NEW l \in Nat, i <= k, i <= l,
         ByteAt(view, k) # "sp", \A m \in i..k - 1 : ByteAt(view, m) = "sp",
         ByteAt(view, l) # "sp", \A m \in i..l - 1 : ByteAt(view, m) = "sp"
  PROVE  k = l
<1>1. ~(k < l)
  <2> SUFFICES ASSUME k < l PROVE FALSE
    OBVIOUS
  <2>1. k \in i..l - 1
    OBVIOUS
  <2> QED BY <2>1
<1>2. ~(l < k)
  <2> SUFFICES ASSUME l < k PROVE FALSE
    OBVIOUS
  <2>1. l \in i..k - 1
    OBVIOUS
  <2> QED BY <2>1
<1> QED BY <1>1, <1>2

\* A run without structural continuations comes from a run: a continuation
\* that is removed stands between two bytes of it.
LEMMA ContinuationPulls ==
  ASSUME NEW view \in Ordered
  PROVE  LET t == remove_structural_continuations(view)
         IN  /\ t \in Ordered
             /\ \A a, b : Run(t, a, b) =>
                  \E c, d :
                    /\ Run(view, c, d) /\ SameSource(view, c, d, t, a, b)
                    /\ \A s : Reads(s, view, c, d) =>
                         Reads(remove_structural_continuations(s), t, a, b)
<1> DEFINE Unit(v) == [i \in DOMAIN v |-> ContinuationUnit(v, i)]
           Drops(v, i) == ByteAt(v, i) = "\\" /\ ByteAt(v, i + 1) = "nl"
           unit == Unit(view)
           t == Rewrite(view, unit)
<1>0. \A v : remove_structural_continuations(v) = Rewrite(v, Unit(v))
  BY DEF remove_structural_continuations
<1>1. view \in View(Nat) /\ Nat \in SUBSET Nat /\ Len(view) \in Nat /\ DOMAIN view = 1..Len(view)
  BY CellFields DEF Ordered
<1>2. \A v, i : ~Drops(v, i) => ContinuationUnit(v, i) = Kept(v, i)
  BY DEF ContinuationUnit
<1>3. ASSUME NEW i \in DOMAIN view PROVE UnitKeeps(view, i, unit[i])
  <2>1. CASE Drops(view, i)
    <3>1. PICK k \in i + 2..Len(view) + 1 :
            /\ ByteAt(view, k) # "sp" /\ \A m \in i + 2..k - 1 : ByteAt(view, m) = "sp"
            /\ ContinuationUnit(view, i) = [width |-> k - i, out |-> <<>>]
      BY <1>1, <2>1, ContinuationIs
    <3> DEFINE width == k - i
    <3>2. width \in Nat \ {0} /\ i + width <= Len(view) + 1 /\ i + width - 1 = k - 1
      BY <1>1
    <3>3. unit[i] = [width |-> width, out |-> <<>>]
      BY <3>1
    <3>4. ASSUME NEW m \in i..k - 1 PROVE view[m].byte \notin {"x", "C3", "A9"}
      <4>1. m \in DOMAIN view /\ (m = i \/ m = i + 1 \/ m \in i + 2..k - 1)
        BY <1>1
      <4>2. ByteAt(view, m) \in {"\\", "nl", "sp"}
        BY <2>1, <3>1, <4>1
      <4> QED BY <4>1, <4>2 DEF ByteAt
    <3> HIDE DEF width
    <3>5. Alone(view, i, width)
      BY <3>2, <3>4, AloneBytes
    <3> QED BY <3>2, <3>3, <3>5, DropKeeps
  <2>2. CASE ~Drops(view, i)
    <3>1. unit[i] = Kept(view, i)
      BY <1>2, <2>2
    <3> QED BY <3>1, KeptKeeps
  <2> QED BY <2>1, <2>2
<1>4. ASSUME NEW c, NEW d, Run(view, c, d), NEW s, Reads(s, view, c, d)
      PROVE  Alike(view, unit, c, d, Unit(s))
  <2>1. /\ c \in DOMAIN view /\ d \in DOMAIN view /\ c <= d /\ c \in Nat /\ d \in Nat
        /\ s \in View(Nat) /\ Len(s) = d - c + 1 /\ DOMAIN s = 1..d - c + 1
    BY <1>4, RunIs, CellFields DEF Reads
  <2>2. \A j \in DOMAIN s : UnitOK(Nat, s, j, Unit(s)[j])
    BY <1>1, <2>1, ContinuationOK
  <2>3. \A m \in c..d : ByteAt(s, m - c + 1) = ByteAt(view, m)
    BY <1>4, <2>1, ReadsByte
  <2>4. ASSUME NEW i \in c..d, i + unit[i].width <= d + 1,
               (i = c \/ i + unit[i].width = d + 1) => unit[i].out # <<>>
        PROVE  SameUnit(Unit(s)[i - c + 1], unit[i])
    <3> DEFINE j == i - c + 1
    <3>1. /\ i \in DOMAIN view /\ j \in DOMAIN s /\ s[j].byte = view[i].byte
          /\ ByteAt(s, j) = ByteAt(view, i)
      BY <1>4, <2>1, ReadsByte
    <3>2. unit[i] = ContinuationUnit(view, i) /\ Unit(s)[j] = ContinuationUnit(s, j)
      BY <3>1
    <3>3. CASE Drops(view, i)
      <4>1. PICK k \in i + 2..Len(view) + 1 :
              /\ ByteAt(view, k) # "sp" /\ \A m \in i + 2..k - 1 : ByteAt(view, m) = "sp"
              /\ ContinuationUnit(view, i) = [width |-> k - i, out |-> <<>>]
        BY <1>1, <3>1, <3>3, ContinuationIs
      <4>2. unit[i].width = k - i /\ unit[i].out = <<>>
        BY <3>2, <4>1
      <4>3. k <= d /\ k \in Nat
        <5>1. i + (k - i) <= d + 1 /\ i + (k - i) # d + 1
          BY <2>4, <4>2
        <5>2. i \in Nat /\ k \in Nat /\ d \in Nat
          BY <2>1, <1>1, <3>1
        <5> QED BY <5>1, <5>2
      <4>11. i \in Nat /\ c \in Nat /\ d \in Nat /\ k \in Nat /\ c <= i /\ i + 2 <= k /\ k <= d
        BY <1>1, <2>1, <3>1, <4>3
      <4> DEFINE e == k - c + 1
      <4>4. /\ i + 1 \in c..d /\ (i + 1) - c + 1 = j + 1 /\ k \in c..d
            /\ e \in Nat /\ j + 2 <= e /\ j + 2 \in Nat /\ e - j = k - i
        BY <4>11
      <4>5. Drops(s, j)
        BY <2>3, <3>1, <3>3, <4>4
      <4>6. ByteAt(s, e) # "sp"
        BY <2>3, <4>1, <4>4
      <4>7. ASSUME NEW m \in j + 2..e - 1 PROVE ByteAt(s, m) = "sp"
        <5>1. m + c - 1 \in i + 2..k - 1 /\ m + c - 1 \in c..d /\ (m + c - 1) - c + 1 = m
          BY <4>11
        <5> QED BY <2>3, <4>1, <5>1
      <4> HIDE DEF e, j
      <4>8. PICK l \in j + 2..Len(s) + 1 :
              /\ ByteAt(s, l) # "sp" /\ \A m \in j + 2..l - 1 : ByteAt(s, m) = "sp"
              /\ ContinuationUnit(s, j) = [width |-> l - j, out |-> <<>>]
        BY <2>1, <3>1, <4>5, ContinuationIs
      <4>9. l = e
        <5>1. l \in Nat /\ j + 2 <= l
          BY <2>1, <4>4
        <5> DEFINE f == j + 2
        <5>2. /\ f \in Nat /\ f <= l /\ f <= e
              /\ \A m \in f..l - 1 : ByteAt(s, m) = "sp"
              /\ \A m \in f..e - 1 : ByteAt(s, m) = "sp"
          BY <4>4, <4>7, <4>8, <5>1
        <5> HIDE DEF f
        <5> QED BY <4>4, <4>6, <4>8, <5>1, <5>2, OneEnd
      <4>10. ContinuationUnit(s, j) = ContinuationUnit(view, i) /\ unit[i].out = <<>>
        BY <4>1, <4>2, <4>4, <4>8, <4>9
      <4> QED BY <3>2, <4>10 DEF SameUnit, j
    <3>4. CASE ~Drops(view, i)
      <4>1. ~Drops(s, j)
        <5>1. CASE i < d
          <6>1. i + 1 \in c..d /\ (i + 1) - c + 1 = j + 1
            BY <2>1, <5>1
          <6> QED BY <2>3, <3>1, <3>4, <6>1
        <5>2. CASE ~(i < d)
          <6>1. j + 1 = Len(s) + 1
            BY <2>1, <5>2
          <6> QED BY <2>1, <6>1, NoByteAfter
        <5> QED BY <5>1, <5>2
      <4> HIDE DEF j
      <4>2. Unit(s)[j] = Kept(s, j) /\ unit[i] = Kept(view, i)
        BY <1>2, <3>2, <3>4, <4>1
      <4> QED BY <3>1, <4>2, KeptAlike DEF j
    <3> QED BY <3>3, <3>4
  <2> HIDE DEF unit, Unit
  <2> QED BY <2>1, <2>2, <2>4, AlikeWhen
<1> HIDE DEF unit, Unit
<1>6. /\ t \in Ordered
      /\ \A a, b : Run(t, a, b) =>
           \E c, d :
             /\ Run(view, c, d) /\ SameSource(view, c, d, t, a, b)
             /\ \A s, us : Reads(s, view, c, d) /\ Alike(view, unit, c, d, us)
                  => Reads(Rewrite(s, us), t, a, b)
  BY <1>3, TransformPulls
<1>7. t = remove_structural_continuations(view)
  BY <1>0 DEF unit
<1> HIDE DEF t
<1>8. ASSUME NEW a, NEW b, Run(t, a, b)
      PROVE  \E c, d : /\ Run(view, c, d) /\ SameSource(view, c, d, t, a, b)
                       /\ \A s : Reads(s, view, c, d) =>
                            Reads(remove_structural_continuations(s), t, a, b)
  <2>1. PICK c, d :
          /\ Run(view, c, d) /\ SameSource(view, c, d, t, a, b)
          /\ \A s, us : Reads(s, view, c, d) /\ Alike(view, unit, c, d, us)
               => Reads(Rewrite(s, us), t, a, b)
    BY <1>6, <1>8, Zenon
  <2>2. ASSUME NEW s, Reads(s, view, c, d)
        PROVE  Reads(remove_structural_continuations(s), t, a, b)
    <3>1. Alike(view, unit, c, d, Unit(s))
      BY <1>4, <2>1, <2>2
    <3>2. Reads(Rewrite(s, Unit(s)), t, a, b)
      BY <2>1, <2>2, <3>1, Zenon
    <3> QED BY <1>0, <3>2
  <2> QED BY <2>1, <2>2
<1> QED BY <1>6, <1>7, <1>8

\* The character at an index of a view.
CharacterAt(view, i) ==
  IF view[i].byte = "C3" THEN <<"C3", "A9">> ELSE <<view[i].byte>>

\* NFKC of each character.
LEMMA NfkcOf ==
  /\ nfkc(<<"C3", "A9">>) = <<"C3", "A9">>
  /\ nfkc(<<"fw">>) = <<".">>
  /\ nfkc(<<"lig">>) = [i \in 1..11 |-> "x"]
  /\ \A byte : byte \notin {"fw", "lig"} => nfkc(<<byte>>) = <<byte>>
<1>1. <<"C3", "A9">> # <<"fw">> /\ <<"C3", "A9">> # <<"lig">> /\ <<"fw">> # <<"lig">>
  OBVIOUS
<1>2. \A byte : byte \notin {"fw", "lig"} => <<byte>> # <<"fw">> /\ <<byte>> # <<"lig">>
  OBVIOUS
<1>3. nfkc(<<"C3", "A9">>) = <<"C3", "A9">>
  BY <1>1, Zenon DEF nfkc
<1>4. nfkc(<<"fw">>) = <<".">>
  BY <1>1, Zenon DEF nfkc
<1>5. nfkc(<<"lig">>) = [i \in 1..11 |-> "x"]
  BY <1>1, Zenon DEF nfkc
<1>6. \A byte : byte \notin {"fw", "lig"} => nfkc(<<byte>>) = <<byte>>
  BY <1>2, Zenon DEF nfkc
<1> QED BY <1>3, <1>4, <1>5, <1>6

\* What canonicalize does to a character.
LEMMA CharacterUnitIs ==
  ASSUME NEW view, NEW i \in Nat,
         view[i].byte = "C3" => view[i + 1].byte = "A9"
  PROVE  CharacterUnit(view, i) =
           IF view[i].byte = "zw" THEN [width |-> 1, out |-> <<>>]
           ELSE Decoded(view, i, IF view[i].byte = "C3" THEN 2 ELSE 1,
                        nfkc(CharacterAt(view, i)))
<1> DEFINE width == IF view[i].byte = "C3" THEN 2 ELSE 1
           character == [k \in 1..width |-> view[i + k - 1].byte]
<1>1. CharacterUnit(view, i) =
        IF is_invisible_control(view[i].byte)
        THEN [width |-> width, out |-> <<>>]
        ELSE Decoded(view, i, width, nfkc(character))
  BY DEF CharacterUnit
<1>2. character = CharacterAt(view, i)
  <2>1. CASE view[i].byte = "C3"
    <3>1. width = 2 /\ i + 1 - 1 = i /\ i + 2 - 1 = i + 1
      BY <2>1
    <3>2. character = [k \in 1..2 |-> view[i + k - 1].byte]
      BY <3>1
    <3>3. \A k \in 1..2 : view[i + k - 1].byte = <<"C3", "A9">>[k]
      BY <2>1, <3>1
    <3>4. <<"C3", "A9">> = [k \in 1..2 |-> <<"C3", "A9">>[k]]
      OBVIOUS
    <3>5. character = <<"C3", "A9">>
      BY <3>2, <3>3, <3>4
    <3> QED BY <2>1, <3>5 DEF CharacterAt
  <2>2. CASE view[i].byte # "C3"
    <3>1. width = 1 /\ i + 1 - 1 = i
      BY <2>2
    <3>2. character = [k \in 1..1 |-> view[i + k - 1].byte]
      BY <3>1
    <3>3. \A k \in 1..1 : view[i + k - 1].byte = <<view[i].byte>>[k]
      BY <3>1
    <3>4. <<view[i].byte>> = [k \in 1..1 |-> <<view[i].byte>>[k]]
      OBVIOUS
    <3>5. character = <<view[i].byte>>
      BY <3>2, <3>3, <3>4
    <3> QED BY <2>2, <3>5 DEF CharacterAt
  <2> QED BY <2>1, <2>2
<1> HIDE DEF character
<1> QED BY <1>1, <1>2 DEF is_invisible_control

\* The two bytes of a character have their source for themselves.
LEMMA LeadAlone ==
  ASSUME NEW view \in Ordered, NEW i \in DOMAIN view, i + 1 \in DOMAIN view,
         view[i].byte = "C3", view[i + 1].byte = "A9"
  PROVE  Alone(view, i, 2)
<1>0. /\ view \in View(Nat) /\ InOrder(view) /\ Len(view) \in Nat /\ DOMAIN view = 1..Len(view)
      /\ \A k \in DOMAIN view : /\ view[k].start \in Nat /\ view[k].end \in Nat
                                /\ view[k].start < view[k].end
  BY CellFields DEF Ordered
<1>1. \A k, j \in DOMAIN view : k < j /\ Same(view[k], view[j]) =>
        <<view[k].byte, view[j].byte>> \in {<<"x", "x">>, <<"C3", "A9">>}
  BY <1>0 DEF InOrder, Same
<1>2. \A k, j, m \in DOMAIN view : k < m /\ m < j /\ Same(view[k], view[j]) =>
        Same(view[k], view[m]) /\ Same(view[m], view[j])
  <2> SUFFICES ASSUME NEW k \in DOMAIN view, NEW j \in DOMAIN view, NEW m \in DOMAIN view,
                      k < m, m < j, Same(view[k], view[j])
               PROVE  Same(view[k], view[m]) /\ Same(view[m], view[j])
    OBVIOUS
  <2>1. view[k].end <= view[m].start \/ Same(view[k], view[m])
    BY <1>0 DEF InOrder
  <2>2. view[m].end <= view[j].start \/ Same(view[m], view[j])
    BY <1>0 DEF InOrder
  <2> QED BY <1>0, <2>1, <2>2 DEF Same
<1>3. ASSUME NEW j \in DOMAIN view, j < i
      PROVE  ~Same(view[i], view[j]) /\ ~Same(view[i + 1], view[j])
  <2>1. ~Same(view[j], view[i])
    BY <1>1, <1>3
  <2>2. ~Same(view[j], view[i + 1])
    BY <1>0, <1>2, <1>3, <2>1
  <2> QED BY <2>1, <2>2 DEF Same
<1>4. ASSUME NEW j \in DOMAIN view, i + 1 < j
      PROVE  ~Same(view[i], view[j]) /\ ~Same(view[i + 1], view[j])
  <2>1. ~Same(view[i + 1], view[j])
    BY <1>1, <1>4
  <2>2. ~Same(view[i], view[j])
    BY <1>0, <1>2, <1>4, <2>1
  <2> QED BY <2>1, <2>2
<1>5. \A k \in i..i + 2 - 1 : k = i \/ k = i + 1
  BY <1>0
<1>6. \A j \in DOMAIN view : j \notin i..i + 2 - 1 => j < i \/ i + 1 < j
  BY <1>0
<1> QED BY <1>3, <1>4, <1>5, <1>6 DEF Alone

\* A character stands alone and is written anew, or it is kept.
LEMMA CharacterKeeps ==
  ASSUME NEW view \in Ordered, ValidUtf8(view), NEW i \in DOMAIN view
  PROVE  /\ UnitKeeps(view, i, CharacterUnit(view, i))
         /\ CharacterUnit(view, i).width = IF view[i].byte = "C3" THEN 2 ELSE 1
<1>0. /\ view \in View(Nat) /\ Len(view) \in Nat /\ DOMAIN view = 1..Len(view) /\ i \in Nat
      /\ view[i] \in Cell(Nat) /\ view[i].byte \in Symbol
      /\ {"x", ".", "C3", "A9"} \subseteq Symbol
  BY CellFields DEF Ordered, Symbol
<1> DEFINE u == CharacterUnit(view, i)
           byte == view[i].byte
<1>1. byte = "C3" => i + 1 \in DOMAIN view /\ view[i + 1].byte = "A9"
  BY <1>0, LeadHasNext
<1>2. u = IF byte = "zw" THEN [width |-> 1, out |-> <<>>]
          ELSE Decoded(view, i, IF byte = "C3" THEN 2 ELSE 1, nfkc(CharacterAt(view, i)))
  BY <1>0, <1>1, CharacterUnitIs
<1> HIDE DEF u
<1>3. i + 1 - 1 = i /\ 1 \in Nat \ {0} /\ i + 1 <= Len(view) + 1 /\ \A k \in i..i + 1 - 1 : k = i
  BY <1>0
<1>4. byte \notin {"x", "C3", "A9"} => Alone(view, i, 1)
  BY <1>3, AloneBytes
<1>5. CASE byte = "zw"
  <2>1. u = [width |-> 1, out |-> <<>>]
    BY <1>2, <1>5
  <2>2. UnitKeeps(view, i, u)
    BY <1>3, <1>4, <1>5, <2>1, DropKeeps
  <2> QED BY <1>5, <2>1, <2>2 DEF u
<1>6. CASE byte = "C3"
  <2> DEFINE bytes == <<"C3", "A9">>
  <2>1. u = Decoded(view, i, 2, bytes)
    BY <1>2, <1>6, NfkcOf DEF CharacterAt
  <2>2. /\ bytes \in Seq(Symbol)
        /\ \A k, l \in DOMAIN bytes : k < l => <<bytes[k], bytes[l]>> \in Paired
    BY <1>0 DEF Paired
  <2>3. Alone(view, i, 2) /\ i + 2 - 1 \in DOMAIN view
    BY <1>0, <1>1, <1>6, LeadAlone
  <2> HIDE DEF bytes
  <2>4. UnitKeeps(view, i, u) /\ u.width = 2
    BY <2>1, <2>2, <2>3, DecodedKeeps, DecodedBytes
  <2> QED BY <1>6, <2>4 DEF u
<1>7. CASE byte \in {"fw", "lig"}
  <2> DEFINE bytes == nfkc(<<byte>>)
  <2>1. u = Decoded(view, i, 1, bytes)
    BY <1>2, <1>7 DEF CharacterAt
  <2>2. /\ bytes \in Seq(Symbol)
        /\ \A k, l \in DOMAIN bytes : k < l => <<bytes[k], bytes[l]>> \in Paired
    <3>1. CASE byte = "fw"
      <4>1. bytes = <<".">>
        BY <3>1, NfkcOf
      <4> HIDE DEF bytes
      <4> QED BY <1>0, <4>1
    <3>2. CASE byte = "lig"
      <4>1. bytes = [k \in 1..11 |-> "x"]
        BY <3>2, NfkcOf
      <4> HIDE DEF bytes
      <4>2. bytes \in Seq(Symbol)
        BY <1>0, <4>1
      <4>3. \A k \in DOMAIN bytes : bytes[k] = "x"
        BY <4>1
      <4> QED BY <4>2, <4>3 DEF Paired
    <3> QED BY <1>7, <3>1, <3>2
  <2> HIDE DEF bytes
  <2>3. Alone(view, i, 1) /\ i + 1 - 1 \in DOMAIN view
    BY <1>3, <1>4, <1>7
  <2>4. UnitKeeps(view, i, u) /\ u.width = 1
    BY <2>1, <2>2, <2>3, DecodedKeeps, DecodedBytes
  <2> QED BY <1>7, <2>4 DEF u
<1>8. CASE byte \notin {"zw", "C3", "fw", "lig"}
  <2> DEFINE bytes == <<byte>>
  <2>1. u = Decoded(view, i, 1, bytes)
    BY <1>2, <1>8, NfkcOf DEF CharacterAt
  <2>2. bytes \in Seq(Symbol) /\ Len(bytes) = 1 /\ bytes[1] = byte
    BY <1>0
  <2> HIDE DEF bytes
  <2>3. /\ u.width = 1 /\ Len(u.out) = 1 /\ DOMAIN u.out = 1..1
        /\ u.out[1].byte = byte
        /\ u.out[1].start = combined_source(view, i, i + 1 - 1).start
        /\ u.out[1].end = combined_source(view, i, i + 1 - 1).end
    BY <2>1, <2>2, DecodedBytes
  <2>4. /\ combined_source(view, i, i + 1 - 1).start = view[i].start
        /\ combined_source(view, i, i + 1 - 1).end = view[i].end
    <3>1. i <= i /\ i + 1 - 1 = i
      BY <1>0
    <3> QED BY <3>1, HullIs
  <2>5. UnitOK(Nat, view, i, u)
    <3>1. 1 \in {1, 2} /\ i + 1 - 1 \in DOMAIN view /\ Nat \in SUBSET Nat
      BY <1>3
    <3> QED BY <1>0, <2>1, <2>2, <3>1, PairOK
  <2>6. u.out[1] = view[i]
    <3>1. u.out \in View(Nat) /\ 1 \in DOMAIN u.out
      BY <2>3, <2>5 DEF UnitOK
    <3>2. u.out[1] \in Cell(Nat)
      BY <3>1 DEF View
    <3>3. \A x, y \in Cell(Nat) : x.byte = y.byte /\ x.start = y.start /\ x.end = y.end => x = y
      BY DEF Cell
    <3> QED BY <1>0, <2>3, <2>4, <3>2, <3>3
  <2>7. u.out = <<view[i]>>
    <3>1. u.out \in Seq(Cell(Nat))
      BY <2>5 DEF UnitOK, View
    <3> QED BY <2>3, <2>6, <3>1
  <2>8. UnitKeeps(view, i, u)
    BY <2>3, <2>5, <2>7 DEF UnitKeeps, UnitOK
  <2> QED BY <1>8, <2>3, <2>8 DEF u
<1> QED BY <1>5, <1>6, <1>7, <1>8

\* The first half of canonicalize.
Characters(view) == Rewrite(view, [i \in DOMAIN view |-> CharacterUnit(view, i)])

\* A run of characters in normal form comes from a run of characters.
LEMMA CharacterPulls ==
  ASSUME NEW view \in Ordered, ValidUtf8(view)
  PROVE  LET t == Characters(view)
         IN  /\ t \in Ordered
             /\ \A a, b : Run(t, a, b) =>
                  \E c, d :
                    /\ Run(view, c, d) /\ SameSource(view, c, d, t, a, b)
                    /\ \A s : Reads(s, view, c, d) =>
                         ValidUtf8(s) /\ Reads(Characters(s), t, a, b)
<1> DEFINE N == Len(view)
           Unit(v) == [i \in DOMAIN v |-> CharacterUnit(v, i)]
           unit == Unit(view)
           R == {i \in 1..N + 1 : ByteAt(view, i) # "A9"}
           t == Rewrite(view, unit)
<1>0. \A v : Characters(v) = Rewrite(v, Unit(v))
  BY DEF Characters
<1>1. view \in View(Nat) /\ Nat \in SUBSET Nat /\ N \in Nat /\ DOMAIN view = 1..N
  BY CellFields DEF Ordered
<1>2. \A i \in 1..N + 1 : ByteAt(view, i) = "A9" <=> ByteAt(view, i - 1) = "C3"
  BY DEF ValidUtf8
<1>3. \A i \in 1..N : ByteAt(view, i) = view[i].byte
  BY <1>1 DEF ByteAt
<1>4. ByteAt(view, 0) = "none" /\ ByteAt(view, N + 1) = "none"
  BY <1>1, NoByteAfter
<1>5. ASSUME NEW i \in 1..N
      PROVE  /\ unit[i] = CharacterUnit(view, i)
             /\ UnitKeeps(view, i, unit[i])
             /\ unit[i].width = IF ByteAt(view, i) = "C3" THEN 2 ELSE 1
  BY <1>1, <1>3, CharacterKeeps
<1>6. 1 \in R
  <2>1. 1 \in 1..N + 1 /\ 1 - 1 = 0
    BY <1>1
  <2> QED BY <1>2, <1>4, <2>1
<1>7. ASSUME NEW i \in R, i <= N PROVE i + unit[i].width \in R
  <2>1. i \in 1..N
    BY <1>1, <1>7
  <2>2. unit[i].width \in Nat \ {0} /\ i + unit[i].width <= N + 1
    BY <1>5, <2>1 DEF UnitKeeps
  <2>3. CASE ByteAt(view, i) = "C3"
    <3>1. unit[i].width = 2 /\ i + 1 \in 1..N + 1 /\ i + 1 - 1 = i
      BY <1>5, <2>1, <2>3
    <3>2. ByteAt(view, i + 1) = "A9"
      BY <1>2, <2>3, <3>1
    <3>3. i + 2 \in 1..N + 1 /\ (i + 2) - 1 = i + 1
      BY <2>1, <2>2, <3>1
    <3>4. ByteAt(view, i + 2) # "A9"
      BY <1>2, <3>2, <3>3
    <3> QED BY <3>1, <3>3, <3>4
  <2>4. CASE ByteAt(view, i) # "C3"
    <3>0. unit[i].width = 1
      <4>1. unit[i].width = IF ByteAt(view, i) = "C3" THEN 2 ELSE 1
        BY <1>5, <2>1
      <4> HIDE DEF unit
      <4> QED BY <2>4, <4>1, Zenon
    <3>1. unit[i].width = 1 /\ i + 1 \in 1..N + 1 /\ i + 1 - 1 = i
      <4>1. i + 1 \in 1..N + 1 /\ i + 1 - 1 = i
        BY <1>1, <2>1
      <4> QED BY <3>0, <4>1
    <3>2. ByteAt(view, i + 1) # "A9"
      BY <1>2, <2>4, <3>1
    <3> QED BY <3>1, <3>2
  <2> QED BY <2>3, <2>4
<1>8. Units(view, unit, R)
  <2>1. \A i \in 1..N : unit[i].width \in Nat \ {0} /\ i + unit[i].width <= N + 1
    BY <1>5 DEF UnitKeeps
  <2>2. R \in SUBSET (1..N + 1)
    OBVIOUS
  <2>3. \A i \in R : i <= N => i \in 1..N
    OBVIOUS
  <2> HIDE DEF R, unit
  <2>4. \A i \in R : i <= N => i + unit[i].width \in R /\ UnitKeeps(view, i, unit[i])
    BY <1>5, <1>7, <2>3
  <2> QED BY <2>1, <2>2, <2>4 DEF Units
<1>9. ASSUME NEW c \in R, NEW d, d + 1 \in R, Run(view, c, d), NEW s, Reads(s, view, c, d)
      PROVE  ValidUtf8(s) /\ Alike(view, unit, c, d, Unit(s))
  <2>1. /\ c \in DOMAIN view /\ d \in DOMAIN view /\ c <= d /\ c \in Nat /\ d \in Nat
        /\ s \in View(Nat) /\ Len(s) = d - c + 1 /\ DOMAIN s = 1..d - c + 1
    BY <1>9, RunIs, CellFields DEF Reads
  <2>2. \A i \in c..d : /\ i \in DOMAIN view /\ i - c + 1 \in DOMAIN s
                        /\ s[i - c + 1].byte = view[i].byte
                        /\ ByteAt(s, i - c + 1) = ByteAt(view, i)
    BY <1>9, <2>1, ReadsByte
  <2>3. ByteAt(s, 0) = "none" /\ ByteAt(s, d - c + 2) = "none"
    <3>1. Len(s) + 1 = d - c + 2
      BY <2>1
    <3> QED BY <2>1, <3>1, NoByteAfter
  <2>4. ValidUtf8(s)
    <3>0. Len(s) + 1 = d - c + 2
      BY <2>1
    <3> SUFFICES ASSUME NEW j \in 1..d - c + 2
                 PROVE  ByteAt(s, j) = "A9" <=> ByteAt(s, j - 1) = "C3"
      BY <3>0 DEF ValidUtf8
    <3> DEFINE i == j + c - 1
    <3>7. c \in Nat /\ d \in Nat /\ N \in Nat /\ j \in Nat /\ 1 <= c /\ c <= d /\ d <= N
          /\ 1 <= j /\ j <= d - c + 2
      <4>1. c \in 1..N /\ d \in 1..N
        BY <1>1, <2>1
      <4> QED BY <1>1, <2>1, <4>1
    <3> HIDE DEF N
    <3>1. i \in c..d + 1 /\ i \in 1..N + 1 /\ i - c + 1 = j /\ (i - 1) - c + 1 = j - 1
      BY <3>7
    <3>2. ByteAt(view, i) = "A9" <=> ByteAt(view, i - 1) = "C3"
      BY <1>2, <3>1
    <3>3. ByteAt(view, c) # "A9" /\ ByteAt(view, d + 1) # "A9"
      BY <1>9
    <3>4. CASE i = c
      <4>1. j = 1 /\ c \in c..d /\ c - c + 1 = 1 /\ j - 1 = 0
        BY <2>1, <3>4
      <4>2. ByteAt(s, 1) = ByteAt(view, c)
        BY <2>2, <4>1
      <4> QED BY <2>3, <3>3, <4>1, <4>2
    <3>5. CASE i = d + 1
      <4>1. j = d - c + 2 /\ d \in c..d /\ d - c + 1 = j - 1 /\ i - 1 = d
        BY <2>1, <3>5
      <4>2. ByteAt(s, j - 1) = ByteAt(view, d)
        BY <2>2, <4>1
      <4> QED BY <2>3, <3>2, <3>3, <3>5, <4>1, <4>2
    <3>6. CASE i # c /\ i # d + 1
      <4>1. i \in c..d /\ i - 1 \in c..d
        BY <3>7, <3>6
      <4> HIDE DEF i
      <4>2. ByteAt(s, j) = ByteAt(view, i) /\ ByteAt(s, j - 1) = ByteAt(view, i - 1)
        BY <2>2, <3>1, <4>1
      <4> QED BY <3>2, <4>2
    <3> QED BY <3>4, <3>5, <3>6
  <2>5. \A j \in DOMAIN s : UnitOK(Nat, s, j, Unit(s)[j])
    BY <1>1, <2>1, <2>4, CharacterOK
  <2>6. ASSUME NEW i \in c..d
        PROVE  SameUnit(Unit(s)[i - c + 1], unit[i])
    <3> DEFINE j == i - c + 1
               byte == view[i].byte
               width == IF byte = "C3" THEN 2 ELSE 1
               bytes == nfkc(CharacterAt(view, i))
    <3>1. /\ i \in DOMAIN view /\ j \in DOMAIN s /\ s[j].byte = byte /\ i \in Nat /\ j \in Nat
      BY <1>1, <2>1, <2>2
    <3>2. unit[i] = CharacterUnit(view, i) /\ Unit(s)[j] = CharacterUnit(s, j)
      BY <3>1
    <3>3. CharacterUnit(view, i) = IF byte = "zw" THEN [width |-> 1, out |-> <<>>]
                                   ELSE Decoded(view, i, width, bytes)
      <4>1. byte = "C3" => view[i + 1].byte = "A9"
        BY <1>1, <3>1, LeadHasNext
      <4> QED BY <3>1, <4>1, CharacterUnitIs
    <3>4. CharacterUnit(s, j) = IF byte = "zw" THEN [width |-> 1, out |-> <<>>]
                                ELSE Decoded(s, j, width, bytes)
      <4>1. s[j].byte = "C3" => s[j + 1].byte = "A9"
        <5>1. Len(s) \in Nat /\ DOMAIN s = 1..Len(s)
          BY <2>1, CellFields
        <5> QED BY <2>4, <3>1, <5>1, LeadHasNext
      <4>2. CharacterAt(s, j) = CharacterAt(view, i)
        BY <3>1 DEF CharacterAt
      <4> HIDE DEF j
      <4>3. CharacterUnit(s, j) =
              IF s[j].byte = "zw" THEN [width |-> 1, out |-> <<>>]
              ELSE Decoded(s, j, IF s[j].byte = "C3" THEN 2 ELSE 1, nfkc(CharacterAt(s, j)))
        BY <3>1, <4>1, CharacterUnitIs
      <4> QED BY <3>1, <4>2, <4>3
    <3>5. bytes \in Seq(Symbol)
      <4>1. byte \in Symbol /\ {"C3", "A9"} \subseteq Symbol
        BY <1>1, <3>1, CellFields DEF Symbol
      <4>2. CharacterAt(view, i) \in Seq(Symbol)
        BY <4>1 DEF CharacterAt
      <4> QED BY <4>2, NfkcIs
    <3> HIDE DEF j, width, bytes, unit, Unit
    <3>6. CASE byte = "zw"
      <4>1. Unit(s)[j] = [width |-> 1, out |-> <<>>] /\ unit[i] = [width |-> 1, out |-> <<>>]
        BY <3>2, <3>3, <3>4, <3>6
      <4> QED BY <4>1 DEF SameUnit, j
    <3>7. CASE byte # "zw"
      <4>1. Unit(s)[j] = Decoded(s, j, width, bytes) /\ unit[i] = Decoded(view, i, width, bytes)
        BY <3>2, <3>3, <3>4, <3>7
      <4> QED BY <3>5, <4>1, DecodedAlike DEF j
    <3> QED BY <3>6, <3>7
  <2> HIDE DEF unit, Unit
  <2> QED BY <2>1, <2>4, <2>5, <2>6, AlikeWhen
<1> HIDE DEF unit, Unit, R
<1>10. /\ t \in Ordered
       /\ \A a, b : Run(t, a, b) =>
            \E c, d :
              /\ c \in R /\ d + 1 \in R /\ Run(view, c, d)
              /\ view[c].start = t[a].start /\ view[d].end = t[b].end
              /\ \A s, us : Reads(s, view, c, d) /\ Alike(view, unit, c, d, us)
                   => Reads(Rewrite(s, us), t, a, b)
  BY <1>6, <1>8, RunPulls
<1>11. t = Characters(view)
  BY <1>0 DEF unit
<1> HIDE DEF t
<1>12. ASSUME NEW a, NEW b, Run(t, a, b)
       PROVE  \E c, d : /\ Run(view, c, d) /\ SameSource(view, c, d, t, a, b)
                        /\ \A s : Reads(s, view, c, d) =>
                             ValidUtf8(s) /\ Reads(Characters(s), t, a, b)
  <2>1. PICK c, d :
          /\ c \in R /\ d + 1 \in R /\ Run(view, c, d)
          /\ view[c].start = t[a].start /\ view[d].end = t[b].end
          /\ \A s, us : Reads(s, view, c, d) /\ Alike(view, unit, c, d, us)
               => Reads(Rewrite(s, us), t, a, b)
    BY <1>10, <1>12, Zenon
  <2>2. ASSUME NEW s, Reads(s, view, c, d)
        PROVE  ValidUtf8(s) /\ Reads(Characters(s), t, a, b)
    <3>1. ValidUtf8(s) /\ Alike(view, unit, c, d, Unit(s))
      BY <1>9, <2>1, <2>2
    <3>2. Reads(Rewrite(s, Unit(s)), t, a, b)
      BY <2>1, <2>2, <3>1, Zenon
    <3> QED BY <1>0, <3>1, <3>2
  <2> QED BY <2>1, <2>2 DEF SameSource
<1> QED BY <1>10, <1>11, <1>12

\* A run of a canonical view comes from a run of characters.
LEMMA CanonicalPulls ==
  ASSUME NEW view \in Ordered, ValidUtf8(view)
  PROVE  LET t == canonicalize(view)
         IN  /\ t \in Ordered
             /\ \A a, b : Run(t, a, b) =>
                  \E c, d :
                    /\ Run(view, c, d) /\ SameSource(view, c, d, t, a, b)
                    /\ \A s : Reads(s, view, c, d) =>
                         ValidUtf8(s) /\ Reads(canonicalize(s), t, a, b)
<1> DEFINE w == Characters(view)
           t == remove_structural_continuations(w)
<1>0. /\ canonicalize(view) = t
      /\ \A s : canonicalize(s) = remove_structural_continuations(Characters(s))
  BY DEF canonicalize, Characters
<1>1. /\ w \in Ordered
      /\ \A a, b : Run(w, a, b) =>
           \E c, d :
             /\ Run(view, c, d) /\ SameSource(view, c, d, w, a, b)
             /\ \A s : Reads(s, view, c, d) =>
                  ValidUtf8(s) /\ Reads(Characters(s), w, a, b)
  BY CharacterPulls
<1> HIDE DEF w
<1>2. /\ t \in Ordered
      /\ \A a, b : Run(t, a, b) =>
           \E c, d :
             /\ Run(w, c, d) /\ SameSource(w, c, d, t, a, b)
             /\ \A s : Reads(s, w, c, d) =>
                  Reads(remove_structural_continuations(s), t, a, b)
  BY <1>1, ContinuationPulls
<1> HIDE DEF t
<1>3. ASSUME NEW a, NEW b, Run(t, a, b)
      PROVE  \E c, d : /\ Run(view, c, d) /\ SameSource(view, c, d, t, a, b)
                       /\ \A s : Reads(s, view, c, d) =>
                            ValidUtf8(s) /\ Reads(canonicalize(s), t, a, b)
  <2>1. PICK e, f :
          /\ Run(w, e, f) /\ SameSource(w, e, f, t, a, b)
          /\ \A s : Reads(s, w, e, f) => Reads(remove_structural_continuations(s), t, a, b)
    BY <1>2, <1>3, Zenon
  <2>2. PICK c, d :
          /\ Run(view, c, d) /\ SameSource(view, c, d, w, e, f)
          /\ \A s : Reads(s, view, c, d) => ValidUtf8(s) /\ Reads(Characters(s), w, e, f)
    BY <1>1, <2>1, Zenon
  <2>3. SameSource(view, c, d, t, a, b)
    BY <2>1, <2>2 DEF SameSource
  <2>4. \A s : Reads(s, view, c, d) => ValidUtf8(s) /\ Reads(canonicalize(s), t, a, b)
    BY <1>0, <2>1, <2>2
  <2> QED BY <2>2, <2>3, <2>4
<1> QED BY <1>0, <1>2, <1>3

-----------------------------------------------------------------------------
(* The forms of the source span of a match.                                *)

More(v) == v \cup {canonicalize(w) : w \in v} \cup Layer(v)

MoreStep(h, root, k) == IF k = 0 THEN {root} ELSE More(h[k - 1])

IsMore(h, root) == h = [k \in 0..MaxDecodeLayers |-> MoreStep(h, root, k)]

\* The recursion of Readings has a solution.
LEMMA MoreExists ==
  ASSUME NEW root
  PROVE  \E h : IsMore(h, root)
<1> DEFINE Solves(h, k) == h = [n \in 0..k |-> MoreStep(h, root, n)]
           Bad == {k \in Nat : ~\E h : Solves(h, k)}
<1>1. Bad = {}
  <2> SUFFICES ASSUME Bad # {} PROVE FALSE
    OBVIOUS
  <2>1. PICK k \in Bad : \A m \in Bad : k <= m
    <3>1. Bad \in SUBSET Nat
      OBVIOUS
    <3> HIDE DEF Bad
    <3> QED BY <3>1, LeastNatural
  <2>2. k # 0
    <3>1. Solves([n \in 0..0 |-> {root}], 0)
      BY DEF MoreStep
    <3> QED BY <3>1, <2>1
  <2>3. k - 1 \in Nat /\ k - 1 \notin Bad
    BY <2>1, <2>2
  <2>4. PICK h : Solves(h, k - 1)
    BY <2>3
  <2> DEFINE g == [n \in 0..k |-> IF n = k THEN More(h[k - 1]) ELSE h[n]]
  <2>5. k \in Nat \ {0}
    BY <2>2
  <2>6. g[k] = MoreStep(g, root, k)
    BY <2>5 DEF MoreStep
  <2>7. ASSUME NEW n \in 0..k - 1 PROVE g[n] = MoreStep(g, root, n)
    <3>1. g[n] = h[n] /\ h[n] = MoreStep(h, root, n)
      BY <2>4, <2>5
    <3>2. CASE n = 0
      BY <3>1, <3>2 DEF MoreStep
    <3>3. CASE n # 0
      <4>1. g[n - 1] = h[n - 1]
        BY <2>5, <3>3
      <4> HIDE DEF g
      <4> QED BY <3>1, <3>3, <4>1 DEF MoreStep
    <3> QED BY <3>2, <3>3
  <2>8. g = [n \in 0..k |-> g[n]]
    OBVIOUS
  <2> HIDE DEF g
  <2>9. \A n \in 0..k : g[n] = MoreStep(g, root, n)
    BY <2>5, <2>6, <2>7
  <2>10. Solves(g, k)
    BY <2>8, <2>9
  <2> QED BY <2>1, <2>10
<1>2. MaxDecodeLayers \notin Bad
  BY <1>1
<1>3. MaxDecodeLayers \in Nat
  BY ScannerAssumption
<1> QED BY <1>2, <1>3 DEF IsMore

\* g are the layers of readings of a source.
ReadingLayers(g, source) ==
  /\ g[0] = {normalize(source)}
  /\ \A k \in 1..MaxDecodeLayers : g[k] = More(g[k - 1])

\* The readings are those of the last layer, which has those of all others.
LEMMA ReadingsAre ==
  ASSUME NEW source
  PROVE  \E g :
           /\ ReadingLayers(g, source)
           /\ \A k \in 0..MaxDecodeLayers : \A r \in g[k] :
                /\ Bytes(r) \in Readings(source)
                /\ Bytes(collapse_candidate_separators(r)) \in Readings(source)
<1> DEFINE g == CHOOSE h : IsMore(h, normalize(source))
           forms == g[MaxDecodeLayers]
<1>1. IsMore(g, normalize(source))
  BY MoreExists, Zenon
<1>2. Readings(source) =
        {Bytes(f) : f \in forms \cup {collapse_candidate_separators(f) : f \in forms}}
  BY Zenon DEF Readings, IsMore, MoreStep, More
<1> HIDE DEF g
<1>3. MaxDecodeLayers \in Nat
  BY ScannerAssumption
<1>4. g[0] = {normalize(source)}
  BY <1>1, <1>3 DEF IsMore, MoreStep
<1>5. ASSUME NEW k \in 1..MaxDecodeLayers PROVE g[k] = More(g[k - 1])
  <2>1. k \in 0..MaxDecodeLayers /\ k # 0
    BY <1>3
  <2>2. g[k] = MoreStep(g, normalize(source), k)
    BY <1>1, <2>1, Zenon DEF IsMore
  <2> QED BY <2>1, <2>2, Zenon DEF MoreStep
<1>6. \A k \in 0..MaxDecodeLayers : g[k] \subseteq forms
  <2> DEFINE Bad == {m \in Nat : m <= MaxDecodeLayers /\ ~(g[MaxDecodeLayers - m] \subseteq forms)}
  <2>1. Bad = {}
    <3> SUFFICES ASSUME Bad # {} PROVE FALSE
      OBVIOUS
    <3>1. PICK m \in Bad : \A l \in Bad : m <= l
      <4>1. Bad \in SUBSET Nat
        OBVIOUS
      <4> HIDE DEF Bad
      <4> QED BY <4>1, LeastNatural
    <3> DEFINE k == MaxDecodeLayers - m
    <3>2. m \in Nat /\ m <= MaxDecodeLayers /\ ~(g[k] \subseteq forms)
      OBVIOUS
    <3>3. m # 0
      BY <1>3, <3>2
    <3>4. /\ m - 1 \in Nat /\ m - 1 <= MaxDecodeLayers /\ ~(m <= m - 1)
          /\ MaxDecodeLayers - (m - 1) = k + 1 /\ k + 1 \in 1..MaxDecodeLayers /\ (k + 1) - 1 = k
      BY <1>3, <3>2, <3>3
    <3>5. m - 1 \notin Bad
      <4> HIDE DEF Bad
      <4> QED BY <3>1, <3>4
    <3>6. g[k + 1] \subseteq forms
      BY <3>4, <3>5
    <3> HIDE DEF k, forms
    <3>7. g[k + 1] = More(g[k])
      BY <1>5, <3>4
    <3>8. g[k] \subseteq g[k + 1]
      BY <3>7 DEF More
    <3> QED BY <3>2, <3>6, <3>8
  <2> SUFFICES ASSUME NEW k \in 0..MaxDecodeLayers PROVE g[k] \subseteq forms
    OBVIOUS
  <2>2. /\ MaxDecodeLayers - k \in Nat /\ MaxDecodeLayers - k <= MaxDecodeLayers
        /\ MaxDecodeLayers - (MaxDecodeLayers - k) = k
    BY <1>3
  <2>3. MaxDecodeLayers - k \notin Bad
    BY <2>1
  <2> QED BY <2>2, <2>3
<1>7. \A f \in forms : /\ Bytes(f) \in Readings(source)
                       /\ Bytes(collapse_candidate_separators(f)) \in Readings(source)
  <2> HIDE DEF forms
  <2> QED BY <1>2
<1> HIDE DEF forms
<1> QED BY <1>4, <1>5, <1>6, <1>7 DEF ReadingLayers

\* The source of a run of a view is a part of the text, one of whose readings
\* after k decodings is the run.
Carried(source, view, k) ==
  /\ view \in Ordered
  /\ \A a, b : Run(view, a, b) =>
       \E c, d \in 1..Len(source) :
         /\ c <= d /\ view[a].start = c - 1 /\ view[b].end = d
         /\ ValidUtf8(Raw(SubSeq(source, c, d)))
         /\ \A g : ReadingLayers(g, SubSeq(source, c, d)) =>
              \E r \in g[k] : Reads(r, view, a, b)

\* The bytes of a text as they stand.
LEMMA RawIs ==
  ASSUME NEW source \in Seq(Symbol)
  PROVE  /\ Raw(source) \in Ordered /\ Len(Raw(source)) = Len(source)
         /\ DOMAIN Raw(source) = 1..Len(source) /\ Len(source) \in Nat
         /\ \A i \in 1..Len(source) : /\ Raw(source)[i].byte = source[i]
                                      /\ Raw(source)[i].start = i - 1
                                      /\ Raw(source)[i].end = i
<1> DEFINE N == Len(source)
           raw == Raw(source)
<1>1. N \in Nat /\ DOMAIN source = 1..N /\ \A i \in 1..N : source[i] \in Symbol
  OBVIOUS
<1>2. raw = [i \in 1..N |-> [byte |-> source[i], start |-> i - 1, end |-> i]]
  BY <1>1 DEF Raw
<1>3. \A i \in 1..N : [byte |-> source[i], start |-> i - 1, end |-> i] \in Cell(Nat)
  BY <1>1 DEF Cell
<1>4. raw \in View(Nat) /\ Len(raw) = N /\ DOMAIN raw = 1..N
  BY <1>1, <1>2, <1>3 DEF View
<1>5. \A i \in 1..N : raw[i].byte = source[i] /\ raw[i].start = i - 1 /\ raw[i].end = i
  BY <1>2
<1>6. InOrder(raw)
  BY <1>1, <1>4, <1>5 DEF InOrder
<1> QED BY <1>1, <1>4, <1>5, <1>6 DEF Ordered

\* The normalized text carries its runs.
LEMMA RootCarried ==
  ASSUME NEW source \in Seq(Symbol), ValidUtf8(Raw(source))
  PROVE  Carried(source, normalize(source), 0)
<1> DEFINE raw == Raw(source)
           t == normalize(source)
           N == Len(source)
<1>1. /\ raw \in Ordered /\ DOMAIN raw = 1..N /\ N \in Nat
      /\ \A i \in 1..N : raw[i].byte = source[i] /\ raw[i].start = i - 1 /\ raw[i].end = i
  BY RawIs
<1>2. \A s : normalize(s) = canonicalize(Raw(s))
  BY DEF normalize
<1>3. /\ t \in Ordered
      /\ \A a, b : Run(t, a, b) =>
           \E c, d :
             /\ Run(raw, c, d) /\ SameSource(raw, c, d, t, a, b)
             /\ \A s : Reads(s, raw, c, d) =>
                  ValidUtf8(s) /\ Reads(canonicalize(s), t, a, b)
  BY <1>1, <1>2, CanonicalPulls
<1> HIDE DEF raw, t
<1>4. ASSUME NEW a, NEW b, Run(t, a, b)
      PROVE  \E c, d \in 1..N :
               /\ c <= d /\ t[a].start = c - 1 /\ t[b].end = d
               /\ ValidUtf8(Raw(SubSeq(source, c, d)))
               /\ \A g : ReadingLayers(g, SubSeq(source, c, d)) =>
                    \E r \in g[0] : Reads(r, t, a, b)
  <2>1. PICK c, d :
          /\ Run(raw, c, d) /\ SameSource(raw, c, d, t, a, b)
          /\ \A s : Reads(s, raw, c, d) => ValidUtf8(s) /\ Reads(canonicalize(s), t, a, b)
    BY <1>3, <1>4, Zenon
  <2>2. c \in 1..N /\ d \in 1..N /\ c <= d
    BY <1>1, <2>1 DEF Run
  <2>3. t[a].start = c - 1 /\ t[b].end = d
    BY <1>1, <2>1, <2>2 DEF SameSource
  <2> DEFINE slice == SubSeq(source, c, d)
  <2>4. /\ slice \in Seq(Symbol) /\ Len(slice) = d - c + 1
        /\ \A k \in 1..Len(slice) : slice[k] = source[c + k - 1]
    BY <1>1, <2>2
  <2> HIDE DEF slice
  <2>5. Reads(Raw(slice), raw, c, d)
    <3>1. /\ Raw(slice) \in View(Nat) /\ Len(Raw(slice)) = d - c + 1
          /\ \A k \in 1..d - c + 1 : Raw(slice)[k].byte = slice[k]
      BY <2>4, RawIs DEF Ordered
    <3>2. \A k \in 1..d - c + 1 : c + k - 1 \in 1..N
      BY <1>1, <2>2
    <3>3. \A k \in 1..d - c + 1 : raw[c + k - 1].byte = source[c + k - 1]
      BY <1>1, <3>2
    <3> QED BY <2>4, <3>1, <3>3 DEF Reads
  <2>6. ValidUtf8(Raw(slice)) /\ Reads(normalize(slice), t, a, b)
    BY <1>2, <2>1, <2>5
  <2>7. ASSUME NEW g, ReadingLayers(g, slice) PROVE \E r \in g[0] : Reads(r, t, a, b)
    BY <2>6, <2>7 DEF ReadingLayers
  <2> QED BY <2>2, <2>3, <2>6, <2>7 DEF slice
<1> QED BY <1>3, <1>4 DEF Carried, t

\* The members of two sequences.
LEMMA RangeOfBoth ==
  ASSUME NEW S, NEW s \in Seq(S), NEW t \in Seq(S)
  PROVE  Range(s \o t) = Range(s) \cup Range(t)
<1>1. /\ Len(s) \in Nat /\ Len(t) \in Nat
      /\ DOMAIN s = 1..Len(s) /\ DOMAIN t = 1..Len(t)
      /\ DOMAIN (s \o t) = 1..Len(s) + Len(t)
      /\ \A k \in 1..Len(s) : k \in 1..Len(s) + Len(t) /\ (s \o t)[k] = s[k]
      /\ \A k \in Len(s) + 1..Len(s) + Len(t) :
           k - Len(s) \in 1..Len(t) /\ (s \o t)[k] = t[k - Len(s)]
      /\ \A k \in 1..Len(t) : /\ Len(s) + k \in 1..Len(s) + Len(t)
                              /\ (s \o t)[Len(s) + k] = t[k]
  OBVIOUS
<1> DEFINE r == s \o t
<1> HIDE DEF r
<1>2. \A x : x \in Range(r) => x \in Range(s) \/ x \in Range(t)
  BY <1>1 DEF Range, r
<1>3. \A x : x \in Range(s) => x \in Range(r)
  BY <1>1 DEF Range, r
<1>4. \A x : x \in Range(t) => x \in Range(r)
  <2> SUFFICES ASSUME NEW k \in DOMAIN t PROVE t[k] \in Range(r)
    BY DEF Range
  <2>1. Len(s) + k \in DOMAIN r /\ r[Len(s) + k] = t[k]
    BY <1>1 DEF r
  <2> QED BY <2>1, Zenon DEF Range
<1> QED BY <1>2, <1>3, <1>4 DEF r

\* The decodings of a view are those that change it.
LEMMA DecodingsAre ==
  ASSUME NEW view
  PROVE  Range(Decodings(view)) =
           {d \in {decode_json_escapes(view), decode_percent_encoding(view)} : d # view}
<1> DEFINE j == decode_json_escapes(view)
           p == decode_percent_encoding(view)
<1> HIDE DEF j, p
<1>1. Decodings(view) = (IF j = view THEN <<>> ELSE <<j>>) \o (IF p = view THEN <<>> ELSE <<p>>)
  BY DEF Decodings, Changed, j, p
<1>2. Range(Decodings(view)) =
        Range(IF j = view THEN <<>> ELSE <<j>>) \cup Range(IF p = view THEN <<>> ELSE <<p>>)
  <2> DEFINE s == IF j = view THEN <<>> ELSE <<j>>
             t == IF p = view THEN <<>> ELSE <<p>>
  <2>1. s \in Seq({j, p}) /\ t \in Seq({j, p})
    <3>1. <<>> \in Seq({j, p}) /\ <<j>> \in Seq({j, p}) /\ <<p>> \in Seq({j, p})
      OBVIOUS
    <3> QED BY <3>1, Zenon
  <2> HIDE DEF s, t
  <2>2. Range(s \o t) = Range(s) \cup Range(t)
    BY <2>1, RangeOfBoth
  <2> QED BY <1>1, <2>2 DEF s, t
<1>3. \A x : Range(<<>>) = {} /\ Range(<<x>>) = {x}
  BY DEF Range
<1>4. /\ Range(IF j = view THEN <<>> ELSE <<j>>) = IF j = view THEN {} ELSE {j}
      /\ Range(IF p = view THEN <<>> ELSE <<p>>) = IF p = view THEN {} ELSE {p}
  BY <1>3, Zenon
<1>5. Range(Decodings(view)) =
        (IF j = view THEN {} ELSE {j}) \cup (IF p = view THEN {} ELSE {p})
  BY <1>2, <1>4, Zenon
<1>6. Range(Decodings(view)) = {d \in {j, p} : d # view}
  BY <1>5
<1> QED BY <1>6 DEF j, p

\* One more decoding of a view that carries its runs.
LEMMA StepCarried ==
  ASSUME NEW source \in Seq(Symbol), NEW k \in 1..MaxDecodeLayers,
         NEW v, Carried(source, v, k - 1), NEW w \in NextForms(v)
  PROVE  Carried(source, w, k)
<1>0. v \in Ordered
  BY DEF Carried
<1>1. PICK e : e \in Range(Decodings(v)) /\ ValidUtf8(e) /\ w = canonicalize(e)
  BY DEF NextForms
<1>2. e \in {decode_json_escapes(v), decode_percent_encoding(v)}
  BY <1>1, DecodingsAre
\* Both decodings carry over the runs of v.
<1>3. /\ e \in Ordered
      /\ \A a, b : Run(e, a, b) =>
           \E c, d :
             /\ Run(v, c, d) /\ SameSource(v, c, d, e, a, b)
             /\ \A s : Reads(s, v, c, d) =>
                  \E t \in {decode_json_escapes(s), decode_percent_encoding(s)} :
                    Reads(t, e, a, b)
  <2>1. CASE e = decode_json_escapes(v)
    <3>1. /\ e \in Ordered
          /\ \A a, b : Run(e, a, b) =>
               \E c, d :
                 /\ Run(v, c, d) /\ SameSource(v, c, d, e, a, b)
                 /\ \A s : Reads(s, v, c, d) => Reads(decode_json_escapes(s), e, a, b)
      BY <1>0, <2>1, JsonPulls
    <3> QED BY <3>1, Zenon
  <2>2. CASE e = decode_percent_encoding(v)
    <3>1. /\ e \in Ordered
          /\ \A a, b : Run(e, a, b) =>
               \E c, d :
                 /\ Run(v, c, d) /\ SameSource(v, c, d, e, a, b)
                 /\ \A s : Reads(s, v, c, d) => Reads(decode_percent_encoding(s), e, a, b)
      BY <1>0, <2>2, PercentPulls
    <3> QED BY <3>1, Zenon
  <2> QED BY <1>2, <2>1, <2>2
<1>4. /\ w \in Ordered
      /\ \A a, b : Run(w, a, b) =>
           \E c, d :
             /\ Run(e, c, d) /\ SameSource(e, c, d, w, a, b)
             /\ \A s : Reads(s, e, c, d) =>
                  ValidUtf8(s) /\ Reads(canonicalize(s), w, a, b)
  BY <1>1, <1>3, CanonicalPulls
<1>5. ASSUME NEW a, NEW b, Run(w, a, b)
      PROVE  \E c, d \in 1..Len(source) :
               /\ c <= d /\ w[a].start = c - 1 /\ w[b].end = d
               /\ ValidUtf8(Raw(SubSeq(source, c, d)))
               /\ \A g : ReadingLayers(g, SubSeq(source, c, d)) =>
                    \E r \in g[k] : Reads(r, w, a, b)
  <2>1. PICK a1, b1 :
          /\ Run(e, a1, b1) /\ SameSource(e, a1, b1, w, a, b)
          /\ \A s : Reads(s, e, a1, b1) => ValidUtf8(s) /\ Reads(canonicalize(s), w, a, b)
    BY <1>4, <1>5, Zenon
  <2>2. PICK a2, b2 :
          /\ Run(v, a2, b2) /\ SameSource(v, a2, b2, e, a1, b1)
          /\ \A s : Reads(s, v, a2, b2) =>
               \E t \in {decode_json_escapes(s), decode_percent_encoding(s)} :
                 Reads(t, e, a1, b1)
    BY <1>3, <2>1, Zenon
  <2>3. PICK c \in 1..Len(source), d \in 1..Len(source) :
          /\ c <= d /\ v[a2].start = c - 1 /\ v[b2].end = d
          /\ ValidUtf8(Raw(SubSeq(source, c, d)))
          /\ \A g : ReadingLayers(g, SubSeq(source, c, d)) =>
               \E r \in g[k - 1] : Reads(r, v, a2, b2)
    BY <2>2, Zenon DEF Carried
  <2>4. w[a].start = c - 1 /\ w[b].end = d
    BY <2>1, <2>2, <2>3 DEF SameSource
  <2>5. ASSUME NEW g, ReadingLayers(g, SubSeq(source, c, d))
        PROVE  \E r \in g[k] : Reads(r, w, a, b)
    <3>1. PICK r \in g[k - 1] : Reads(r, v, a2, b2)
      BY <2>3, <2>5
    <3>2. PICK t \in {decode_json_escapes(r), decode_percent_encoding(r)} : Reads(t, e, a1, b1)
      BY <2>2, <3>1
    <3>3. ValidUtf8(t) /\ Reads(canonicalize(t), w, a, b)
      BY <2>1, <3>2
    <3>4. g[k] = More(g[k - 1])
      BY <2>5 DEF ReadingLayers
    <3>5. canonicalize(t) \in g[k]
      <4>1. CASE t = r
        BY <3>1, <3>4, <4>1 DEF More
      <4>2. CASE t # r
        <5>1. t \in Range(Decodings(r))
          BY <3>2, <4>2, DecodingsAre
        <5>2. canonicalize(t) \in NextForms(r)
          BY <3>3, <5>1 DEF NextForms
        <5>3. canonicalize(t) \in Layer(g[k - 1])
          BY <3>1, <5>2, LayerIs
        <5> QED BY <3>4, <5>3 DEF More
      <4> QED BY <4>1, <4>2
    <3> QED BY <3>3, <3>5
  <2> QED BY <2>3, <2>4, <2>5
<1> QED BY <1>4, <1>5 DEF Carried

\* Every form of a text carries its runs.
LEMMA FormsCarried ==
  ASSUME text.source \in Seq(Symbol), ValidUtf8(Raw(text.source)), NEW f \in Forms
  PROVE  \E k \in 0..MaxDecodeLayers : Carried(text.source, f, k)
<1> DEFINE h == Layers(text.source)
           Good(k) == \A w \in h[k] : Carried(text.source, w, k)
           Bad == {k \in Nat : k <= MaxDecodeLayers /\ ~Good(k)}
<1>1. /\ h[0] = {normalize(text.source)}
      /\ \A k \in 1..MaxDecodeLayers : h[k] = Layer(h[k - 1])
      /\ Forms = UNION {h[k] : k \in 0..MaxDecodeLayers}
      /\ MaxDecodeLayers \in Nat
  BY LayersAre, ScannerAssumption
<1> HIDE DEF h
<1>2. Bad = {}
  <2> SUFFICES ASSUME Bad # {} PROVE FALSE
    OBVIOUS
  <2>1. PICK k \in Bad : \A m \in Bad : k <= m
    <3>1. Bad \in SUBSET Nat
      OBVIOUS
    <3> HIDE DEF Bad
    <3> QED BY <3>1, LeastNatural
  <2>2. k \in Nat /\ k <= MaxDecodeLayers /\ ~Good(k)
    OBVIOUS
  <2>3. k # 0
    BY <1>1, <2>2, RootCarried
  <2>4. k - 1 \in Nat /\ k - 1 <= MaxDecodeLayers /\ ~(k <= k - 1) /\ k \in 1..MaxDecodeLayers
    BY <1>1, <2>2, <2>3
  <2>5. k - 1 \notin Bad
    <3> HIDE DEF Bad
    <3> QED BY <2>1, <2>4
  <2>6. Good(k - 1)
    BY <2>4, <2>5
  <2>7. ASSUME NEW w \in h[k] PROVE Carried(text.source, w, k)
    <3>1. w \in Layer(h[k - 1])
      BY <1>1, <2>4
    <3>2. PICK v \in h[k - 1] : w \in NextForms(v)
      BY <3>1, LayerIs
    <3> QED BY <2>4, <2>6, <3>2, StepCarried
  <2> QED BY <2>2, <2>7
<1>3. PICK k \in 0..MaxDecodeLayers : f \in h[k]
  BY <1>1
<1>4. k \notin Bad
  BY <1>2
<1>5. Good(k)
  BY <1>1, <1>3, <1>4
<1> QED BY <1>3, <1>5

\* Every part of a view lies in a run with the same source.
LEMMA RunAround ==
  ASSUME NEW view \in Ordered, NEW from \in DOMAIN view, NEW to \in DOMAIN view, from <= to
  PROVE  \E a, b : /\ Run(view, a, b) /\ a <= from /\ to <= b
                   /\ view[a].start = view[from].start /\ view[b].end = view[to].end
<1> DEFINE N == Len(view)
           A == {i \in 1..N : Same(view[i], view[from])}
           B == {n \in Nat : n < N /\ Same(view[N - n], view[to])}
<1>0. N \in Nat /\ DOMAIN view = 1..N
  BY CellFields DEF Ordered
<1>1. PICK a \in A : \A i \in A : a <= i
  <2>1. A \in SUBSET Nat /\ from \in A
    BY <1>0 DEF Same
  <2> HIDE DEF A
  <2> QED BY <2>1, LeastNatural
<1>2. a \in 1..N /\ Same(view[a], view[from]) /\ a <= from
  <2>1. from \in A
    BY <1>0 DEF Same
  <2> QED BY <1>1, <2>1
<1>3. WholeFrom(view, a)
  <2> SUFFICES ASSUME a # 1, Same(view[a - 1], view[a]) PROVE FALSE
    BY DEF WholeFrom
  <2>1. a - 1 \in 1..N /\ ~(a <= a - 1)
    BY <1>0, <1>2
  <2>2. a - 1 \in A
    BY <1>2, <2>1 DEF Same
  <2> QED BY <1>1, <2>1, <2>2
<1>4. PICK n \in B : \A m \in B : n <= m
  <2>1. N - to \in B
    <3>1. N - to \in Nat /\ N - to < N /\ N - (N - to) = to
      BY <1>0
    <3> QED BY <3>1 DEF Same
  <2>2. B \in SUBSET Nat
    OBVIOUS
  <2> HIDE DEF B
  <2> QED BY <2>1, <2>2, LeastNatural
<1> DEFINE b == N - n
<1>5. n \in Nat /\ n < N /\ Same(view[b], view[to])
  OBVIOUS
<1>6. b \in 1..N /\ to <= b
  <2>1. N - to \in Nat /\ N - to < N /\ N - (N - to) = to
    BY <1>0
  <2>2. N - to \in B
    BY <2>1 DEF Same
  <2>3. n <= N - to
    <3> HIDE DEF B
    <3> QED BY <1>4, <2>2
  <2> QED BY <1>0, <1>5, <2>3
<1>7. WholeTo(view, b)
  <2> SUFFICES ASSUME b # N, Same(view[b], view[b + 1]) PROVE FALSE
    BY DEF WholeTo
  <2>1. n - 1 \in Nat /\ n - 1 < N /\ N - (n - 1) = b + 1 /\ ~(n <= n - 1)
    <3>1. N \in Nat /\ n \in Nat /\ n < N /\ N - n # N
      BY <1>0, <1>5
    <3> HIDE DEF N, B
    <3> QED BY <3>1
  <2>2. Same(view[b + 1], view[to])
    BY <1>5 DEF Same
  <2>3. n - 1 \in B
    BY <2>1, <2>2
  <2> HIDE DEF B
  <2> QED BY <1>4, <2>1, <2>3
<1> HIDE DEF b
<1>8. Run(view, a, b)
  BY <1>0, <1>2, <1>3, <1>6, <1>7 DEF Run
<1> QED BY <1>2, <1>5, <1>6, <1>8 DEF Same

\* A reading of a run shows every part of it.
LEMMA ReadingShows ==
  ASSUME NEW view \in Ordered, NEW a \in DOMAIN view, NEW b \in DOMAIN view,
         NEW from \in a..b, NEW to \in from..b, NEW r, Reads(r, view, a, b)
  PROVE  Shows(Bytes(r), Bytes(SubSeq(view, from, to)))
<1>0. /\ view \in View(Nat) /\ Len(view) \in Nat /\ DOMAIN view = 1..Len(view)
      /\ view \in Seq(Cell(Nat))
  BY CellFields DEF Ordered, View
<1>1. /\ r \in Seq(Cell(Nat)) /\ Len(r) = b - a + 1 /\ DOMAIN r = 1..b - a + 1
      /\ \A k \in 1..b - a + 1 : r[k].byte = view[a + k - 1].byte
  BY CellFields DEF Reads, View
<1> DEFINE whole == Bytes(r)
           match == SubSeq(view, from, to)
           part == Bytes(match)
           m == to - from + 1
           k == from - a
           len == b - a + 1
<1>12. /\ a \in Nat /\ b \in Nat /\ from \in Nat /\ to \in Nat /\ 1 <= a /\ a <= from
       /\ from <= to /\ to <= b /\ b <= Len(view)
  BY <1>0
<1>2. /\ m \in Nat /\ k \in Nat
      /\ len \in Nat /\ k \in 0..len - m /\ k + 1 \in 1..len + 1 /\ k + m \in 0..len
      /\ \A i \in 1..m : k + i \in 1..len /\ a + (k + i) - 1 = from + i - 1
  <2>1. m \in Nat /\ k \in Nat /\ len \in Nat /\ k + m <= len
    BY <1>12
  <2>2. m = to - from + 1 /\ k = from - a /\ len = b - a + 1
    OBVIOUS
  <2> HIDE DEF m, k, len
  <2>3. ASSUME NEW i \in 1..m PROVE k + i \in 1..len /\ a + (k + i) - 1 = from + i - 1
    <3>1. i \in Nat /\ 1 <= i /\ i <= m
      BY <2>1
    <3>2. k + i \in 1..len
      BY <2>1, <3>1
    <3>3. a + k = from
      BY <1>12, <2>2
    <3>4. a + (k + i) - 1 = (a + k) + i - 1
      BY <1>12, <2>1, <3>1
    <3> QED BY <3>2, <3>3, <3>4
  <2> QED BY <2>1, <2>3
<1>3. /\ match \in Seq(Cell(Nat)) /\ Len(match) = m /\ DOMAIN match = 1..m
      /\ \A i \in 1..m : match[i] = view[from + i - 1]
  <2>1. from \in 1..Len(view) + 1 /\ to \in 0..Len(view)
    BY <1>0, <1>12
  <2>2. match = [i \in 1..to - from + 1 |-> view[i + from - 1]]
    BY <1>0, <1>12, <2>1
  <2>3. \A i \in 1..m : i + from - 1 = from + i - 1 /\ i + from - 1 \in 1..Len(view)
    BY <1>0, <1>12
  <2>4. \A i \in 1..m : match[i] = view[from + i - 1] /\ match[i] \in Cell(Nat)
    BY <1>0, <2>2, <2>3
  <2>5. match = [i \in 1..m |-> view[from + i - 1]]
    BY <2>2, <2>3
  <2> HIDE DEF match
  <2>6. \A i \in 1..m : view[from + i - 1] \in Cell(Nat)
    BY <2>4
  <2> QED BY <1>2, <2>4, <2>5, <2>6
<1>11. /\ len = b - a + 1 /\ \A i \in 1..len : r[i].byte = view[a + i - 1].byte
       /\ r \in Seq(Cell(Nat)) /\ DOMAIN r = 1..len
  BY <1>1
<1> HIDE DEF match, m, k, len
<1>4. /\ part = [i \in 1..m |-> match[i].byte] /\ Len(part) = m
      /\ \A i \in 1..m : part[i] = view[from + i - 1].byte
  <2>1. part = [i \in 1..m |-> match[i].byte]
    BY <1>3, Zenon DEF Bytes
  <2> HIDE DEF part
  <2>2. Len(part) = m
    BY <1>2, <2>1
  <2>3. \A i \in 1..m : part[i] = view[from + i - 1].byte
    BY <1>3, <2>1
  <2> QED BY <2>1, <2>2, <2>3
<1>5. /\ whole = [i \in 1..len |-> r[i].byte] /\ Len(whole) = len /\ DOMAIN whole = 1..len
  BY <1>2, <1>11 DEF Bytes
<1>6. whole \in Seq(Symbol)
  <2>1. \A i \in 1..len : r[i].byte \in Symbol
    BY <1>11 DEF Cell
  <2> QED BY <1>2, <1>5, <2>1
<1>7. SubSeq(whole, k + 1, k + m) = [i \in 1..m |-> whole[k + i]]
  <2> HIDE DEF whole
  <2>1. k + 1 \in 1..Len(whole) + 1 /\ k + m \in 0..Len(whole)
    BY <1>2, <1>5
  <2>2. (k + m) - (k + 1) + 1 = m /\ \A i \in 1..m : i + (k + 1) - 1 = k + i
    BY <1>2
  <2> QED BY <1>2, <1>6, <2>1, <2>2
<1>8. \A i \in 1..m : whole[k + i] = part[i]
  <2> SUFFICES ASSUME NEW i \in 1..m PROVE whole[k + i] = part[i]
    OBVIOUS
  <2>1. k + i \in 1..len /\ a + (k + i) - 1 = from + i - 1
    BY <1>2
  <2>2. whole[k + i] = r[k + i].byte
    BY <1>5, <2>1
  <2>3. r[k + i].byte = view[from + i - 1].byte
    BY <1>11, <2>1
  <2> QED BY <1>4, <2>2, <2>3
<1>9. part = [i \in 1..m |-> part[i]]
  BY <1>4
<1> HIDE DEF whole, part
<1>10. SubSeq(whole, k + 1, k + m) = part
  BY <1>7, <1>8, <1>9
<1> QED BY <1>2, <1>4, <1>5, <1>10 DEF Shows, whole, part, match

\* The source of a run of a view is a part of the text that reads as the run.
Told(source, view) ==
  /\ view \in Ordered
  /\ \A a, b : Run(view, a, b) =>
       \E c, d \in 1..Len(source) :
         /\ c <= d /\ view[a].start = c - 1 /\ view[b].end = d
         /\ ValidUtf8(Raw(SubSeq(source, c, d)))
         /\ \E r : Bytes(r) \in Readings(SubSeq(source, c, d)) /\ Reads(r, view, a, b)

\* A form and its collapsed form.
LEMMA FormsTold ==
  ASSUME NEW source, NEW k \in 0..MaxDecodeLayers, NEW f, Carried(source, f, k)
  PROVE  Told(source, f) /\ Told(source, collapse_candidate_separators(f))
<1> DEFINE t == collapse_candidate_separators(f)
<1>0. f \in Ordered
  BY DEF Carried
<1>1. ASSUME NEW a, NEW b, Run(f, a, b)
      PROVE  \E c, d \in 1..Len(source) :
               /\ c <= d /\ f[a].start = c - 1 /\ f[b].end = d
               /\ ValidUtf8(Raw(SubSeq(source, c, d)))
               /\ \E r : /\ Bytes(r) \in Readings(SubSeq(source, c, d))
                         /\ Bytes(collapse_candidate_separators(r))
                              \in Readings(SubSeq(source, c, d))
                         /\ Reads(r, f, a, b)
  <2>1. PICK c \in 1..Len(source), d \in 1..Len(source) :
          /\ c <= d /\ f[a].start = c - 1 /\ f[b].end = d
          /\ ValidUtf8(Raw(SubSeq(source, c, d)))
          /\ \A g : ReadingLayers(g, SubSeq(source, c, d)) => \E r \in g[k] : Reads(r, f, a, b)
    BY <1>1, Zenon DEF Carried
  <2>2. PICK g :
          /\ ReadingLayers(g, SubSeq(source, c, d))
          /\ \A n \in 0..MaxDecodeLayers : \A r \in g[n] :
               /\ Bytes(r) \in Readings(SubSeq(source, c, d))
               /\ Bytes(collapse_candidate_separators(r)) \in Readings(SubSeq(source, c, d))
    BY ReadingsAre, Zenon
  <2>3. PICK r \in g[k] : Reads(r, f, a, b)
    BY <2>1, <2>2, Zenon
  <2>4. /\ Bytes(r) \in Readings(SubSeq(source, c, d))
        /\ Bytes(collapse_candidate_separators(r)) \in Readings(SubSeq(source, c, d))
    BY <2>2, Zenon
  <2> QED BY <2>1, <2>3, <2>4, Zenon
<1>2. Told(source, f)
  BY <1>0, <1>1, Zenon DEF Told
<1>3. /\ t \in Ordered
      /\ \A a, b : Run(t, a, b) =>
           \E c, d :
             /\ Run(f, c, d) /\ SameSource(f, c, d, t, a, b)
             /\ \A s : Reads(s, f, c, d) => Reads(collapse_candidate_separators(s), t, a, b)
  BY <1>0, CollapsePulls
<1> HIDE DEF t
<1>4. ASSUME NEW a, NEW b, Run(t, a, b)
      PROVE  \E c, d \in 1..Len(source) :
               /\ c <= d /\ t[a].start = c - 1 /\ t[b].end = d
               /\ ValidUtf8(Raw(SubSeq(source, c, d)))
               /\ \E r : Bytes(r) \in Readings(SubSeq(source, c, d)) /\ Reads(r, t, a, b)
  <2>1. PICK a1, b1 :
          /\ Run(f, a1, b1) /\ SameSource(f, a1, b1, t, a, b)
          /\ \A s : Reads(s, f, a1, b1) => Reads(collapse_candidate_separators(s), t, a, b)
    BY <1>3, <1>4, Zenon
  <2>2. PICK c \in 1..Len(source), d \in 1..Len(source) :
          /\ c <= d /\ f[a1].start = c - 1 /\ f[b1].end = d
          /\ ValidUtf8(Raw(SubSeq(source, c, d)))
          /\ \E r : /\ Bytes(collapse_candidate_separators(r))
                         \in Readings(SubSeq(source, c, d))
                    /\ Reads(r, f, a1, b1)
    BY <1>1, <2>1, Zenon
  <2>3. t[a].start = c - 1 /\ t[b].end = d
    BY <2>1, <2>2, Zenon DEF SameSource
  <2>4. \E r : Bytes(r) \in Readings(SubSeq(source, c, d)) /\ Reads(r, t, a, b)
    BY <2>1, <2>2, Zenon
  <2> QED BY <2>2, <2>3, <2>4, Zenon
<1>5. Told(source, t)
  BY <1>3, <1>4, Zenon DEF Told
<1> QED BY <1>2, <1>5 DEF t

\* SpanCarriesMatch: the source span of every match a detector may make in any
\* view begins and ends on characters, and read alone it still shows the match,
\* so that replacing it leaves nothing of the match; for every text, every
\* number of decode layers and every limit.
THEOREM SpanCarriesMatchHolds == Spec => []SpanCarriesMatch
<1>1. VInv /\ NoFormSkipped => SpanCarriesMatch
  <2> SUFFICES ASSUME VInv, NoFormSkipped, phase = "detect",
                      NEW v \in DOMAIN views, NEW part \in Matches(views[v].view)
               PROVE  LET match == SubSeq(views[v].view, part[1], part[2])
                          span  == combined_source(views[v].view, part[1], part[2])
                          slice == SubSeq(text.source, span.start + 1, span.end)
                      IN  /\ slice # <<>> /\ ValidUtf8(Raw(slice))
                          /\ \E reading \in Readings(slice) : Shows(reading, Bytes(match))
    BY Zenon DEF SpanCarriesMatch
  <2> DEFINE view == views[v].view
             from == part[1]
             to == part[2]
             span == combined_source(view, from, to)
             source == text.source
  <2>1. source \in Seq(Symbol) /\ ValidUtf8(Raw(source)) /\ Len(source) \in Nat
    <3>1. text \in Texts
      BY DEF VInv
    <3> QED BY <3>1, TextIs
  <2>2. views[v].secret \in BOOLEAN
    <3>1. views[v] \in Scanned(Boundaries(text.source))
      BY DEF VInv
    <3> QED BY <3>1 DEF Scanned
  <2>3. Told(source, view)
    <3>1. ASSUME NEW f \in Forms
          PROVE  Told(source, f) /\ Told(source, collapse_candidate_separators(f))
      <4>1. PICK k \in 0..MaxDecodeLayers : Carried(source, f, k)
        BY <2>1, FormsCarried
      <4> QED BY <4>1, FormsTold
    <3>2. CASE views[v].secret = FALSE
      <4>1. view \in ViewsOf(FALSE)
        BY <3>2, ViewsOfIs, Zenon
      <4>2. view \in Forms
        BY <4>1, Zenon DEF NoFormSkipped
      <4> QED BY <3>1, <4>2
    <3>3. CASE views[v].secret = TRUE
      <4>1. view \in ViewsOf(TRUE)
        BY <3>3, ViewsOfIs, Zenon
      <4>2. view \in {collapse_candidate_separators(f) :
                        f \in {g \in Forms : collapse_candidate_separators(g) # g}}
        BY <4>1, Zenon DEF NoFormSkipped
      <4>3. PICK f \in Forms : view = collapse_candidate_separators(f)
        BY <4>2
      <4> QED BY <3>1, <4>3
    <3> QED BY <2>2, <3>2, <3>3
  <2>4. from \in DOMAIN view /\ to \in DOMAIN view /\ from <= to
    BY DEF Matches
  <2> HIDE DEF view, from, to
  <2>5. view \in Ordered
    BY <2>3 DEF Told
  <2>6. PICK a, b : /\ Run(view, a, b) /\ a <= from /\ to <= b
                    /\ view[a].start = view[from].start /\ view[b].end = view[to].end
    BY <2>4, <2>5, RunAround
  <2>7. PICK c \in 1..Len(source), d \in 1..Len(source) :
          /\ c <= d /\ view[a].start = c - 1 /\ view[b].end = d
          /\ ValidUtf8(Raw(SubSeq(source, c, d)))
          /\ \E r : Bytes(r) \in Readings(SubSeq(source, c, d)) /\ Reads(r, view, a, b)
    BY <2>3, <2>6, Zenon DEF Told
  <2>8. span.start = c - 1 /\ span.end = d
    BY <2>4, <2>5, <2>6, <2>7, HullIs
  <2> DEFINE slice == SubSeq(source, span.start + 1, span.end)
  <2>9. slice = SubSeq(source, c, d)
    BY <2>1, <2>8
  <2>10. slice # <<>>
    <3>1. Len(SubSeq(source, c, d)) = d - c + 1
      BY <2>1, <2>7
    <3>2. d - c + 1 # 0
      BY <2>1, <2>7
    <3> HIDE DEF slice
    <3> QED BY <2>9, <3>1, <3>2
  <2>11. PICK r : Bytes(r) \in Readings(SubSeq(source, c, d)) /\ Reads(r, view, a, b)
    BY <2>7
  <2>12. Shows(Bytes(r), Bytes(SubSeq(view, from, to)))
    <3>1. DOMAIN view = 1..Len(view) /\ Len(view) \in Nat
      BY <2>5, CellFields DEF Ordered
    <3>2. a \in DOMAIN view /\ b \in DOMAIN view
      BY <2>6 DEF Run
    <3>3. from \in a..b /\ to \in from..b
      BY <2>4, <2>6, <3>1, <3>2
    <3> QED BY <2>5, <2>11, <3>2, <3>3, ReadingShows
  <2>13. ValidUtf8(Raw(slice)) /\ Bytes(r) \in Readings(slice)
    BY <2>7, <2>9, <2>11
  <2> HIDE DEF slice
  <2>14. \E reading \in Readings(slice) : Shows(reading, Bytes(SubSeq(view, from, to)))
    BY <2>12, <2>13
  <2> QED BY <2>10, <2>13, <2>14 DEF slice, span, source, view, from, to
<1> QED BY <1>1, ScanInvariant, NoFormSkippedHolds, PTL

=============================================================================
