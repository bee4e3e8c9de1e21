------------------------- MODULE PrivacyEngineProofs -------------------------
(***************************************************************************)
(* Proofs about protect and restore_display_text, for every policy that    *)
(* validation lets through, every request the scanner can describe and     *)
(* every ledger: what is blocked is never forwarded, what is not forwarded *)
(* leaves no mapping, a forwarded token is dead only if the ledger is      *)
(* full, a forwarded text is the original with its replaced spans and      *)
(* nothing else replaced, and the display puts the originals back.         *)
(*                                                                         *)
(* Each is about the end of a call and needs to be known at every step of  *)
(* it: what the scan cleared (Cleared), where each mapping came from       *)
(* (Traced), that the pending findings still lie inside the rewritten text *)
(* (Pending), which of its tokens live (Live), and how far each text has   *)
(* been rewritten (Faithful): a prefix of the original, and behind it what *)
(* matches the reference rewrite atom by atom (Rewriting).                 *)
(***************************************************************************)
EXTENDS PrivacyEngine, OpsProofs

\* What a rewritten text of target i is made of.
Atoms(i) == Range(request[i].text) \cup Token \cup {Mask(c) : c \in Classes}

\* A finding of apply_rewrites, with the target it is in.
Items ==
  {w \in [target : DOMAIN request, finding : Finding(Classes)] :
     /\ 1 <= w.finding.start
     /\ w.finding.end <= Len(request[w.target].text) + 1}

\* Targets in order, the findings of one from right to left.
Sooner(v, w) ==
  \/ v.target < w.target
  \/ v.target = w.target /\ w.finding.end <= v.finding.start

Descending(items) == \A k, l \in DOMAIN items : k < l => Sooner(items[k], items[l])

\* The ledger, the clock, the phase and the body.
Typed ==
  /\ LedgerOK(entries, sequence)
  /\ clock \in Instant /\ now \in 0..clock
  /\ phase \in {"idle", "inspect", "rewrite"} \cup Results
  /\ phase # "idle" => request \in Requests
  /\ created \subseteq Token

\* Nothing has happened to the ledger before the scan.
Fresh ==
  phase = "inspect" =>
    /\ entries = before.entries /\ sequence = before.sequence
    /\ created = {}
    /\ body = [i \in DOMAIN request |-> request[i].text]

\* What the scan lets through.
Cleared ==
  phase \in {"rewrite", "forward"} =>
    \A i \in DOMAIN request : \A j \in DOMAIN request[i].findings :
      MayPass(request[i], request[i].findings[j])

\* Every mapping was there before or is on the list to roll back.
Traced ==
  phase = "rewrite" =>
    \A t \in DOMAIN entries :
      \/ t \in created /\ entries[t].scope = Scope
      \/ /\ t \in DOMAIN before.entries
         /\ SameBinding(entries[t], before.entries[t])

\* What is still to be replaced lies inside the text as rewritten so far.
Pending ==
  phase = "rewrite" =>
    /\ work \in Seq(Items) /\ Descending(work)
    /\ DOMAIN body = DOMAIN request
    /\ \A i \in DOMAIN request : body[i] \in Seq(Atoms(i))
    /\ \A k \in DOMAIN work : work[k].finding.end <= Len(body[work[k].target]) + 1

\* Every token in the body is owned, unless the ledger is full of live ones.
Live ==
  phase \in {"rewrite", "forward"} =>
    \/ \A t \in BodyTokens : Owned(entries, Scope, t, now)
    \/ /\ Cardinality(DOMAIN entries) = MaxEntries
       /\ \A t \in DOMAIN entries : entries[t].expires_at > now

EInv == /\ Typed /\ Fresh /\ Cleared /\ Traced /\ Pending /\ Live
        /\ UnforwardedLeavesNoMapping

-----------------------------------------------------------------------------
(* The texts *)

\* Replacing a span inside a text by one atom.
LEMMA ReplaceIs ==
  ASSUME NEW A, NEW text \in Seq(A), NEW f, f.start \in Nat, f.end \in Nat,
         1 <= f.start, f.start < f.end, f.end <= Len(text) + 1, NEW x \in A
  PROVE  /\ replace_range(text, f, <<x>>) \in Seq(A)
         /\ Len(replace_range(text, f, <<x>>)) = Len(text) - (f.end - f.start) + 1
         /\ \A p \in DOMAIN replace_range(text, f, <<x>>) :
              \/ replace_range(text, f, <<x>>)[p] = x
              \/ \E q \in DOMAIN text : replace_range(text, f, <<x>>)[p] = text[q]
<1> DEFINE n == Len(text)
           a == f.start
           b == f.end
           left == SubSeq(text, 1, a - 1)
           right == SubSeq(text, b, n)
           out == replace_range(text, f, <<x>>)
<1>1. n \in Nat /\ a \in Nat /\ b \in Nat /\ 1 <= a /\ a < b /\ b <= n + 1
  OBVIOUS
<1>2. left \in Seq(A) /\ Len(left) = a - 1
      /\ \A p \in 1..a - 1 : left[p] = text[p]
  BY <1>1
<1>3. right \in Seq(A) /\ Len(right) = n - b + 1
      /\ \A p \in 1..n - b + 1 : right[p] = text[b + p - 1]
  BY <1>1
<1>4. out = (left \o <<x>>) \o right
  BY DEF replace_range
<1> HIDE DEF left, right, out, a, b, n
<1>5. left \o <<x>> \in Seq(A) /\ Len(left \o <<x>>) = a
      /\ \A p \in 1..a : (left \o <<x>>)[p] = IF p < a THEN left[p] ELSE x
  BY <1>1, <1>2
<1> DEFINE front == left \o <<x>>
<1> HIDE DEF front
<1>6. out = front \o right
  BY <1>4 DEF front
<1>7. front \in Seq(A) /\ Len(front) = a
      /\ \A p \in 1..a : front[p] = IF p < a THEN left[p] ELSE x
  BY <1>5 DEF front
<1>8. out \in Seq(A) /\ Len(out) = a + (n - b + 1)
      /\ \A p \in 1..a + (n - b + 1) :
           out[p] = IF p <= a THEN front[p] ELSE right[p - a]
  <2>1. out \in Seq(A) /\ Len(out) = Len(front) + Len(right)
        /\ \A p \in 1..Len(front) + Len(right) :
             out[p] = IF p <= Len(front) THEN front[p] ELSE right[p - Len(front)]
    <3>1. front \in Seq(A) /\ right \in Seq(A)
      BY <1>3, <1>7
    <3>2. Len(front) \in Nat /\ Len(right) \in Nat
      BY <3>1
    <3> QED BY <1>6, <3>1, <3>2
  <2> QED BY <1>1, <1>3, <1>7, <2>1
<1>9. ASSUME NEW p \in DOMAIN out
      PROVE  out[p] = x \/ \E q \in DOMAIN text : out[p] = text[q]
  <2>0. p \in 1..a + (n - b + 1) /\ DOMAIN text = 1..n
    BY <1>8 DEF n
  <2>1. CASE p < a
    <3>1. out[p] = text[p] /\ p \in 1..n
      BY <1>1, <1>2, <1>7, <1>8, <2>0, <2>1, SMTT(30)
    <3> QED BY <2>0, <3>1
  <2>2. CASE p = a
    BY <1>1, <1>7, <1>8, <2>0, <2>2
  <2>3. CASE p > a
    <3>1. p - a \in 1..n - b + 1
      BY <1>1, <2>0, <2>3
    <3>2. out[p] = text[b + (p - a) - 1]
      <4>1. out[p] = right[p - a]
        BY <1>1, <1>8, <2>0, <2>3
      <4> QED BY <1>3, <3>1, <4>1
    <3>3. b + (p - a) - 1 \in 1..n
      BY <1>1, <3>1
    <3> QED BY <2>0, <3>2, <3>3
  <2> QED BY <1>1, <2>0, <2>1, <2>2, <2>3
<1> QED BY <1>1, <1>8, <1>9, SMTT(30) DEF out, a, b, n

\* The part of one position.
LEMMA PartOne ==
  ASSUME NEW A, NEW text \in Seq(A), NEW p \in 1..Len(text)
  PROVE  SubSeq(text, p, p) = <<text[p]>>
<1>1. SubSeq(text, p, p) \in Seq(A)
  OBVIOUS
<1>2. Len(SubSeq(text, p, p)) = 1
  OBVIOUS
<1>3. SubSeq(text, p, p)[1] = text[p]
  OBVIOUS
<1> DEFINE part == SubSeq(text, p, p)
<1> HIDE DEF part
<1>4. part \in Seq(A) /\ Len(part) = 1 /\ part[1] = text[p]
  BY <1>1, <1>2, <1>3 DEF part
<1>5. part = <<text[p]>>
  BY <1>4
<1> QED BY <1>5 DEF part

\* The slice of one position.
LEMMA SliceOne ==
  ASSUME NEW A, NEW text \in Seq(A), NEW f, NEW p \in DOMAIN text,
         f.start = p, f.end = p + 1
  PROVE  Slice(text, f) = <<text[p]>>
<1>1. p \in 1..Len(text) /\ (p + 1) - 1 = p
  OBVIOUS
<1>2. Slice(text, f) = SubSeq(text, p, p)
  BY <1>1 DEF Slice
<1> QED BY <1>1, <1>2, PartOne

\* A mask is not a token.
LEMMA MaskNoToken ==
  ASSUME NEW c
  PROVE  Mask(c) \notin Token
<1>1. DOMAIN Mask(c) = {"mask"}
  BY DEF Mask
<1>2. \A t \in Token : DOMAIN t = {"label", "hex"}
  BY DEF Token
<1> QED BY <1>1, <1>2

-----------------------------------------------------------------------------
(* The order of apply_rewrites *)

\* One more of the sequences to flatten.
FlattenStep(h, ss, i) == IF i = 1 THEN ss[i] ELSE h[i - 1] \o ss[i]

\* The recursion of FlattenSeq has a solution.
LEMMA FlattenExists ==
  ASSUME NEW ss, NEW N \in Nat
  PROVE  \E h : h = [i \in 1..N |-> FlattenStep(h, ss, i)]
<1> DEFINE Solves(h, k) == h = [i \in 1..k |-> FlattenStep(h, ss, i)]
           Bad == {k \in Nat : ~\E h : Solves(h, k)}
<1>1. Bad = {}
  <2> SUFFICES ASSUME Bad # {} PROVE FALSE
    OBVIOUS
  <2>1. PICK k \in Bad : \A m \in Bad : k <= m
    <3>1. Bad \in SUBSET Nat
      OBVIOUS
    <3> HIDE DEF Bad
    <3> QED BY <3>1, LeastNatural
  <2>2. k # 0
    <3>1. Solves([i \in 1..0 |-> <<>>], 0)
      OBVIOUS
    <3> QED BY <3>1, <2>1
  <2>3. k - 1 \in Nat /\ k - 1 \notin Bad
    BY <2>1, <2>2
  <2>4. PICK h : Solves(h, k - 1)
    BY <2>3
  <2> DEFINE g == [i \in 1..k |-> IF i = k THEN FlattenStep(h, ss, k) ELSE h[i]]
  <2>5. \A i \in 1..k : g[i] = FlattenStep(g, ss, i)
    <3> SUFFICES ASSUME NEW i \in 1..k PROVE g[i] = FlattenStep(g, ss, i)
      OBVIOUS
    <3>1. k \in Nat /\ k >= 1
      BY <2>1, <2>2
    <3>2. i # 1 => i - 1 \in 1..k /\ i - 1 # k /\ i - 1 \in 1..k - 1
      BY <3>1
    <3>3. i # 1 => g[i - 1] = h[i - 1]
      BY <3>2
    <3>4. FlattenStep(g, ss, i) = FlattenStep(h, ss, i)
      <4> HIDE DEF g
      <4> QED BY <3>3 DEF FlattenStep
    <3>5. CASE i = k
      BY <3>4, <3>5
    <3>6. CASE i # k
      <4>1. i \in 1..k - 1
        BY <3>1, <3>6
      <4>2. h[i] = FlattenStep(h, ss, i)
        BY <2>4, <4>1
      <4> QED BY <3>4, <3>6, <4>2
    <3> QED BY <3>5, <3>6
  <2>6. Solves(g, k)
    <3>1. g = [i \in 1..k |-> g[i]]
      OBVIOUS
    <3> HIDE DEF g
    <3> QED BY <2>5, <3>1
  <2> QED BY <2>1, <2>6
<1> QED BY <1>1

\* FlattenSeq puts the sequences one after the other.
LEMMA FlattenIs ==
  ASSUME NEW ss, Len(ss) \in Nat, Len(ss) # 0
  PROVE  \E h : /\ h[1] = ss[1]
                /\ \A i \in 2..Len(ss) : h[i] = h[i - 1] \o ss[i]
                /\ FlattenSeq(ss) = h[Len(ss)]
<1> DEFINE flatten == CHOOSE h : h = [i \in 1..Len(ss) |-> FlattenStep(h, ss, i)]
<1>1. FlattenSeq(ss) = flatten[Len(ss)]
  BY DEF FlattenSeq, FlattenStep
<1>2. flatten = [i \in 1..Len(ss) |-> FlattenStep(flatten, ss, i)]
  BY FlattenExists
<1> HIDE DEF flatten
<1>3. \A i \in 1..Len(ss) : flatten[i] = FlattenStep(flatten, ss, i)
  BY <1>2
<1>4. flatten[1] = ss[1]
  <2>1. 1 \in 1..Len(ss)
    OBVIOUS
  <2> QED BY <1>3, <2>1 DEF FlattenStep
<1>5. \A i \in 2..Len(ss) : flatten[i] = flatten[i - 1] \o ss[i]
  <2> SUFFICES ASSUME NEW i \in 2..Len(ss) PROVE flatten[i] = flatten[i - 1] \o ss[i]
    OBVIOUS
  <2>1. i \in 1..Len(ss) /\ i # 1
    OBVIOUS
  <2> QED BY <1>3, <2>1 DEF FlattenStep
<1> QED BY <1>1, <1>4, <1>5

\* Sequences of items that are each descending and of one target, put one
\* after the other in the order of their targets, are descending.
LEMMA FlattenDescends ==
  ASSUME NEW T, \A v \in T : v.target \in Nat,
         NEW ss \in Seq(Seq(T)),
         \A i \in DOMAIN ss : /\ Descending(ss[i])
                              /\ \A k \in DOMAIN ss[i] : ss[i][k].target = i
  PROVE  FlattenSeq(ss) \in Seq(T) /\ Descending(FlattenSeq(ss))
<1>1. Len(ss) \in Nat /\ DOMAIN ss = 1..Len(ss) /\ \A i \in DOMAIN ss : ss[i] \in Seq(T)
  OBVIOUS
<1>2. CASE Len(ss) = 0
  <2>1. FlattenSeq(ss) = ss /\ DOMAIN ss = {}
    BY <1>1, <1>2 DEF FlattenSeq
  <2>2. ss = <<>>
    BY <1>2
  <2> QED BY <2>1, <2>2 DEF Descending
<1>3. CASE Len(ss) # 0
  <2>1. PICK h : /\ h[1] = ss[1]
                 /\ \A i \in 2..Len(ss) : h[i] = h[i - 1] \o ss[i]
                 /\ FlattenSeq(ss) = h[Len(ss)]
    BY <1>1, <1>3, FlattenIs
  <2> DEFINE Good(i) == /\ h[i] \in Seq(T) /\ Descending(h[i])
                        /\ \A k \in DOMAIN h[i] : h[i][k].target <= i
             Bad == {i \in 1..Len(ss) : ~Good(i)}
  <2>2. Bad = {}
    <3> SUFFICES ASSUME Bad # {} PROVE FALSE
      OBVIOUS
    <3>1. PICK i \in Bad : \A m \in Bad : i <= m
      <4>1. Bad \in SUBSET Nat
        OBVIOUS
      <4> HIDE DEF Bad
      <4> QED BY <4>1, LeastNatural
    <3>2. i # 1
      <4>1. 1 \in DOMAIN ss /\ ss[1] \in Seq(T)
        BY <1>1, <1>3
      <4>2. Good(1)
        BY <1>1, <2>1, <4>1
      <4> QED BY <3>1, <4>2
    <3>3. i - 1 \in 1..Len(ss) /\ i \in 2..Len(ss) /\ i \in DOMAIN ss
      BY <1>1, <3>1, <3>2
    <3>4. Good(i - 1)
      <4>1. i \in Nat /\ i - 1 \in 1..Len(ss) /\ ~(i <= i - 1)
        BY <3>3
      <4>2. i - 1 \notin Bad
        <5> HIDE DEF Bad
        <5> QED BY <3>1, <4>1
      <4> HIDE DEF Good
      <4> QED BY <4>1, <4>2
    <3> DEFINE u == h[i - 1]
               v == ss[i]
    <3>5. h[i] = u \o v
      BY <2>1, <3>3
    <3>6. /\ u \in Seq(T) /\ v \in Seq(T) /\ Descending(u) /\ Descending(v)
          /\ \A k \in DOMAIN u : u[k].target <= i - 1
          /\ \A k \in DOMAIN v : v[k].target = i
      BY <1>1, <3>3, <3>4
    <3> HIDE DEF u, v
    <3>7. /\ h[i] \in Seq(T) /\ DOMAIN h[i] = 1..Len(u) + Len(v)
          /\ Len(u) \in Nat /\ Len(v) \in Nat
          /\ DOMAIN u = 1..Len(u) /\ DOMAIN v = 1..Len(v)
      BY <3>5, <3>6
    <3>8. \A k \in 1..Len(u) + Len(v) :
            h[i][k] = IF k <= Len(u) THEN u[k] ELSE v[k - Len(u)]
      BY <3>5, <3>6, <3>7
    <3> DEFINE w == h[i]
               m == Len(u)
               n == Len(v)
    <3>9. /\ m \in Nat /\ n \in Nat /\ i \in Nat
          /\ DOMAIN w = 1..m + n /\ DOMAIN u = 1..m /\ DOMAIN v = 1..n
          /\ \A k \in 1..m + n : w[k] = IF k <= m THEN u[k] ELSE v[k - m]
          /\ \A k \in 1..m : u[k].target \in Nat /\ u[k].target <= i - 1
          /\ \A k \in 1..n : v[k].target = i
      <4>1. \A k \in 1..m : u[k].target \in Nat
        BY <3>6, <3>7
      <4>2. \A k \in 1..m : u[k].target <= i - 1
        BY <3>6, <3>7
      <4>3. \A k \in 1..n : v[k].target = i
        BY <3>6, <3>7
      <4>4. \A k \in 1..m + n : w[k] = IF k <= m THEN u[k] ELSE v[k - m]
        BY <3>8
      <4>5. i \in Nat
        BY <1>1, <3>3
      <4> QED BY <3>7, <4>1, <4>2, <4>3, <4>4, <4>5
    <3> HIDE DEF w, m, n
    <3>10. \A k \in 1..m + n : \/ k \in 1..m /\ w[k] = u[k]
                               \/ k > m /\ k - m \in 1..n /\ w[k] = v[k - m]
      <4> SUFFICES ASSUME NEW k \in 1..m + n
                   PROVE  \/ k \in 1..m /\ w[k] = u[k]
                          \/ k > m /\ k - m \in 1..n /\ w[k] = v[k - m]
        OBVIOUS
      <4>1. w[k] = IF k <= m THEN u[k] ELSE v[k - m]
        BY <3>9
      <4>2. IF k <= m THEN k \in 1..m ELSE k > m /\ k - m \in 1..n
        BY <3>9
      <4> QED BY <4>1, <4>2
    <3>11. \A k \in DOMAIN w : w[k].target <= i
      <4> SUFFICES ASSUME NEW k \in 1..m + n PROVE w[k].target <= i
        BY <3>9
      <4>1. CASE k \in 1..m /\ w[k] = u[k]
        <5>1. u[k].target \in Nat /\ u[k].target <= i - 1 /\ i \in Nat
          BY <3>9, <4>1
        <5>2. u[k].target <= i
          BY <5>1
        <5> QED BY <4>1, <5>2
      <4>2. CASE k > m /\ k - m \in 1..n /\ w[k] = v[k - m]
        BY <3>9, <4>2
      <4> QED BY <3>10, <4>1, <4>2
    <3>12. Descending(w)
      <4> SUFFICES ASSUME NEW k \in 1..m + n, NEW l \in 1..m + n, k < l
                   PROVE  Sooner(w[k], w[l])
        BY <3>9 DEF Descending
      <4>0. k \in Nat /\ l \in Nat
        OBVIOUS
      <4>1. CASE l \in 1..m /\ w[l] = u[l]
        <5>1. k \in 1..m /\ w[k] = u[k]
          BY <3>9, <3>10, <4>0, <4>1
        <5> QED BY <3>6, <3>9, <4>1, <5>1 DEF Descending
      <4>2. CASE l > m /\ l - m \in 1..n /\ w[l] = v[l - m]
        <5>1. CASE k \in 1..m /\ w[k] = u[k]
          <6>1. /\ u[k].target \in Nat /\ u[k].target <= i - 1 /\ i \in Nat
                /\ v[l - m].target = i
            BY <3>9, <4>2, <5>1
          <6>2. u[k].target < v[l - m].target
            BY <6>1
          <6> QED BY <4>2, <5>1, <6>2 DEF Sooner
        <5>2. CASE k > m /\ k - m \in 1..n /\ w[k] = v[k - m]
          <6>1. k - m < l - m
            BY <3>9, <4>0
          <6>2. Sooner(v[k - m], v[l - m])
            BY <3>6, <3>9, <4>2, <5>2, <6>1 DEF Descending
          <6> QED BY <4>2, <5>2, <6>2
        <5> QED BY <3>10, <5>1, <5>2
      <4> QED BY <3>10, <4>1, <4>2
    <3>13. Good(i)
      BY <3>7, <3>11, <3>12 DEF w
    <3> QED BY <3>1, <3>13
  <2>3. Good(Len(ss))
    BY <1>1, <1>3, <2>2
  <2> QED BY <2>1, <2>3
<1> QED BY <1>2, <1>3

\* What apply_rewrites goes through: the findings of resolved plans, targets in
\* order and each from right to left.
LEMMA RewriteOrderIs ==
  ASSUME request \in Seq(Range(request)), NEW ps, DOMAIN ps = DOMAIN request,
         \A i \in DOMAIN ps :
           /\ ps[i] \in Seq(Finding(Classes)) /\ Apart(ps[i])
           /\ \A j \in DOMAIN ps[i] : /\ 1 <= ps[i][j].start
                                      /\ ps[i][j].end <= Len(request[i].text) + 1
  PROVE  RewriteOrder(ps) \in Seq(Items) /\ Descending(RewriteOrder(ps))
<1> DEFINE Row(i) == [j \in DOMAIN ps[i] |->
                       [target |-> i, finding |-> Reverse(ps[i])[j]]]
           ss == [i \in DOMAIN ps |-> Row(i)]
<1>1. RewriteOrder(ps) = FlattenSeq(ss)
  BY DEF RewriteOrder
<1>2. Len(request) \in Nat /\ DOMAIN ps = 1..Len(request)
  OBVIOUS
<1>3. ASSUME NEW i \in DOMAIN ps
      PROVE  /\ Row(i) \in Seq(Items) /\ Descending(Row(i))
             /\ \A k \in DOMAIN Row(i) : Row(i)[k].target = i
  <2> DEFINE q == ps[i]
             n == Len(q)
             row == Row(i)
  <2>1. /\ n \in Nat /\ DOMAIN q = 1..n /\ Apart(q)
        /\ \A j \in 1..n : /\ q[j] \in Finding(Classes) /\ 1 <= q[j].start
                           /\ q[j].end <= Len(request[i].text) + 1
    BY <1>3
  <2>2. \A k \in 1..n : Reverse(q)[k] = q[(n - k) + 1] /\ (n - k) + 1 \in 1..n
    BY <2>1 DEF Reverse
  <2>3. DOMAIN row = 1..n
    BY <2>1
  <2>4. \A k \in 1..n : row[k] = [target |-> i, finding |-> q[(n - k) + 1]]
    BY <2>1, <2>2
  <2>5. row = [k \in 1..n |-> row[k]]
    BY <2>1
  <2> HIDE DEF q, row, n
  <2>6. \A k \in 1..n : row[k] \in Items /\ row[k].target = i
    <3> SUFFICES ASSUME NEW k \in 1..n PROVE row[k] \in Items /\ row[k].target = i
      OBVIOUS
    <3> DEFINE f == q[(n - k) + 1]
               w == [target |-> i, finding |-> f]
    <3>1. f \in Finding(Classes) /\ 1 <= f.start /\ f.end <= Len(request[i].text) + 1
      BY <2>1, <2>2
    <3>2. i \in DOMAIN request
      BY <1>3
    <3> HIDE DEF f
    <3>3. /\ w \in [target : DOMAIN request, finding : Finding(Classes)]
          /\ w.target = i /\ w.finding = f
      BY <3>1, <3>2
    <3>4. row[k] = w
      BY <2>4 DEF f
    <3> HIDE DEF w
    <3>5. w \in Items
      BY <3>1, <3>3 DEF Items
    <3> QED BY <3>3, <3>4, <3>5
  <2>7. row \in Seq(Items)
    BY <2>1, <2>5, <2>6, SMTT(30)
  <2>8. Descending(row)
    <3> SUFFICES ASSUME NEW k \in 1..n, NEW l \in 1..n, k < l
                 PROVE  Sooner(row[k], row[l])
      BY <2>3 DEF Descending
    <3>1. (n - l) + 1 \in 1..n /\ (n - k) + 1 \in 1..n /\ (n - l) + 1 < (n - k) + 1
      BY <2>1
    <3>2. q[(n - l) + 1].end <= q[(n - k) + 1].start
      BY <2>1, <3>1 DEF Apart
    <3>3. \A j \in 1..n : row[j].target = i /\ row[j].finding = q[(n - j) + 1]
      <4> SUFFICES ASSUME NEW j \in 1..n
                   PROVE  row[j].target = i /\ row[j].finding = q[(n - j) + 1]
        OBVIOUS
      <4> DEFINE f == q[(n - j) + 1]
      <4> HIDE DEF f
      <4>1. row[j] = [target |-> i, finding |-> f]
        BY <2>4 DEF f
      <4>2. row[j].target = i /\ row[j].finding = f
        BY <4>1
      <4> QED BY <4>2 DEF f
    <3>4. /\ row[k].target = i /\ row[k].finding = q[(n - k) + 1]
          /\ row[l].target = i /\ row[l].finding = q[(n - l) + 1]
      BY <3>3
    <3> QED BY <3>2, <3>4 DEF Sooner
  <2> QED BY <2>3, <2>6, <2>7, <2>8 DEF row
<1> HIDE DEF Row
<1>4. ss \in Seq(Seq(Items))
  BY <1>2, <1>3
<1>5. \A v \in Items : v.target \in Nat
  BY <1>2 DEF Items
<1>6. \A i \in DOMAIN ss : /\ Descending(ss[i])
                           /\ \A k \in DOMAIN ss[i] : ss[i][k].target = i
  BY <1>3
<1> HIDE DEF ss
<1> QED BY <1>1, <1>4, <1>5, <1>6, FlattenDescends

-----------------------------------------------------------------------------
(* The scan *)

\* The findings of a target with their actions.
Judged(target) ==
  [j \in DOMAIN target.findings |-> WithAction(target, target.findings[j])]

\* What a finding of a well-formed target is made of.
LEMMA FindingOf ==
  ASSUME NEW target, WellFormed(target), NEW j \in DOMAIN target.findings
  PROVE  /\ target.findings[j].data_class \in Classes
         /\ target.findings[j].start \in Nat /\ target.findings[j].end \in Nat
         /\ 1 <= target.findings[j].start
         /\ target.findings[j].start < target.findings[j].end
         /\ target.findings[j].end <= Len(target.text) + 1
<1> DEFINE F == [data_class : Classes, start : Nat, end : Nat]
<1>1. target.findings \in Seq(F)
  BY DEF WellFormed
<1>2. \A f \in F : f.data_class \in Classes /\ f.start \in Nat /\ f.end \in Nat
  OBVIOUS
<1> HIDE DEF F
<1>3. target.findings[j] \in F
  BY <1>1
<1> QED BY <1>2, <1>3 DEF WellFormed

\* The action of a finding is one of the four.
LEMMA FindingActionType ==
  ASSUME NEW target, NEW f, f.data_class \in Classes
  PROVE  FindingAction(target, f) \in Actions
<1>1. PolicyAction[f.data_class] \in Actions
  BY PolicyAssumption
<1>2. "allow" \in Actions /\ "block" \in Actions
  BY DEF Actions
<1> QED BY <1>1, <1>2 DEF FindingAction

\* The judged findings keep their class and span.
LEMMA JudgedIs ==
  ASSUME NEW target, WellFormed(target)
  PROVE  /\ Judged(target) \in Seq(Finding(Classes))
         /\ DOMAIN Judged(target) = DOMAIN target.findings
         /\ \A j \in DOMAIN target.findings :
              /\ Judged(target)[j].action = FindingAction(target, target.findings[j])
              /\ Judged(target)[j].data_class = target.findings[j].data_class
              /\ Judged(target)[j].start = target.findings[j].start
              /\ Judged(target)[j].end = target.findings[j].end
<1> DEFINE fs == target.findings
           js == Judged(target)
<1>1. Len(fs) \in Nat /\ DOMAIN fs = 1..Len(fs)
  BY DEF WellFormed
<1>2. ASSUME NEW j \in DOMAIN fs
      PROVE  /\ WithAction(target, fs[j]) \in Finding(Classes)
             /\ WithAction(target, fs[j]).action = FindingAction(target, fs[j])
             /\ WithAction(target, fs[j]).data_class = fs[j].data_class
             /\ WithAction(target, fs[j]).start = fs[j].start
             /\ WithAction(target, fs[j]).end = fs[j].end
  <2> DEFINE f == fs[j]
             x == FindingAction(target, f)
             c == f.data_class
             a == f.start
             b == f.end
             w == [data_class |-> c, start |-> a, end |-> b, action |-> x]
  <2>1. c \in Classes /\ a \in Nat /\ b \in Nat /\ a < b
    BY FindingOf
  <2>2. x \in Actions
    BY <2>1, FindingActionType
  <2>3. WithAction(target, f) = w
    BY DEF WithAction
  <2> HIDE DEF x, c, a, b, f
  <2>4. /\ w \in [data_class : Classes, action : Actions, start : Nat, end : Nat]
        /\ w.action = x /\ w.data_class = c /\ w.start = a /\ w.end = b
    BY <2>1, <2>2
  <2> HIDE DEF w
  <2>5. w \in Finding(Classes)
    BY <2>1, <2>4 DEF Finding
  <2> QED BY <2>3, <2>4, <2>5 DEF x, c, a, b, f
<1>3. DOMAIN js = DOMAIN fs /\ \A j \in DOMAIN fs : js[j] = WithAction(target, fs[j])
  BY DEF Judged
<1>4. js \in Seq(Finding(Classes))
  <2>1. js = [j \in 1..Len(fs) |-> js[j]]
    BY <1>1 DEF Judged
  <2> HIDE DEF js
  <2>2. \A j \in 1..Len(fs) : js[j] \in Finding(Classes)
    BY <1>1, <1>2, <1>3
  <2> HIDE DEF fs
  <2> QED BY <1>1, <2>1, <2>2
<1> QED BY <1>2, <1>3, <1>4

\* A plan resolves the judged findings and stays inside the text.
LEMMA PlanIs ==
  ASSUME NEW target, WellFormed(target)
  PROVE  /\ TargetPlan(target) \in Seq(Finding(Classes))
         /\ Apart(TargetPlan(target))
         /\ \A j \in DOMAIN TargetPlan(target) :
              /\ 1 <= TargetPlan(target)[j].start
              /\ TargetPlan(target)[j].end <= Len(target.text) + 1
         /\ \A i \in DOMAIN target.findings : \E j \in DOMAIN TargetPlan(target) :
              precedence(FindingAction(target, target.findings[i]))
                <= precedence(TargetPlan(target)[j].action)
<1> DEFINE js == Judged(target)
           plan == TargetPlan(target)
           n == Len(target.text)
<1>1. plan = resolve_overlaps(js)
  BY DEF TargetPlan, Judged
<1>2. /\ js \in Seq(Finding(Classes)) /\ DOMAIN js = DOMAIN target.findings
      /\ \A j \in DOMAIN target.findings :
           /\ js[j].action = FindingAction(target, target.findings[j])
           /\ js[j].start = target.findings[j].start
           /\ js[j].end = target.findings[j].end
  BY JudgedIs
<1>3. \A j \in DOMAIN js : /\ js[j].start \in Nat /\ js[j].end \in Nat
                           /\ 1 <= js[j].start /\ js[j].end <= n + 1
  BY <1>2, FindingOf
<1>4. n \in Nat
  BY DEF WellFormed
<1> HIDE DEF js, plan, n
<1>5. Resolves(Classes, plan, js)
  BY <1>1, <1>2, ResolveOverlaps
<1>6. plan \in Seq(Finding(Classes)) /\ Apart(plan)
  BY <1>5 DEF Resolves
<1>7. \A j \in DOMAIN plan : /\ plan[j].start \in Nat /\ plan[j].end \in Nat
                             /\ plan[j].start < plan[j].end
  BY <1>6, FindingFields
<1>8. ASSUME NEW j \in DOMAIN plan
      PROVE  1 <= plan[j].start /\ plan[j].end <= n + 1
  <2> DEFINE a == plan[j].start
             b == plan[j].end
  <2>1. a \in Nat /\ b \in Nat /\ a < b /\ a \in a..b - 1 /\ b - 1 \in a..b - 1
    BY <1>7
  <2>2. \A p \in a..b - 1 : \E i \in DOMAIN js : js[i].start <= p /\ p < js[i].end
    BY <1>5 DEF Resolves
  <2>3. PICK i \in DOMAIN js : js[i].start <= a /\ a < js[i].end
    BY <2>1, <2>2
  <2>4. PICK k \in DOMAIN js : js[k].start <= b - 1 /\ b - 1 < js[k].end
    BY <2>1, <2>2
  <2> HIDE DEF a, b
  <2>5. 1 <= a
    BY <1>3, <2>1, <2>3
  <2>6. b <= n + 1
    BY <1>3, <1>4, <2>1, <2>4
  <2> QED BY <2>5, <2>6 DEF a, b
<1>9. \A i \in DOMAIN target.findings : \E j \in DOMAIN plan :
        precedence(FindingAction(target, target.findings[i]))
          <= precedence(plan[j].action)
  BY <1>2, <1>5 DEF Resolves
<1> QED BY <1>6, <1>8, <1>9 DEF plan, n

\* A plan without a block has no finding to block under it.
LEMMA NothingBlocked ==
  ASSUME NEW target, WellFormed(target), ~Has(TargetPlan(target), "block"),
         NEW i \in DOMAIN target.findings
  PROVE  FindingAction(target, target.findings[i]) # "block"
<1> SUFFICES ASSUME FindingAction(target, target.findings[i]) = "block"
             PROVE  FALSE
  OBVIOUS
<1> DEFINE plan == TargetPlan(target)
<1>1. plan \in Seq(Finding(Classes))
  BY PlanIs
<1>2. PICK j \in DOMAIN plan : precedence("block") <= precedence(plan[j].action)
  BY PlanIs
<1> HIDE DEF plan
<1>3. plan[j].action \in Actions
  BY <1>1, FindingFields
<1>4. \A x \in Actions : precedence("block") <= precedence(x) => x = "block"
  BY DEF Actions, precedence
<1>5. plan[j].action = "block"
  BY <1>2, <1>3, <1>4
<1> QED BY <1>5 DEF plan, Has

\* A finding that is not to be blocked may pass.
LEMMA UnblockedMayPass ==
  ASSUME NEW target, NEW f, f.data_class \in Classes, target.mode \in Modes,
         FindingAction(target, f) # "block",
         LedgerOK(entries, sequence), entries = before.entries
  PROVE  /\ MayPass(target, f)
         /\ f.data_class = TokenClass =>
              \E t \in DOMAIN entries : /\ Slice(target.text, f) = <<t>>
                                        /\ Owned(entries, Scope, t, now)
<1>1. DOMAIN entries \subseteq Token
  BY DEF LedgerOK, LedgerType
<1>2. CASE /\ f.data_class = TokenClass
           /\ \E t \in DOMAIN entries : /\ Slice(target.text, f) = <<t>>
                                        /\ Owned(entries, Scope, t, now)
  BY <1>1, <1>2 DEF MayPass
<1>3. CASE ~(/\ f.data_class = TokenClass
             /\ \E t \in DOMAIN entries : /\ Slice(target.text, f) = <<t>>
                                          /\ Owned(entries, Scope, t, now))
  <2>1. PolicyAction[f.data_class] # "block"
        /\ (target.mode = "block_only" => PolicyAction[f.data_class] = "allow")
    BY <1>3 DEF FindingAction
  <2>2. f.data_class \notin HardClasses
    BY <2>1, PolicyAssumption
  <2>3. f.data_class # TokenClass
    BY <2>2, PolicyAssumption
  <2> QED BY <2>1, <2>2, <2>3 DEF MayPass, Modes
<1> QED BY <1>2, <1>3

-----------------------------------------------------------------------------
(* restore_display_text *)

\* One more position of the text, from the last to the first.
DisplayStep(h, L, seq, text, at, k) ==
  IF k = 0 THEN [entries |-> L, sequence |-> seq, text |-> text]
  ELSE LET i == Len(text) - k + 1
       IN  IF text[i] \in Token THEN RestoreAt(h[k - 1], i, at) ELSE h[k - 1]

\* The recursion of restore_display_text has a solution.
LEMMA DisplayExists ==
  ASSUME NEW L, NEW seq, NEW text, NEW at, NEW N \in Nat
  PROVE  \E h : h = [k \in 0..N |-> DisplayStep(h, L, seq, text, at, k)]
<1> DEFINE Step(h, k) == DisplayStep(h, L, seq, text, at, k)
           Solves(h, n) == h = [k \in 0..n |-> Step(h, k)]
           Bad == {n \in Nat : ~\E h : Solves(h, n)}
<1>0. \A h, g, k : k # 0 /\ h[k - 1] = g[k - 1] => Step(h, k) = Step(g, k)
  BY DEF DisplayStep
<1>00. \A h, g : Step(h, 0) = Step(g, 0)
  BY DEF DisplayStep
<1> HIDE DEF Step
<1>1. Bad = {}
  <2> SUFFICES ASSUME Bad # {} PROVE FALSE
    OBVIOUS
  <2>1. PICK n \in Bad : \A m \in Bad : n <= m
    <3>1. Bad \in SUBSET Nat
      OBVIOUS
    <3> HIDE DEF Bad
    <3> QED BY <3>1, LeastNatural
  <2>2. n # 0
    <3> DEFINE g == [k \in 0..0 |-> Step(<<>>, 0)]
    <3>1. \A k \in 0..0 : k = 0
      OBVIOUS
    <3>2. \A k \in 0..0 : g[k] = Step(g, k)
      BY <1>00, <3>1
    <3>3. g = [k \in 0..0 |-> g[k]]
      OBVIOUS
    <3> HIDE DEF g
    <3>4. Solves(g, 0)
      BY <3>2, <3>3
    <3> QED BY <3>4, <2>1
  <2>3. n - 1 \in Nat /\ n - 1 \notin Bad /\ n \in Nat
    BY <2>1, <2>2
  <2>4. PICK h : Solves(h, n - 1)
    BY <2>3
  <2> DEFINE g == [k \in 0..n |-> IF k = n THEN Step(h, n) ELSE h[k]]
  <2>5. ASSUME NEW k \in 0..n PROVE g[k] = Step(g, k)
    <3>1. k # 0 => k - 1 \in 0..n /\ k - 1 # n
      BY <2>3
    <3>2. k # 0 => g[k - 1] = h[k - 1]
      BY <3>1
    <3>3. g[k] = IF k = n THEN Step(h, n) ELSE h[k]
      OBVIOUS
    <3> HIDE DEF g
    <3>4. Step(g, k) = Step(h, k)
      BY <1>0, <1>00, <3>2
    <3>5. k # n => h[k] = Step(h, k)
      <4>1. k # n => k \in 0..n - 1
        BY <2>3
      <4> QED BY <2>4, <4>1
    <3> QED BY <3>3, <3>4, <3>5
  <2>6. Solves(g, n)
    <3>1. g = [k \in 0..n |-> g[k]]
      OBVIOUS
    <3> HIDE DEF g
    <3> QED BY <2>5, <3>1
  <2> QED BY <2>1, <2>6
<1> QED BY <1>1 DEF Step

\* restore_display_text keeps the ledger sound, however many tokens the text
\* holds and whoever owns them.
LEMMA DisplayOK ==
  ASSUME NEW L, NEW seq, LedgerOK(L, seq), NEW text, Len(text) \in Nat, NEW at
  PROVE  LedgerOK(restore_display_text(L, seq, text, at).entries,
                  restore_display_text(L, seq, text, at).sequence)
<1> DEFINE N == Len(text)
           Step(h, k) == DisplayStep(h, L, seq, text, at, k)
           after == CHOOSE h : h = [k \in 0..N |-> Step(h, k)]
           Good(k) == LedgerOK(after[k].entries, after[k].sequence)
           Bad == {k \in 0..N : ~Good(k)}
<1>1. restore_display_text(L, seq, text, at) = after[N]
  BY DEF restore_display_text, DisplayStep
<1>2. after = [k \in 0..N |-> Step(after, k)]
  BY DisplayExists
<1> HIDE DEF after
<1>3. \A k \in 0..N : after[k] = Step(after, k)
  BY <1>2
<1>4. Good(0)
  <2>1. after[0] = [entries |-> L, sequence |-> seq, text |-> text]
    BY <1>3 DEF DisplayStep
  <2> QED BY <2>1
<1>5. ASSUME NEW k \in 1..N, Good(k - 1) PROVE Good(k)
  <2> DEFINE i == N - k + 1
             acc == after[k - 1]
             t == acc.text[i]
  <2>1. after[k] = IF text[i] \in Token THEN RestoreAt(acc, i, at) ELSE acc
    BY <1>3 DEF DisplayStep
  <2>2. /\ RestoreAt(acc, i, at).entries
             = restore_exact(acc.entries, acc.sequence, Scope, t, at)
        /\ RestoreAt(acc, i, at).sequence = Saturate(acc.sequence)
    BY DEF RestoreAt
  <2> HIDE DEF acc, i, t
  <2>3. LedgerOK(acc.entries, acc.sequence)
    BY <1>5 DEF acc
  <2>4. LedgerOK(restore_exact(acc.entries, acc.sequence, Scope, t, at),
                 Saturate(acc.sequence))
    BY <2>3, RestoreOK
  <2> QED BY <2>1, <2>2, <2>3, <2>4
<1> HIDE DEF Good
<1>6. Bad = {}
  <2> SUFFICES ASSUME Bad # {} PROVE FALSE
    OBVIOUS
  <2>1. PICK k \in Bad : \A m \in Bad : k <= m
    <3>1. Bad \in SUBSET Nat
      OBVIOUS
    <3> HIDE DEF Bad
    <3> QED BY <3>1, LeastNatural
  <2>2. k # 0
    BY <1>4
  <2>3. k \in 1..N /\ k - 1 \in 0..N
    BY <2>1, <2>2
  <2>4. Good(k - 1)
    BY <2>1, <2>3
  <2> QED BY <1>5, <2>1, <2>3, <2>4
<1>7. Good(N)
  BY <1>6
<1> QED BY <1>1, <1>7 DEF Good

-----------------------------------------------------------------------------
(* The steps *)

\* The request being protected is well formed.
LEMMA RequestIs ==
  ASSUME Typed, phase # "idle"
  PROVE  /\ request \in Seq(Range(request))
         /\ \A i \in DOMAIN request : WellFormed(request[i])
BY InputsAssumption DEF Typed

\* Taking the head off the work.
LEMMA TakeHead ==
  ASSUME NEW T, NEW w \in Seq(T), w # <<>>
  PROVE  /\ 1 \in DOMAIN w /\ Head(w) = w[1] /\ w[1] \in T
         /\ Tail(w) \in Seq(T)
         /\ \A k \in DOMAIN Tail(w) : k + 1 \in DOMAIN w /\ Tail(w)[k] = w[k + 1]
                                      /\ k \in Nat /\ 1 <= k
<1>1. Len(w) \in Nat /\ Len(w) # 0 /\ DOMAIN w = 1..Len(w)
  OBVIOUS
<1>2. Tail(w) \in Seq(T) /\ Len(Tail(w)) = Len(w) - 1
  BY <1>1
<1>3. DOMAIN Tail(w) = 1..Len(w) - 1
  BY <1>2
<1>4. \A k \in 1..Len(w) - 1 : Tail(w)[k] = w[k + 1]
  BY <1>1
<1>5. 1 \in DOMAIN w /\ Head(w) = w[1] /\ w[1] \in T
  BY <1>1
<1>6. \A k \in 1..Len(w) - 1 : k + 1 \in 1..Len(w) /\ k \in Nat /\ 1 <= k
  BY <1>1
<1> QED BY <1>1, <1>2, <1>3, <1>4, <1>5, <1>6

\* The rest of the work is still in order.
LEMMA TailDescends ==
  ASSUME NEW T, NEW w \in Seq(T), w # <<>>, Descending(w)
  PROVE  /\ Descending(Tail(w))
         /\ \A k \in DOMAIN Tail(w) : Sooner(w[1], Tail(w)[k])
<1> DEFINE z == Tail(w)
<1>1. /\ 1 \in DOMAIN w
      /\ \A k \in DOMAIN z : k + 1 \in DOMAIN w /\ z[k] = w[k + 1] /\ k \in Nat /\ 1 <= k
  BY TakeHead
<1> HIDE DEF z
<1>2. ASSUME NEW k \in DOMAIN z, NEW l \in DOMAIN z, k < l PROVE Sooner(z[k], z[l])
  <2>1. k + 1 < l + 1
    BY <1>1, <1>2
  <2> QED BY <1>1, <2>1 DEF Descending
<1>3. ASSUME NEW k \in DOMAIN z PROVE Sooner(w[1], z[k])
  <2>1. 1 < k + 1
    BY <1>1
  <2> QED BY <1>1, <2>1 DEF Descending
<1> QED BY <1>2, <1>3 DEF Descending, z

\* The fields of a pending item.
LEMMA ItemIs ==
  ASSUME NEW w \in Items
  PROVE  /\ w.target \in DOMAIN request /\ w.finding \in Finding(Classes)
         /\ 1 <= w.finding.start
         /\ w.finding.start \in Nat /\ w.finding.end \in Nat
         /\ w.finding.start < w.finding.end
         /\ w.finding.end <= Len(request[w.target].text) + 1
         /\ w.finding.data_class \in Classes
<1>1. w.target \in DOMAIN request /\ w.finding \in Finding(Classes)
      /\ 1 <= w.finding.start
      /\ w.finding.end <= Len(request[w.target].text) + 1
  BY DEF Items
<1> QED BY <1>1, FindingFields

\* The body once x has taken the place of the finding at the head of the work.
HeadReplaced(x) ==
  [body EXCEPT ![Head(work).target] =
     replace_range(body[Head(work).target], Head(work).finding, <<x>>)]

\* What apply_rewrites is left with after that.
Rewritten(out, x) ==
  /\ Tail(work) \in Seq(Items) /\ Descending(Tail(work))
  /\ DOMAIN out = DOMAIN request /\ DOMAIN out = DOMAIN body
  /\ \A i \in DOMAIN request : out[i] \in Seq(Atoms(i))
  /\ \A k \in DOMAIN Tail(work) :
       Tail(work)[k].finding.end <= Len(out[Tail(work)[k].target]) + 1
  /\ \A i \in DOMAIN out : \A p \in DOMAIN out[i] :
       \/ out[i][p] = x
       \/ \E q \in DOMAIN body[i] : out[i][p] = body[i][q]

\* Replacing the span at the head of the work keeps the others inside their
\* texts, and brings only the replacement into the body.
LEMMA ReplaceHead ==
  ASSUME Pending, phase = "rewrite", work # <<>>, request \in Seq(Range(request)),
         NEW x \in Atoms(Head(work).target)
  PROVE  Rewritten(HeadReplaced(x), x)
<1> DEFINE out == HeadReplaced(x)
           h == work[1]
           i == h.target
           f == h.finding
           text == body[i]
           new == replace_range(text, f, <<x>>)
           z == Tail(work)
<1>1. /\ work \in Seq(Items) /\ Descending(work) /\ DOMAIN body = DOMAIN request
      /\ \A j \in DOMAIN request : body[j] \in Seq(Atoms(j))
      /\ \A k \in DOMAIN work : work[k].finding.end <= Len(body[work[k].target]) + 1
  BY DEF Pending
<1>2. /\ 1 \in DOMAIN work /\ Head(work) = h /\ h \in Items /\ z \in Seq(Items)
      /\ \A k \in DOMAIN z : k + 1 \in DOMAIN work /\ z[k] = work[k + 1]
  BY <1>1, TakeHead
<1>3. Descending(z) /\ \A k \in DOMAIN z : Sooner(h, z[k])
  BY <1>1, TailDescends
<1>4. /\ i \in DOMAIN request /\ f.start \in Nat /\ f.end \in Nat
      /\ 1 <= f.start /\ f.start < f.end
  BY <1>2, ItemIs
<1>5. text \in Seq(Atoms(i)) /\ f.end <= Len(text) + 1 /\ x \in Atoms(i)
  BY <1>1, <1>2, <1>4
<1>6. \A k \in DOMAIN z :
        /\ z[k].target \in DOMAIN request /\ z[k].finding.end \in Nat
        /\ z[k].finding.end <= Len(body[z[k].target]) + 1
  <2> SUFFICES ASSUME NEW k \in DOMAIN z
               PROVE  /\ z[k].target \in DOMAIN request /\ z[k].finding.end \in Nat
                      /\ z[k].finding.end <= Len(body[z[k].target]) + 1
    OBVIOUS
  <2>1. z[k] \in Items /\ z[k] = work[k + 1] /\ k + 1 \in DOMAIN work
    BY <1>1, <1>2
  <2> QED BY <1>1, <2>1, ItemIs
<1>7. out = [body EXCEPT ![i] = new]
  BY <1>2 DEF HeadReplaced
<1> HIDE DEF h, z, out
<1>8. /\ new \in Seq(Atoms(i))
      /\ Len(new) = Len(text) - (f.end - f.start) + 1
      /\ \A p \in DOMAIN new : new[p] = x \/ \E q \in DOMAIN text : new[p] = text[q]
  <2> HIDE DEF text, f
  <2> QED BY <1>4, <1>5, ReplaceIs
<1> HIDE DEF new, i
<1>9. /\ DOMAIN out = DOMAIN request /\ out[i] = new
      /\ \A j \in DOMAIN request : j # i => out[j] = body[j]
  BY <1>1, <1>4, <1>7
<1>10. \A j \in DOMAIN request : out[j] \in Seq(Atoms(j))
  BY <1>1, <1>8, <1>9
<1>11. ASSUME NEW k \in DOMAIN z
       PROVE  z[k].finding.end <= Len(out[z[k].target]) + 1
  <2>1. CASE z[k].target # i
    BY <1>6, <1>9, <2>1
  <2>2. CASE z[k].target = i
    <3>1. z[k].finding.end <= f.start
      <4>1. Sooner(h, z[k])
        BY <1>3
      <4>2. ~(i < i)
        BY <1>4
      <4> QED BY <2>2, <4>1, <4>2 DEF Sooner, i
    <3> DEFINE n == Len(text)
               e == z[k].finding.end
               a == f.start
               b == f.end
    <3>2. n \in Nat /\ e \in Nat /\ a \in Nat /\ b \in Nat /\ e <= a /\ b <= n + 1
      BY <1>4, <1>5, <1>6, <3>1
    <3>3. Len(out[z[k].target]) = n - (b - a) + 1
      BY <1>8, <1>9, <2>2
    <3> HIDE DEF n, e, a, b
    <3>4. e <= (n - (b - a) + 1) + 1
      BY <3>2
    <3> QED BY <3>3, <3>4 DEF e
  <2> QED BY <2>1, <2>2
<1>12. ASSUME NEW j \in DOMAIN out, NEW p \in DOMAIN out[j]
       PROVE  out[j][p] = x \/ \E q \in DOMAIN body[j] : out[j][p] = body[j][q]
  <2>1. CASE j = i
    BY <1>8, <1>9, <2>1
  <2>2. CASE j # i
    <3>1. out[j] = body[j]
      BY <1>9, <2>2
    <3> QED BY <3>1
  <2> QED BY <2>1, <2>2
<1> QED BY <1>1, <1>2, <1>3, <1>9, <1>10, <1>11, <1>12 DEF z, out, Rewritten

\* What depends on the request alone does not change with it.
LEMMA SameRequest ==
  ASSUME request' = request
  PROVE  Items' = Items /\ \A i : Atoms(i)' = Atoms(i)
BY DEF Items, Atoms

\* The start.
LEMMA InitEInv == Init => EInv
<1> SUFFICES ASSUME Init PROVE EInv
  OBVIOUS
<1>1. 0 \in 0..MaxSequence /\ 0 \in Instant /\ 0 \in 0..0
  BY ConstantsAssumption DEF Instant
<1>2. Typed
  BY <1>1, EmptyOK DEF Init, Typed
<1>3. Fresh /\ Cleared /\ Traced /\ Pending /\ Live /\ UnforwardedLeavesNoMapping
  BY DEF Init, Fresh, Cleared, Traced, Pending, Live, UnforwardedLeavesNoMapping
<1> QED BY <1>2, <1>3 DEF EInv

\* Time passes.
LEMMA TickStep ==
  ASSUME EInv, Tick
  PROVE  EInv'
<1>1. /\ clock < MaxTime /\ clock' = clock + 1
      /\ entries' = entries /\ sequence' = sequence /\ phase' = phase
      /\ request' = request /\ now' = now /\ plans' = plans /\ work' = work
      /\ created' = created /\ body' = body /\ before' = before
  BY DEF Tick, ledger, job
<1>2. Typed'
  <2>1. clock \in 0..MaxTime /\ now \in 0..clock
    BY DEF EInv, Typed, Instant
  <2>2. clock + 1 \in 0..MaxTime /\ now \in 0..clock + 1
    BY <1>1, <2>1, ConstantsAssumption
  <2> QED BY <1>1, <2>2 DEF EInv, Typed, Instant
<1>3. Fresh' /\ Cleared' /\ Traced'
  BY <1>1 DEF EInv, Fresh, Cleared, Traced, MayPass
<1>4. Pending'
  BY <1>1, SameRequest DEF EInv, Pending
<1>5. Live' /\ UnforwardedLeavesNoMapping'
  BY <1>1 DEF EInv, Live, BodyTokens, UnforwardedLeavesNoMapping
<1> QED BY <1>2, <1>3, <1>4, <1>5 DEF EInv

\* A call of protect begins with the ledger as it is.
LEMMA BeginStep ==
  ASSUME EInv, NEW req \in Requests, BeginProtect(req)
  PROVE  EInv'
<1>1. /\ phase' = "inspect" /\ request' = req /\ now' = clock /\ clock' = clock
      /\ before'.entries = entries /\ before'.sequence = sequence
      /\ body' = [i \in DOMAIN req |-> req[i].text] /\ created' = {}
      /\ entries' = entries /\ sequence' = sequence
  BY DEF BeginProtect, ledger
<1>2. Typed'
  <2>1. clock \in 0..MaxTime
    BY DEF EInv, Typed, Instant
  <2>2. clock \in 0..clock
    BY <2>1, ConstantsAssumption
  <2> QED BY <1>1, <2>2 DEF EInv, Typed
<1>3. Fresh'
  BY <1>1 DEF Fresh
<1>4. Cleared' /\ Traced' /\ Pending' /\ Live' /\ UnforwardedLeavesNoMapping'
  BY <1>1 DEF Cleared, Traced, Pending, Live, UnforwardedLeavesNoMapping
<1> QED BY <1>2, <1>3, <1>4 DEF EInv

\* A request that ends before the rewrite leaves the ledger, or what a purge
\* leaves of it.
LEMMA RejectStep ==
  ASSUME EInv, RejectUnparsed \/ RejectScan \/ ScanPanics
  PROVE  EInv'
<1>1. /\ phase = "inspect" /\ phase' \in {"rejected", "panicked"}
      /\ entries' = entries \/ entries' = purge_expired(entries, now)
      /\ sequence' = sequence /\ clock' = clock
      /\ request' = request /\ now' = now /\ created' = created
      /\ body' = body /\ before' = before
  BY DEF RejectUnparsed, RejectScan, ScanPanics, ScanStops, ledger, job
<1>2. /\ LedgerOK(entries', sequence) /\ DOMAIN entries' \subseteq DOMAIN entries
      /\ \A t \in DOMAIN entries' : entries'[t] = entries[t]
  BY <1>1, PurgeOK DEF EInv, Typed
<1>3. Typed'
  BY <1>1, <1>2 DEF EInv, Typed, Results
<1>4. entries = before.entries /\ sequence = before.sequence
  BY <1>1 DEF EInv, Fresh
<1>5. UnforwardedLeavesNoMapping'
  BY <1>1, <1>2, <1>4 DEF UnforwardedLeavesNoMapping, SameBinding
<1>6. Fresh' /\ Cleared' /\ Traced' /\ Pending' /\ Live'
  BY <1>1 DEF Fresh, Cleared, Traced, Pending, Live
<1> QED BY <1>3, <1>5, <1>6 DEF EInv

\* The token literals of a request whose plans hold no block are owned.
LEMMA ScannedTokensOwned ==
  ASSUME EInv, phase = "inspect",
         \A i \in DOMAIN request : ~Has(TargetPlan(request[i]), "block")
  PROVE  /\ \A t \in BodyTokens : Owned(entries, Scope, t, now)
         /\ \A i \in DOMAIN request : \A j \in DOMAIN request[i].findings :
              MayPass(request[i], request[i].findings[j])
<1>1. /\ entries = before.entries /\ LedgerOK(entries, sequence)
      /\ body = [i \in DOMAIN request |-> request[i].text]
      /\ \A i \in DOMAIN request : WellFormed(request[i])
  BY RequestIs DEF EInv, Typed, Fresh
<1>2. ASSUME NEW i \in DOMAIN request, NEW j \in DOMAIN request[i].findings
      PROVE  /\ MayPass(request[i], request[i].findings[j])
             /\ request[i].findings[j].data_class = TokenClass =>
                  \E t \in DOMAIN entries :
                    /\ Slice(request[i].text, request[i].findings[j]) = <<t>>
                    /\ Owned(entries, Scope, t, now)
  <2>1. WellFormed(request[i])
    BY <1>1
  <2>2. request[i].findings[j].data_class \in Classes /\ request[i].mode \in Modes
    BY <2>1, FindingOf DEF WellFormed
  <2>3. FindingAction(request[i], request[i].findings[j]) # "block"
    BY <2>1, NothingBlocked
  <2> QED BY <1>1, <2>2, <2>3, UnblockedMayPass
<1>3. ASSUME NEW t \in BodyTokens PROVE Owned(entries, Scope, t, now)
  <2>1. PICK i \in DOMAIN body : \E p \in DOMAIN body[i] : body[i][p] = t
    BY DEF BodyTokens
  <2>2. i \in DOMAIN request /\ body[i] = request[i].text
    BY <1>1, <2>1
  <2> DEFINE text == request[i].text
  <2>3. PICK p \in DOMAIN text : text[p] = t
    BY <2>1, <2>2
  <2>4. t \in Token
    BY DEF BodyTokens
  <2>5. PICK j \in DOMAIN request[i].findings :
          /\ request[i].findings[j].data_class = TokenClass
          /\ request[i].findings[j].start = p /\ request[i].findings[j].end = p + 1
    BY <1>1, <2>2, <2>3, <2>4 DEF WellFormed
  <2>6. text \in Seq(Range(text))
    BY <1>1, <2>2 DEF WellFormed
  <2>7. PICK u \in DOMAIN entries :
          /\ Slice(text, request[i].findings[j]) = <<u>>
          /\ Owned(entries, Scope, u, now)
    BY <1>2, <2>2, <2>5
  <2>8. Slice(text, request[i].findings[j]) = <<text[p]>>
    <3> DEFINE f == request[i].findings[j]
    <3> HIDE DEF text, f
    <3>1. f.start = p /\ f.end = p + 1
      BY <2>5 DEF f
    <3>2. Slice(text, f) = <<text[p]>>
      BY <2>3, <2>6, <3>1, SliceOne
    <3> QED BY <3>2 DEF f
  <2>9. u = t
    BY <2>3, <2>7, <2>8
  <2> QED BY <2>7, <2>9
<1> QED BY <1>2, <1>3

\* The scan: what is blocked ends here, what goes on is cleared and in order.
LEMMA ScanStep ==
  ASSUME EInv, Scan
  PROVE  EInv'
<1> DEFINE ps == [i \in DOMAIN request |-> TargetPlan(request[i])]
<1>1. /\ phase = "inspect" /\ plans' = ps
      /\ IF \E i \in DOMAIN ps : Has(ps[i], "block")
         THEN phase' = "blocked" ELSE phase' = "rewrite" /\ work' = RewriteOrder(ps)
      /\ entries' = entries \/ entries' = purge_expired(entries, now)
      /\ sequence' = sequence /\ clock' = clock
      /\ request' = request /\ now' = now /\ created' = created
      /\ body' = body /\ before' = before
  BY DEF Scan
<1>2. /\ LedgerOK(entries, sequence) /\ LedgerOK(entries', sequence)
      /\ DOMAIN entries' \subseteq DOMAIN entries
      /\ \A t \in DOMAIN entries' : entries'[t] = entries[t]
  BY <1>1, PurgeOK DEF EInv, Typed
<1>3. /\ entries = before.entries /\ sequence = before.sequence
      /\ body = [i \in DOMAIN request |-> request[i].text]
  BY <1>1 DEF EInv, Fresh
<1>4. /\ request \in Seq(Range(request))
      /\ \A i \in DOMAIN request : WellFormed(request[i])
  BY <1>1, RequestIs DEF EInv
<1>5. Typed'
  BY <1>1, <1>2 DEF EInv, Typed, Results
<1>6. CASE \E i \in DOMAIN ps : Has(ps[i], "block")
  <2>1. phase' = "blocked"
    BY <1>1, <1>6
  <2>2. UnforwardedLeavesNoMapping'
    BY <1>1, <1>3, <2>1 DEF UnforwardedLeavesNoMapping
  <2>3. Fresh' /\ Cleared' /\ Traced' /\ Pending' /\ Live'
    BY <2>1 DEF Fresh, Cleared, Traced, Pending, Live
  <2> QED BY <1>5, <2>2, <2>3 DEF EInv
<1>7. CASE ~\E i \in DOMAIN ps : Has(ps[i], "block")
  <2>1. phase' = "rewrite" /\ work' = RewriteOrder(ps)
    BY <1>1, <1>7
  <2>2. \A i \in DOMAIN request : ~Has(TargetPlan(request[i]), "block")
    BY <1>7
  <2>3. /\ \A t \in BodyTokens : Owned(entries, Scope, t, now)
        /\ \A i \in DOMAIN request : \A j \in DOMAIN request[i].findings :
             MayPass(request[i], request[i].findings[j])
    BY <1>1, <2>2, ScannedTokensOwned
  <2>4. Cleared'
    BY <1>1, <2>3 DEF Cleared, MayPass
  <2>5. Traced'
    BY <1>1, <1>2, <1>3 DEF Traced, SameBinding
  <2>6. Live'
    <3>1. \A t \in BodyTokens : Owned(entries', Scope, t, now)
      BY <1>1, <2>3, PurgeKeepsOwned
    <3> QED BY <1>1, <3>1 DEF Live, BodyTokens
  <2>7. work' \in Seq(Items) /\ Descending(work')
    <3>1. DOMAIN ps = DOMAIN request /\ \A i \in DOMAIN ps : ps[i] = TargetPlan(request[i])
      OBVIOUS
    <3>2. \A i \in DOMAIN ps :
            /\ ps[i] \in Seq(Finding(Classes)) /\ Apart(ps[i])
            /\ \A j \in DOMAIN ps[i] : /\ 1 <= ps[i][j].start
                                       /\ ps[i][j].end <= Len(request[i].text) + 1
      BY <1>4, <3>1, PlanIs
    <3> HIDE DEF ps
    <3> QED BY <1>4, <2>1, <3>1, <3>2, RewriteOrderIs
  <2>8. Pending'
    <3>1. DOMAIN body = DOMAIN request /\ \A i \in DOMAIN request : body[i] = request[i].text
      BY <1>3
    <3>2. \A i \in DOMAIN request : body[i] \in Seq(Atoms(i))
      <4> SUFFICES ASSUME NEW i \in DOMAIN request PROVE body[i] \in Seq(Atoms(i))
        OBVIOUS
      <4> DEFINE R == Range(request[i].text)
      <4>1. body[i] \in Seq(R)
        BY <1>4, <3>1 DEF WellFormed
      <4>2. R \subseteq Atoms(i)
        BY DEF Atoms
      <4> HIDE DEF R
      <4> QED BY <4>1, <4>2
    <3>3. \A k \in DOMAIN work' :
            work'[k].finding.end <= Len(body[work'[k].target]) + 1
      <4> SUFFICES ASSUME NEW k \in DOMAIN work'
                   PROVE  work'[k].finding.end <= Len(body[work'[k].target]) + 1
        OBVIOUS
      <4>1. work'[k] \in Items
        BY <2>7
      <4> QED BY <3>1, <4>1, ItemIs
    <3> QED BY <1>1, <2>7, <3>1, <3>2, <3>3, SameRequest DEF Pending
  <2>9. Fresh' /\ UnforwardedLeavesNoMapping'
    BY <2>1 DEF Fresh, UnforwardedLeavesNoMapping
  <2> QED BY <1>5, <2>4, <2>5, <2>6, <2>8, <2>9 DEF EInv
<1> QED BY <1>6, <1>7

\* An allowed finding is left in the text.
LEMMA SkipStep ==
  ASSUME EInv, SkipAllowed
  PROVE  EInv'
<1>1. /\ phase = "rewrite" /\ work # <<>> /\ work' = Tail(work)
      /\ entries' = entries /\ sequence' = sequence /\ clock' = clock
      /\ phase' = phase /\ request' = request /\ now' = now
      /\ created' = created /\ body' = body /\ before' = before
  BY DEF SkipAllowed, ledger
<1>2. Typed' /\ Fresh' /\ Cleared' /\ Traced' /\ Live' /\ UnforwardedLeavesNoMapping'
  BY <1>1 DEF EInv, Typed, Fresh, Cleared, MayPass, Traced, Live, BodyTokens,
              UnforwardedLeavesNoMapping
<1>3. Pending'
  <2> DEFINE z == Tail(work)
  <2>1. /\ work \in Seq(Items) /\ Descending(work) /\ DOMAIN body = DOMAIN request
        /\ \A i \in DOMAIN request : body[i] \in Seq(Atoms(i))
        /\ \A k \in DOMAIN work : work[k].finding.end <= Len(body[work[k].target]) + 1
    BY <1>1 DEF EInv, Pending
  <2>2. /\ z \in Seq(Items) /\ Descending(z)
        /\ \A k \in DOMAIN z : k + 1 \in DOMAIN work /\ z[k] = work[k + 1]
    BY <1>1, <2>1, TakeHead, TailDescends
  <2> HIDE DEF z
  <2>3. work' = z
    BY <1>1 DEF z
  <2> QED BY <1>1, <2>1, <2>2, <2>3, SameRequest DEF Pending
<1> QED BY <1>2, <1>3 DEF EInv

\* A mask takes the place of the finding at the head.
LEMMA MaskStep ==
  ASSUME EInv, MaskFinding
  PROVE  EInv'
<1> DEFINE i == Head(work).target
           f == Head(work).finding
           x == Mask(f.data_class)
<1>1. /\ phase = "rewrite" /\ work # <<>> /\ work' = Tail(work)
      /\ body' = HeadReplaced(x)
      /\ entries' = entries /\ sequence' = sequence /\ clock' = clock
      /\ phase' = phase /\ request' = request /\ now' = now
      /\ created' = created /\ before' = before
  BY DEF MaskFinding, HeadReplaced, ledger
<1>2. Typed' /\ Fresh' /\ Cleared' /\ Traced' /\ UnforwardedLeavesNoMapping'
  BY <1>1 DEF EInv, Typed, Fresh, Cleared, MayPass, Traced,
              UnforwardedLeavesNoMapping
<1>3. work \in Seq(Items) /\ Pending
  BY <1>1 DEF EInv, Pending
<1>4. Head(work) \in Items
  BY <1>1, <1>3, TakeHead
<1>5. x \in Atoms(i)
  <2>1. f.data_class \in Classes
    BY <1>4, ItemIs
  <2> QED BY <2>1 DEF Atoms
<1>6. request \in Seq(Range(request))
  BY <1>1, RequestIs DEF EInv
<1> HIDE DEF x
<1>7. Rewritten(body', x)
  BY <1>1, <1>3, <1>5, <1>6, ReplaceHead
<1>8. Pending'
  BY <1>1, <1>7, SameRequest DEF Pending, Rewritten
<1>9. Live'
  <2>1. x \notin Token
    BY MaskNoToken DEF x
  <2>2. BodyTokens' \subseteq BodyTokens
    BY <1>7, <2>1 DEF BodyTokens, Rewritten
  <2> QED BY <1>1, <2>2 DEF EInv, Live
<1> QED BY <1>2, <1>8, <1>9 DEF EInv

\* What a new token leaves of Live.
LEMMA IssueLive ==
  ASSUME NEW L, NEW seq, LedgerOK(L, seq), NEW c, NEW v, NEW at \in Instant,
         NEW ttl \in Nat \ {0},
         NEW r \in issue_tracked(L, seq, Scope, c, v, at, ttl), r.token # NoToken,
         NEW S,
         \/ \A t \in S : Owned(L, Scope, t, at)
         \/ /\ Cardinality(DOMAIN L) = MaxEntries
            /\ \A t \in DOMAIN L : L[t].expires_at > at
  PROVE  \/ \A t \in S \cup {r.token} : Owned(r.entries, Scope, t, at)
         \/ /\ Cardinality(DOMAIN r.entries) = MaxEntries
            /\ \A t \in DOMAIN r.entries : r.entries[t].expires_at > at
<1> DEFINE E == r.entries
<1>1. /\ \A t \in DOMAIN E :
           \/ t = r.token
           \/ t \in DOMAIN L /\ SameBinding(E[t], L[t])
      /\ Owned(E, Scope, r.token, at)
      /\ \A t \in DOMAIN E : E[t].expires_at > at
      /\ \A t \in DOMAIN L : L[t].expires_at > at =>
           t \in DOMAIN E \/ Cardinality(DOMAIN E) = MaxEntries
      /\ /\ Cardinality(DOMAIN L) = MaxEntries
         /\ \A t \in DOMAIN L : L[t].expires_at > at
         => Cardinality(DOMAIN E) = MaxEntries
  BY IssueMappings, ZenonT(60)
<1> HIDE DEF E
<1>2. CASE Cardinality(DOMAIN E) = MaxEntries
  BY <1>1, <1>2 DEF E
<1>3. CASE Cardinality(DOMAIN E) # MaxEntries
  <2>1. \A t \in S : Owned(L, Scope, t, at)
    BY <1>1, <1>3
  <2>2. ASSUME NEW t \in S PROVE Owned(E, Scope, t, at)
    <3>1. t \in DOMAIN L /\ L[t].scope = Scope /\ L[t].expires_at > at
      BY <2>1 DEF Owned
    <3>2. t \in DOMAIN E
      BY <1>1, <1>3, <3>1
    <3> QED BY <1>1, <3>1, <3>2 DEF Owned, SameBinding
  <2> QED BY <1>1, <2>2 DEF E
<1> QED BY <1>2, <1>3

\* What rollback_created leaves when every mapping is traced.
LEMMA RollbackTraced ==
  ASSUME NEW L, NEW seq, LedgerOK(L, seq), NEW B, NEW tokens,
         \A t \in DOMAIN L : \/ t \in tokens /\ L[t].scope = Scope
                             \/ t \in DOMAIN B /\ SameBinding(L[t], B[t]),
         NEW R, R = rollback_created(L, Scope, tokens)
  PROVE  /\ LedgerOK(R, seq) /\ DOMAIN R \subseteq DOMAIN B
         /\ \A t \in DOMAIN R : SameBinding(R[t], B[t])
<1> DEFINE K == {t \in DOMAIN L : ~(t \in tokens /\ L[t].scope = Scope)}
<1>1. R = Restrict(L, K) /\ K \in SUBSET DOMAIN L
  BY DEF rollback_created
<1>2. seq \in 0..MaxSequence /\ seq <= seq
  BY ConstantsAssumption DEF LedgerOK
<1>3. \A t \in K : t \in DOMAIN B /\ SameBinding(L[t], B[t])
  OBVIOUS
<1> HIDE DEF K
<1>4. DOMAIN R = K /\ (\A t \in K : R[t] = L[t]) /\ LedgerOK(R, seq)
  BY <1>1, <1>2, RestrictOK
<1> QED BY <1>3, <1>4

\* A token takes the place of the finding at the head, or the issue fails and
\* everything created is rolled back.
LEMMA TokenizeStep ==
  ASSUME EInv, TokenizeFinding
  PROVE  EInv'
<1> DEFINE i == Head(work).target
           f == Head(work).finding
           v == Slice(request[i].text, f)
           c == f.data_class
<1>1. PICK r \in issue_tracked(entries, sequence, Scope, c, v, now, Ttl[c]) :
        /\ sequence' = r.sequence
        /\ IF r.token = NoToken
           THEN /\ phase' = "rejected"
                /\ entries' = rollback_created(r.entries, Scope, created)
                /\ created' = created
           ELSE /\ entries' = r.entries
                /\ created' = IF r.created THEN created \cup {r.token} ELSE created
                /\ body' = HeadReplaced(r.token)
                /\ work' = Tail(work) /\ phase' = phase
  BY DEF TokenizeFinding, HeadReplaced
<1>2. /\ phase = "rewrite" /\ work # <<>>
      /\ clock' = clock /\ request' = request /\ now' = now /\ before' = before
  BY DEF TokenizeFinding
<1>3. /\ work \in Seq(Items) /\ Pending /\ LedgerOK(entries, sequence)
      /\ created \subseteq Token
  BY <1>2 DEF EInv, Typed, Pending
<1>4. Head(work) \in Items
  BY <1>2, <1>3, TakeHead
<1>5. /\ i \in DOMAIN request /\ c \in Classes /\ f.start \in Nat /\ f.end \in Nat
      /\ 1 <= f.start /\ f.start < f.end /\ f.end <= Len(request[i].text) + 1
  BY <1>4, ItemIs
<1>6. request \in Seq(Range(request)) /\ WellFormed(request[i])
  BY <1>2, <1>5, RequestIs DEF EInv
<1>7. v \in Values
  <2> DEFINE n == Len(request[i].text)
             a == f.start
             b == f.end
  <2>1. n \in Nat
    <3>1. request[i].text \in Seq(Range(request[i].text))
      BY <1>6 DEF WellFormed
    <3> QED BY <3>1
  <2>2. \A from, to \in 1..n + 1 : SubSeq(request[i].text, from, to - 1) \in Values
    BY <1>6 DEF WellFormed
  <2>3. v = SubSeq(request[i].text, a, b - 1)
    BY DEF Slice
  <2>4. a \in Nat /\ b \in Nat /\ 1 <= a /\ a < b /\ b <= n + 1
    BY <1>5
  <2> HIDE DEF n, a, b, v
  <2>5. a \in 1..n + 1 /\ b \in 1..n + 1
    BY <2>1, <2>4
  <2> QED BY <2>2, <2>3, <2>5
<1>8. now \in Instant /\ Ttl[c] \in Nat \ {0} /\ Scope \in Scopes
  <2>1. clock \in 0..MaxTime /\ now \in 0..clock
    BY DEF EInv, Typed, Instant
  <2>2. now \in 0..MaxTime
    BY <2>1, ConstantsAssumption
  <2>3. Ttl[c] \in Nat \ {0}
    BY <1>5, PolicyAssumption
  <2> QED BY <2>2, <2>3, PolicyAssumption DEF Instant
<1> HIDE DEF i, f, v, c
<1>9. LedgerOK(r.entries, r.sequence)
  BY <1>3, <1>5, <1>7, <1>8, IssueOK
<1>10. /\ \A t \in DOMAIN r.entries :
            \/ r.created /\ t = r.token /\ r.entries[t].scope = Scope
            \/ t \in DOMAIN entries /\ SameBinding(r.entries[t], entries[t])
       /\ r.token = NoToken => ~r.created
       /\ r.token # NoToken => r.token \in Token
  BY <1>3, <1>8, IssueMappings
<1>11. \A t \in DOMAIN entries :
         \/ t \in created /\ entries[t].scope = Scope
         \/ t \in DOMAIN before.entries /\ SameBinding(entries[t], before.entries[t])
  BY <1>2 DEF EInv, Traced
<1>12. CASE r.token = NoToken
  <2>1. /\ phase' = "rejected" /\ created' = created
        /\ entries' = rollback_created(r.entries, Scope, created)
    BY <1>1, <1>12
  <2>2. \A t \in DOMAIN r.entries :
          \/ t \in created /\ r.entries[t].scope = Scope
          \/ /\ t \in DOMAIN before.entries
             /\ SameBinding(r.entries[t], before.entries[t])
    BY <1>10, <1>11, <1>12 DEF SameBinding
  <2>3. /\ LedgerOK(entries', sequence') /\ DOMAIN entries' \subseteq DOMAIN before.entries
        /\ \A t \in DOMAIN entries' : SameBinding(entries'[t], before.entries[t])
    BY <1>1, <1>9, <2>1, <2>2, RollbackTraced
  <2>4. Typed'
    BY <1>2, <2>1, <2>3 DEF EInv, Typed, Results
  <2>5. UnforwardedLeavesNoMapping'
    BY <1>2, <2>1, <2>3 DEF UnforwardedLeavesNoMapping
  <2>6. Fresh' /\ Cleared' /\ Traced' /\ Pending' /\ Live'
    BY <2>1 DEF Fresh, Cleared, Traced, Pending, Live
  <2> QED BY <2>4, <2>5, <2>6 DEF EInv
<1>13. CASE r.token # NoToken
  <2>1. /\ entries' = r.entries
        /\ created' = IF r.created THEN created \cup {r.token} ELSE created
        /\ body' = HeadReplaced(r.token) /\ work' = Tail(work) /\ phase' = "rewrite"
    BY <1>1, <1>2, <1>13
  <2>2. Typed'
    <3>1. created' \subseteq Token
      BY <1>3, <1>10, <1>13, <2>1
    <3> QED BY <1>1, <1>2, <1>9, <2>1, <3>1 DEF EInv, Typed
  <2>3. Fresh' /\ Cleared' /\ UnforwardedLeavesNoMapping'
    BY <1>2, <2>1 DEF EInv, Fresh, Cleared, MayPass, UnforwardedLeavesNoMapping
  <2>4. Traced'
    <3>1. \A t \in DOMAIN r.entries :
            \/ t \in created' /\ r.entries[t].scope = Scope
            \/ /\ t \in DOMAIN before.entries
               /\ SameBinding(r.entries[t], before.entries[t])
      BY <1>10, <1>11, <2>1 DEF SameBinding
    <3> QED BY <1>2, <2>1, <3>1 DEF Traced
  <2>5. Rewritten(body', r.token)
    <3>1. r.token \in Atoms(Head(work).target)
      BY <1>10, <1>13 DEF Atoms
    <3> QED BY <1>2, <1>3, <1>6, <2>1, <3>1, ReplaceHead
  <2>6. Pending'
    BY <1>2, <2>1, <2>5, SameRequest DEF Pending, Rewritten
  <2>7. Live'
    <3>1. \/ \A t \in BodyTokens : Owned(entries, Scope, t, now)
          \/ /\ Cardinality(DOMAIN entries) = MaxEntries
             /\ \A t \in DOMAIN entries : entries[t].expires_at > now
      BY <1>2 DEF EInv, Live
    <3>2. \/ \A t \in BodyTokens \cup {r.token} : Owned(r.entries, Scope, t, now)
          \/ /\ Cardinality(DOMAIN r.entries) = MaxEntries
             /\ \A t \in DOMAIN r.entries : r.entries[t].expires_at > now
      BY <1>3, <1>8, <1>13, <3>1, IssueLive
    <3>3. BodyTokens' \subseteq BodyTokens \cup {r.token}
      BY <2>5 DEF BodyTokens, Rewritten
    <3> QED BY <1>2, <2>1, <3>2, <3>3 DEF Live
  <2> QED BY <2>2, <2>3, <2>4, <2>6, <2>7 DEF EInv
<1> QED BY <1>12, <1>13

\* Any other failure of apply_rewrites: everything created is rolled back.
LEMMA RewriteFailsStep ==
  ASSUME EInv, RewriteFails
  PROVE  EInv'
<1>1. /\ phase = "rewrite" /\ phase' = "rejected"
      /\ entries' = rollback_created(entries, Scope, created)
      /\ sequence' = sequence /\ clock' = clock /\ request' = request
      /\ now' = now /\ created' = created /\ before' = before
  BY DEF RewriteFails, job
<1>2. /\ LedgerOK(entries, sequence)
      /\ \A t \in DOMAIN entries :
           \/ t \in created /\ entries[t].scope = Scope
           \/ t \in DOMAIN before.entries /\ SameBinding(entries[t], before.entries[t])
  BY <1>1 DEF EInv, Typed, Traced
<1>3. /\ LedgerOK(entries', sequence) /\ DOMAIN entries' \subseteq DOMAIN before.entries
      /\ \A t \in DOMAIN entries' : SameBinding(entries'[t], before.entries[t])
  BY <1>1, <1>2, RollbackTraced
<1>4. Typed'
  BY <1>1, <1>3 DEF EInv, Typed, Results
<1>5. UnforwardedLeavesNoMapping'
  BY <1>1, <1>3 DEF UnforwardedLeavesNoMapping
<1>6. Fresh' /\ Cleared' /\ Traced' /\ Pending' /\ Live'
  BY <1>1 DEF Fresh, Cleared, Traced, Pending, Live
<1> QED BY <1>4, <1>5, <1>6 DEF EInv

\* The body is sealed.
LEMMA SerializeStep ==
  ASSUME EInv, Serialize
  PROVE  EInv'
<1>1. /\ phase = "rewrite" /\ phase' = "forward"
      /\ entries' = entries /\ sequence' = sequence /\ clock' = clock
      /\ request' = request /\ now' = now /\ created' = created
      /\ body' = body /\ before' = before
  BY DEF Serialize, ledger, job
<1>2. Typed'
  BY <1>1 DEF EInv, Typed, Results
<1>3. Cleared' /\ Live'
  BY <1>1 DEF EInv, Cleared, MayPass, Live, BodyTokens
<1>4. Fresh' /\ Traced' /\ Pending' /\ UnforwardedLeavesNoMapping'
  BY <1>1 DEF Fresh, Traced, Pending, UnforwardedLeavesNoMapping
<1> QED BY <1>2, <1>3, <1>4 DEF EInv

\* The call ends.
LEMMA FinishStep ==
  ASSUME EInv, Finish
  PROVE  EInv'
<1>1. /\ phase' = "idle" /\ entries' = entries /\ sequence' = sequence
      /\ clock' = clock /\ now' = 0 /\ created' = {}
  BY DEF Finish, ledger
<1>2. Typed'
  <2>1. clock \in 0..MaxTime
    BY DEF EInv, Typed, Instant
  <2>2. 0 \in 0..clock
    BY <2>1, ConstantsAssumption
  <2> QED BY <1>1, <2>2 DEF EInv, Typed
<1>3. Fresh' /\ Cleared' /\ Traced' /\ Pending' /\ Live' /\ UnforwardedLeavesNoMapping'
  BY <1>1 DEF Fresh, Cleared, Traced, Pending, Live, UnforwardedLeavesNoMapping
<1> QED BY <1>2, <1>3 DEF EInv

\* A text is restored for display between two calls.
LEMMA DisplayStepKeeps ==
  ASSUME EInv, NEW text \in Displays, NEW at, RestoreDisplayText(text, at)
  PROVE  EInv'
<1> DEFINE r == restore_display_text(entries, sequence, text, at)
<1>1. /\ phase = "idle" /\ phase' = "idle"
      /\ entries' = r.entries /\ sequence' = r.sequence /\ clock' = clock
      /\ now' = now /\ created' = created
  BY DEF RestoreDisplayText, job
<1>2. text \in Seq(Range(text))
  BY InputsAssumption
<1>3. Len(text) \in Nat
  BY <1>2
<1>4. LedgerOK(r.entries, r.sequence)
  BY <1>3, DisplayOK DEF EInv, Typed
<1> HIDE DEF r
<1>5. Typed'
  BY <1>1, <1>4 DEF EInv, Typed
<1>6. Fresh' /\ Cleared' /\ Traced' /\ Pending' /\ Live' /\ UnforwardedLeavesNoMapping'
  BY <1>1 DEF Fresh, Cleared, Traced, Pending, Live, UnforwardedLeavesNoMapping
<1> QED BY <1>5, <1>6 DEF EInv

\* A step that changes nothing.
LEMMA StutterStep ==
  ASSUME EInv, UNCHANGED vars
  PROVE  EInv'
<1>1. /\ entries' = entries /\ sequence' = sequence /\ clock' = clock
      /\ phase' = phase /\ request' = request /\ now' = now /\ work' = work
      /\ created' = created /\ body' = body /\ before' = before
  BY DEF vars
<1>2. Typed' /\ Fresh' /\ Cleared' /\ Traced' /\ Live' /\ UnforwardedLeavesNoMapping'
  BY <1>1 DEF EInv, Typed, Fresh, Cleared, MayPass, Traced, Live, BodyTokens,
              UnforwardedLeavesNoMapping
<1>3. Pending'
  BY <1>1, SameRequest DEF EInv, Pending
<1> QED BY <1>2, <1>3 DEF EInv

\* Every step keeps the invariant.
LEMMA NextEInv ==
  ASSUME EInv, [Next]_vars
  PROVE  EInv'
<1>1. CASE Tick
  BY <1>1, TickStep
<1>2. CASE \E req \in Requests : BeginProtect(req)
  BY <1>2, BeginStep
<1>3. CASE RejectUnparsed \/ RejectScan \/ ScanPanics
  BY <1>3, RejectStep
<1>4. CASE Scan
  BY <1>4, ScanStep
<1>5. CASE SkipAllowed
  BY <1>5, SkipStep
<1>6. CASE MaskFinding
  BY <1>6, MaskStep
<1>7. CASE TokenizeFinding
  BY <1>7, TokenizeStep
<1>8. CASE RewriteFails
  BY <1>8, RewriteFailsStep
<1>9. CASE Serialize
  BY <1>9, SerializeStep
<1>10. CASE Finish
  BY <1>10, FinishStep
<1>11. CASE \E text \in Displays, at \in 0..clock : RestoreDisplayText(text, at)
  BY <1>11, DisplayStepKeeps
<1>12. CASE UNCHANGED vars
  BY <1>12, StutterStep
<1> QED BY <1>1, <1>2, <1>3, <1>4, <1>5, <1>6, <1>7, <1>8, <1>9, <1>10, <1>11,
           <1>12 DEF Next

-----------------------------------------------------------------------------

\* EInv holds in every state of the engine.
THEOREM EngineInvariant == Spec => []EInv
<1>1. Init => EInv
  BY InitEInv
<1>2. EInv /\ [Next]_vars => EInv'
  BY NextEInv
<1> QED BY <1>1, <1>2, PTL DEF Spec

\* HardNeverForwarded: a body is forwarded only if every hard-blocked finding
\* in it is a token literal this session owned, for every validated policy and
\* every overlap of findings that resolve_overlaps has to merge.
THEOREM HardNeverForwardedHolds == Spec => []HardNeverForwarded
<1>1. EInv => HardNeverForwarded
  BY DEF EInv, Cleared, HardNeverForwarded
<1> QED BY <1>1, EngineInvariant, PTL

\* UnforwardedLeavesNoMapping: a refused request leaves no mapping behind, at
\* whatever finding apply_rewrites stopped, also when issuing for it evicted or
\* reused mappings of earlier requests.
THEOREM UnforwardedLeavesNoMappingHolds == Spec => []UnforwardedLeavesNoMapping
<1>1. EInv => UnforwardedLeavesNoMapping
  BY DEF EInv
<1> QED BY <1>1, EngineInvariant, PTL

\* DanglingOnlyWhenFull: a token in a forwarded body is dead only if the
\* ledger is full, for every capacity and every number of findings.
THEOREM DanglingOnlyWhenFullHolds == Spec => []DanglingOnlyWhenFull
<1>1. EInv => DanglingOnlyWhenFull
  BY DEF EInv, Live, DanglingOnlyWhenFull, DanglingTokens
<1> QED BY <1>1, EngineInvariant, PTL

-----------------------------------------------------------------------------
\* What a concatenation is.
LEMMA ConcatIs ==
  ASSUME NEW A, NEW u \in Seq(A), NEW v \in Seq(A)
  PROVE  /\ u \o v \in Seq(A) /\ Len(u \o v) = Len(u) + Len(v)
         /\ Len(u) \in Nat /\ Len(v) \in Nat
         /\ DOMAIN (u \o v) = 1..Len(u) + Len(v)
         /\ \A q \in 1..Len(u) : (u \o v)[q] = u[q]
         /\ \A q \in 1..Len(v) : (u \o v)[Len(u) + q] = v[q]
<1>1. Len(u) \in Nat /\ Len(v) \in Nat
  OBVIOUS
<1>2. u \o v \in Seq(A) /\ Len(u \o v) = Len(u) + Len(v)
  BY <1>1
<1>3. DOMAIN (u \o v) = 1..Len(u) + Len(v)
  BY <1>2
<1>4. \A q \in 1..Len(u) : (u \o v)[q] = u[q]
  BY <1>1
<1>5. \A q \in 1..Len(v) : (u \o v)[Len(u) + q] = v[q]
  BY <1>1
<1> QED BY <1>1, <1>2, <1>3, <1>4, <1>5

\* The same for a name of the concatenation.
LEMMA Joined ==
  ASSUME NEW A, NEW a1, NEW a2, NEW a3, a1 \in Seq(A), a2 \in Seq(A), a3 = a1 \o a2
  PROVE  /\ a3 \in Seq(A) /\ Len(a3) = Len(a1) + Len(a2)
         /\ Len(a1) \in Nat /\ Len(a2) \in Nat
         /\ \A q \in 1..Len(a1) : a3[q] = a1[q]
         /\ \A q \in 1..Len(a2) : a3[Len(a1) + q] = a2[q]
BY ConcatIs

\* Sequences with the same atoms are equal.
LEMMA SameAtoms ==
  ASSUME NEW A, NEW u \in Seq(A), NEW v \in Seq(A), Len(u) = Len(v),
         \A q \in 1..Len(u) : u[q] = v[q]
  PROVE  u = v
OBVIOUS

\* Concatenation is associative.
LEMMA ConcatThree ==
  \A A : \A u, v, w \in Seq(A) : (u \o v) \o w = u \o (v \o w)
<1> SUFFICES ASSUME NEW A, NEW u \in Seq(A), NEW v \in Seq(A), NEW w \in Seq(A)
             PROVE  (u \o v) \o w = u \o (v \o w)
  OBVIOUS
<1> DEFINE x == u \o v
           y == v \o w
           l == x \o w
           r == u \o y
           a == Len(u)
           b == Len(v)
           c == Len(w)
<1>1. /\ a \in Nat /\ b \in Nat /\ x \in Seq(A) /\ Len(x) = a + b
      /\ \A q \in 1..a : x[q] = u[q]
      /\ \A q \in 1..b : x[a + q] = v[q]
  BY ConcatIs
<1>2. /\ c \in Nat /\ y \in Seq(A) /\ Len(y) = b + c
      /\ \A q \in 1..b : y[q] = v[q]
      /\ \A q \in 1..c : y[b + q] = w[q]
  BY ConcatIs
<1> HIDE DEF x, y
<1>3. /\ l \in Seq(A) /\ Len(l) = Len(x) + c
      /\ \A q \in 1..Len(x) : l[q] = x[q]
      /\ \A q \in 1..c : l[Len(x) + q] = w[q]
  <2>1. x \in Seq(A)
    BY <1>1
  <2> QED BY <2>1, ConcatIs
<1>4. /\ r \in Seq(A) /\ Len(r) = a + Len(y)
      /\ \A q \in 1..a : r[q] = u[q]
      /\ \A q \in 1..Len(y) : r[a + q] = y[q]
  <2>1. y \in Seq(A)
    BY <1>2
  <2> QED BY <2>1, ConcatIs
<1> HIDE DEF l, r, a, b, c
<1>5. ASSUME NEW q \in 1..a + b + c PROVE l[q] = r[q]
  <2>1. CASE q <= a
    <3>1. q \in 1..a /\ q \in 1..a + b
      BY <1>1, <1>2, <2>1
    <3> QED BY <1>1, <1>3, <1>4, <3>1
  <2>2. CASE a < q /\ q <= a + b
    <3>1. q - a \in 1..b /\ q - a \in 1..b + c /\ q \in 1..a + b /\ a + (q - a) = q
      BY <1>1, <1>2, <2>2
    <3>2. l[q] = v[q - a]
      BY <1>1, <1>3, <3>1
    <3>3. r[q] = v[q - a]
      BY <1>2, <1>4, <3>1
    <3> QED BY <3>2, <3>3
  <2>3. CASE a + b < q
    <3>1. /\ q - (a + b) \in 1..c /\ (a + b) + (q - (a + b)) = q
          /\ q - a \in 1..b + c /\ a + (q - a) = q /\ b + (q - (a + b)) = q - a
      BY <1>1, <1>2, <2>3
    <3>2. l[q] = w[q - (a + b)]
      BY <1>1, <1>3, <3>1
    <3>3. r[q] = w[q - (a + b)]
      BY <1>2, <1>4, <3>1
    <3> QED BY <3>2, <3>3
  <2> QED BY <1>1, <1>2, <2>1, <2>2, <2>3
<1>6. Len(l) = a + b + c /\ Len(r) = a + b + c
  BY <1>1, <1>2, <1>3, <1>4
<1>7. l = r
  BY <1>3, <1>4, <1>5, <1>6, SameAtoms
<1> QED BY <1>7 DEF l, r, x, y

\* Texts and concatenation under names of their own, so that the provers use
\* the laws below instead of the definitions.
Texts(A) == Seq(A)

Cat(u, v) == u \o v

Part(text, a, b) == SubSeq(text, a, b)

\* Two texts make a text.
LEMMA CatText ==
  ASSUME NEW A, NEW u \in Texts(A), NEW v \in Texts(A)
  PROVE  Cat(u, v) \in Texts(A)
BY DEF Cat, Texts

\* Concatenation is associative.
LEMMA CatThree ==
  ASSUME NEW A, NEW u \in Texts(A), NEW v \in Texts(A), NEW w \in Texts(A)
  PROVE  Cat(Cat(u, v), w) = Cat(u, Cat(v, w))
BY ConcatThree DEF Cat, Texts

\* The empty text is neutral.
LEMMA CatNone ==
  ASSUME NEW A, NEW u \in Texts(A)
  PROVE  Cat(<<>>, u) = u /\ Cat(u, <<>>) = u
BY DEF Cat, Texts

\* A text falls into the parts before and from a position.
LEMMA PartsOf ==
  ASSUME NEW A, NEW text \in Seq(A), NEW a \in Nat, NEW c \in Nat,
         1 <= a, a <= c, c <= Len(text) + 1
  PROVE  /\ SubSeq(text, a, c - 1) \in Seq(A)
         /\ Len(SubSeq(text, a, c - 1)) = c - a
         /\ \A q \in 1..c - a : SubSeq(text, a, c - 1)[q] = text[a + q - 1]
         /\ SubSeq(text, 1, c - 1) = SubSeq(text, 1, a - 1) \o SubSeq(text, a, c - 1)
<1> DEFINE n == Len(text)
           u == SubSeq(text, 1, a - 1)
           v == SubSeq(text, a, c - 1)
           w == SubSeq(text, 1, c - 1)
<1>0. n \in Nat /\ c <= n + 1
  OBVIOUS
<1>1. u \in Seq(A) /\ Len(u) = a - 1 /\ \A q \in 1..a - 1 : u[q] = text[q]
  BY <1>0
<1>2. v \in Seq(A) /\ Len(v) = c - a /\ \A q \in 1..c - a : v[q] = text[a + q - 1]
  BY <1>0
<1>3. w \in Seq(A) /\ Len(w) = c - 1 /\ \A q \in 1..c - 1 : w[q] = text[q]
  BY <1>0
<1> HIDE DEF n, u, v, w
<1>4. /\ u \o v \in Seq(A) /\ Len(u \o v) = (a - 1) + (c - a)
      /\ \A q \in 1..a - 1 : (u \o v)[q] = u[q]
      /\ \A q \in 1..c - a : (u \o v)[(a - 1) + q] = v[q]
  <2>1. u \in Seq(A) /\ v \in Seq(A) /\ Len(u) = a - 1 /\ Len(v) = c - a
    BY <1>1, <1>2
  <2> HIDE DEF u, v
  <2> DEFINE y == u \o v
  <2>2. y = u \o v
    OBVIOUS
  <2> HIDE DEF y
  <2>3. /\ y \in Seq(A) /\ Len(y) = Len(u) + Len(v)
        /\ \A q \in 1..Len(u) : y[q] = u[q]
        /\ \A q \in 1..Len(v) : y[Len(u) + q] = v[q]
    <3>1. u \in Seq(A) /\ v \in Seq(A)
      BY <2>1
    <3> QED BY <3>1, <2>2, Joined
  <2> QED BY <2>1, <2>3, Zenon DEF y
<1>5. ASSUME NEW q \in 1..c - 1 PROVE w[q] = (u \o v)[q]
  <2>1. CASE q \in 1..a - 1
    BY <1>1, <1>3, <1>4, <2>1
  <2>2. CASE q \notin 1..a - 1
    <3>1. q - (a - 1) \in 1..c - a /\ (a - 1) + (q - (a - 1)) = q
          /\ a + (q - (a - 1)) - 1 = q
      BY <2>2
    <3>2. (u \o v)[q] = v[q - (a - 1)]
      BY <1>4, <3>1
    <3>3. v[q - (a - 1)] = text[q]
      BY <1>2, <3>1
    <3> QED BY <1>3, <3>2, <3>3
  <2> QED BY <2>1, <2>2
<1>6. Len(u \o v) = c - 1
  BY <1>4
<1>7. w = u \o v
  BY <1>3, <1>4, <1>5, <1>6, SameAtoms
<1> QED BY <1>2, <1>7 DEF u, v, w

\* Replacing a span of the part of a text that is not yet rewritten: the rest
\* of that part and what was rewritten behind it stay.
LEMMA ReplaceIn ==
  ASSUME NEW A, NEW text \in Texts(A), NEW s \in Texts(A), NEW v \in Texts(A),
         NEW d \in Nat, NEW f, f.start \in Nat, f.end \in Nat, 1 <= f.start,
         f.start < f.end, f.end <= d + 1, d <= Len(text)
  PROVE  replace_range(Cat(Part(text, 1, d), s), f, v)
           = Cat(Part(text, 1, f.start - 1), Cat(v, Cat(Part(text, f.end, d), s)))
<1> USE DEF Texts
<1> SUFFICES replace_range(SubSeq(text, 1, d) \o s, f, v)
               = SubSeq(text, 1, f.start - 1) \o (v \o (SubSeq(text, f.end, d) \o s))
  BY DEF Cat, Part
<1> DEFINE c == d + 1
           a == f.start
           b == f.end
           pre == SubSeq(text, 1, d)
           w == pre \o s
           left == SubSeq(text, 1, a - 1)
           mid == SubSeq(text, b, d)
           wl == SubSeq(w, 1, a - 1)
           wr == SubSeq(w, b, Len(w))
<1>0. /\ a \in Nat /\ b \in Nat /\ 1 <= a /\ a < b /\ b <= c /\ c <= Len(text) + 1
      /\ Len(text) \in Nat /\ c \in Nat /\ d = c - 1
  OBVIOUS
<1> HIDE DEF c
<1>1. /\ pre \in Seq(A) /\ Len(pre) = c - 1 /\ \A q \in 1..c - 1 : pre[q] = text[q]
      /\ left \in Seq(A) /\ Len(left) = a - 1 /\ \A q \in 1..a - 1 : left[q] = text[q]
  <2>1. SubSeq(text, 1, c - 1) \in Seq(A) /\ Len(SubSeq(text, 1, c - 1)) = c - 1
        /\ \A q \in 1..c - 1 : SubSeq(text, 1, c - 1)[q] = text[q]
    BY <1>0
  <2>2. left \in Seq(A) /\ Len(left) = a - 1 /\ \A q \in 1..a - 1 : left[q] = text[q]
    BY <1>0, SMTT(30)
  <2> QED BY <1>0, <2>1, <2>2
<1>2. mid \in Seq(A) /\ Len(mid) = c - b /\ \A q \in 1..c - b : mid[q] = text[b + q - 1]
  <2>1. b \in Nat /\ 1 <= b /\ b <= c /\ c <= Len(text) + 1
    BY <1>0
  <2> HIDE DEF b
  <2>2. SubSeq(text, b, c - 1) \in Seq(A) /\ Len(SubSeq(text, b, c - 1)) = c - b
        /\ \A q \in 1..c - b : SubSeq(text, b, c - 1)[q] = text[b + q - 1]
    BY <2>1, <1>0, PartsOf
  <2> QED BY <1>0, <2>2
<1>3. replace_range(w, f, v) = (wl \o v) \o wr
  BY DEF replace_range
<1> HIDE DEF pre, left, mid, w, a, b
<1>4. /\ w \in Seq(A) /\ Len(w) = (c - 1) + Len(s) /\ Len(s) \in Nat
      /\ \A q \in 1..c - 1 : w[q] = pre[q]
      /\ \A q \in 1..Len(s) : w[(c - 1) + q] = s[q]
  <2>1. pre \in Seq(A) /\ Len(pre) = c - 1
    BY <1>1
  <2>2. /\ w \in Seq(A) /\ Len(w) = Len(pre) + Len(s) /\ Len(s) \in Nat
        /\ \A q \in 1..Len(pre) : w[q] = pre[q]
        /\ \A q \in 1..Len(s) : w[Len(pre) + q] = s[q]
    <3>1. w = pre \o s
      BY DEF w
    <3>2. pre \in Seq(A)
      BY <2>1
    <3> QED BY <3>2, <3>1, Joined
  <2> QED BY <2>1, <2>2, Zenon
<1>5. wl = left
  <2>1. wl \in Seq(A) /\ Len(wl) = a - 1 /\ \A q \in 1..a - 1 : wl[q] = w[q]
    BY <1>0, <1>4
  <2> HIDE DEF wl
  <2>2. \A q \in 1..a - 1 : wl[q] = left[q]
    <3>1. \A q \in 1..a - 1 : q \in 1..c - 1
      BY <1>0
    <3> QED BY <1>1, <1>4, <2>1, <3>1
  <2> QED BY <1>1, <2>1, <2>2, SameAtoms
<1>6. wr = mid \o s
  <2> DEFINE m == Len(s)
             y == mid \o s
  <2>0. w \in Seq(A) /\ Len(w) \in Nat /\ b <= Len(w) + 1 /\ Len(w) = (c - 1) + m
    BY <1>0, <1>4, SMTT(30)
  <2>1. wr \in Seq(A) /\ Len(wr) = (c - 1) + m - b + 1
        /\ \A q \in 1..(c - 1) + m - b + 1 : wr[q] = w[b + q - 1]
    <3> DEFINE e == Len(w)
    <3>1. e \in Nat /\ e <= Len(w) /\ b <= e + 1
      BY <2>0
    <3> HIDE DEF e, m
    <3>2. SubSeq(w, b, e) \in Seq(A) /\ Len(SubSeq(w, b, e)) = e - b + 1
          /\ \A q \in 1..e - b + 1 : SubSeq(w, b, e)[q] = w[b + q - 1]
      BY <1>0, <2>0, <3>1
    <3>3. wr = SubSeq(w, b, e) /\ e = (c - 1) + m
      BY <2>0 DEF e
    <3> HIDE DEF wr
    <3>4. wr \in Seq(A) /\ Len(wr) = e - b + 1
          /\ \A q \in 1..e - b + 1 : wr[q] = w[b + q - 1]
      BY <3>2, <3>3, Zenon
    <3>5. e - b + 1 = (c - 1) + m - b + 1
      <4>1. m \in Nat /\ e \in Nat /\ b \in Nat
        BY <1>0, <1>4, <3>1 DEF m
      <4> QED BY <1>0, <3>3, <4>1
    <3> QED BY <3>4, <3>5, Zenon
  <2> HIDE DEF wr, y
  <2>2. /\ y \in Seq(A) /\ Len(y) = (c - b) + m
        /\ \A q \in 1..c - b : y[q] = mid[q]
        /\ \A q \in 1..m : y[(c - b) + q] = s[q]
    <3>1. mid \in Seq(A) /\ Len(mid) = c - b
      BY <1>2
    <3>2. /\ y \in Seq(A) /\ Len(y) = Len(mid) + m
          /\ \A q \in 1..Len(mid) : y[q] = mid[q]
          /\ \A q \in 1..m : y[Len(mid) + q] = s[q]
      <4>1. y = mid \o s
        BY DEF y
      <4>2. mid \in Seq(A)
        BY <3>1
      <4> QED BY <4>2, <4>1, Joined DEF m
    <3> QED BY <3>1, <3>2, Zenon
  <2> HIDE DEF m
  <2>3. ASSUME NEW q \in 1..(c - b) + m PROVE wr[q] = y[q]
    <3>0. m \in Nat
      BY <1>4 DEF m
    <3>1. CASE q \in 1..c - b
      <4>1. b + q - 1 \in 1..c - 1 /\ q \in 1..(c - 1) + m - b + 1
        BY <1>0, <3>0, <3>1
      <4>2. wr[q] = text[b + q - 1]
        BY <1>1, <1>4, <2>1, <4>1
      <4>3. y[q] = text[b + q - 1]
        BY <1>2, <2>2, <3>1
      <4> QED BY <4>2, <4>3
    <3>2. CASE q \notin 1..c - b
      <4>1. /\ q - (c - b) \in 1..m /\ (c - b) + (q - (c - b)) = q
            /\ b + q - 1 = (c - 1) + (q - (c - b)) /\ q \in 1..(c - 1) + m - b + 1
        BY <1>0, <3>0, <3>2
      <4>2. wr[q] = s[q - (c - b)]
        BY <1>4, <2>1, <4>1 DEF m
      <4>3. y[q] = s[q - (c - b)]
        BY <2>2, <4>1
      <4> QED BY <4>2, <4>3
    <3> QED BY <3>1, <3>2
  <2>4. Len(wr) = (c - b) + m /\ Len(y) = (c - b) + m
    BY <1>0, <1>4, <2>1, <2>2 DEF m
  <2>5. wr = y
    BY <2>1, <2>2, <2>3, <2>4, SameAtoms
  <2> QED BY <2>5 DEF y
<1>7. mid \o s \in Seq(A)
  BY <1>2, ConcatIs
<1>8. (left \o v) \o (mid \o s) = left \o (v \o (mid \o s))
  <2>1. left \in Seq(A)
    BY <1>1
  <2>2. left \in Texts(A) /\ v \in Texts(A) /\ mid \o s \in Texts(A)
    BY <1>7, <2>1 DEF Texts
  <2> DEFINE t == mid \o s
  <2> HIDE DEF t
  <2>3. left \in Texts(A) /\ v \in Texts(A) /\ t \in Texts(A)
    BY <2>2 DEF t
  <2>4. Cat(Cat(left, v), t) = Cat(left, Cat(v, t))
    BY <2>3, CatThree
  <2> QED BY <2>4, Zenon DEF t, Cat
<1> QED BY <1>3, <1>5, <1>6, <1>8 DEF w, pre, left, mid, a, b

\* The empty text is neutral.
LEMMA ConcatEmpty ==
  ASSUME NEW A, NEW u, u \in Seq(A)
  PROVE  <<>> \o u = u /\ u \o <<>> = u
<1>1. <<>> \in Seq(A) /\ Len(<<>>) = 0
  OBVIOUS
<1>2. <<>> \o u = u
  OBVIOUS
<1>3. u \o <<>> = u
  OBVIOUS
<1> QED BY <1>2, <1>3

\* g[i] is what the first i sequences are, one after the other.
Flattens(g, ss, N) ==
  /\ g[0] = <<>>
  /\ \A i \in 1..N : g[i] = g[i - 1] \o ss[i]
  /\ FlattenSeq(ss) = g[N]

\* FlattenSeq from the empty sequence on.
LEMMA Flattened ==
  ASSUME NEW A, NEW N \in Nat, NEW ss \in Seq(Seq(A)), Len(ss) = N
  PROVE  \E g : Flattens(g, ss, N) /\ \A i \in 0..N : g[i] \in Seq(A)
<1>1. CASE N = 0
  <2> DEFINE g == [i \in 0..0 |-> <<>>]
  <2>1. FlattenSeq(ss) = ss /\ ss = <<>>
    BY <1>1 DEF FlattenSeq
  <2>2. g[0] = <<>> /\ \A i \in 0..0 : g[i] \in Seq(A)
    OBVIOUS
  <2>3. \A i \in 1..0 : FALSE
    OBVIOUS
  <2> HIDE DEF g
  <2> QED BY <1>1, <2>1, <2>2, <2>3 DEF Flattens
<1>2. CASE N # 0
  <2>1. PICK h : /\ h[1] = ss[1]
                 /\ \A i \in 2..N : h[i] = h[i - 1] \o ss[i]
                 /\ FlattenSeq(ss) = h[N]
    BY <1>2, FlattenIs
  <2>2. \A i \in 1..N : ss[i] \in Seq(A)
    OBVIOUS
  <2> DEFINE g == [i \in 0..N |-> IF i = 0 THEN <<>> ELSE h[i]]
  <2>3. g[0] = <<>> /\ \A i \in 1..N : g[i] = h[i]
    BY <1>2
  <2> HIDE DEF g
  <2>4. \A i \in 1..N : g[i] = g[i - 1] \o ss[i]
    <3> SUFFICES ASSUME NEW i \in 1..N PROVE g[i] = g[i - 1] \o ss[i]
      OBVIOUS
    <3>1. CASE i = 1
      <4>1. <<>> \o ss[1] = ss[1] /\ 1 \in 1..N
        BY <2>2, <3>1, ConcatEmpty
      <4> QED BY <2>1, <2>3, <3>1, <4>1
    <3>2. CASE i # 1
      <4>1. i \in 2..N /\ i - 1 \in 1..N
        BY <3>2
      <4> QED BY <2>1, <2>3, <4>1
    <3> QED BY <3>1, <3>2
  <2> DEFINE Bad == {i \in 0..N : g[i] \notin Seq(A)}
  <2>5. Bad = {}
    <3> SUFFICES ASSUME Bad # {} PROVE FALSE
      OBVIOUS
    <3>1. PICK i \in Bad : \A m \in Bad : i <= m
      <4>1. Bad \in SUBSET Nat
        OBVIOUS
      <4> HIDE DEF Bad
      <4> QED BY <4>1, LeastNatural
    <3>2. i # 0
      <4>1. g[0] \in Seq(A)
        BY <2>3
      <4> QED BY <3>1, <4>1
    <3>3. i \in 1..N /\ i - 1 \in 0..N /\ ~(i <= i - 1)
      BY <3>2
    <3>4. g[i - 1] \in Seq(A)
      BY <3>1, <3>3
    <3>5. g[i] \in Seq(A)
      <4>1. g[i] = g[i - 1] \o ss[i] /\ ss[i] \in Seq(A)
        BY <2>2, <2>4, <3>3
      <4> HIDE DEF Bad
      <4> QED BY <3>4, <4>1, Joined
    <3> QED BY <3>5
  <2>6. N \in 0..N
    OBVIOUS
  <2>7. FlattenSeq(ss) = g[N]
    BY <1>2, <2>1, <2>3
  <2> QED BY <2>3, <2>4, <2>5, <2>7 DEF Flattens
<1> QED BY <1>1, <1>2

-----------------------------------------------------------------------------
(* What restore_display_text shows *)

\* The mappings that live at a clock reading, and what they stand for.
SameLive(E, held, at) ==
  /\ DOMAIN purge_expired(E, at) = DOMAIN held
  /\ \A t \in DOMAIN held : t \in DOMAIN E /\ SameBinding(E[t], held[t])

\* restore_exact leaves the live mappings and what they stand for.
LEMMA RestoreKeepsLive ==
  ASSUME NEW L, NEW seq, LedgerOK(L, seq), NEW s, NEW t, NEW at,
         NEW held, SameLive(L, held, at)
  PROVE  /\ SameLive(restore_exact(L, seq, s, t, at), held, at)
         /\ Owned(restore_exact(L, seq, s, t, at), s, t, at)
              <=> t \in DOMAIN held /\ held[t].scope = s
<1> DEFINE P == purge_expired(L, at)
           R == restore_exact(L, seq, s, t, at)
<1>1. /\ LedgerType(P) /\ DOMAIN P = DOMAIN held
      /\ DOMAIN P = {u \in DOMAIN L : L[u].expires_at > at}
      /\ \A u \in DOMAIN P : P[u] = L[u]
  <2>1. LedgerOK(P, seq) /\ \A u \in DOMAIN P : P[u] = L[u]
    BY PurgeOK
  <2>2. DOMAIN P = {u \in DOMAIN L : L[u].expires_at > at}
    BY PurgeDomain
  <2>3. DOMAIN P = DOMAIN held
    BY DEF SameLive
  <2> QED BY <2>1, <2>2, <2>3 DEF LedgerOK
<1>2. /\ DOMAIN R = DOMAIN P
      /\ \A u \in DOMAIN P : SameBinding(R[u], P[u]) /\ R[u].expires_at = P[u].expires_at
  <2>1. CASE Owned(P, s, t, at)
    <3>1. t \in DOMAIN P
      BY <2>1 DEF Owned
    <3>2. R = Touch(P, t, Saturate(seq), P[t].expires_at)
      BY <2>1 DEF restore_exact
    <3> HIDE DEF P, R
    <3> QED BY <1>1, <3>1, <3>2, TouchIs DEF SameBinding
  <2>2. CASE ~Owned(P, s, t, at)
    <3>1. R = P
      BY <2>2 DEF restore_exact
    <3> QED BY <3>1 DEF SameBinding
  <2> QED BY <2>1, <2>2
<1>3. \A u \in DOMAIN held : SameBinding(L[u], held[u])
  BY DEF SameLive
<1> HIDE DEF P, R
<1>4. \A u \in DOMAIN held : u \in DOMAIN R /\ SameBinding(R[u], held[u])
                             /\ R[u].expires_at > at
  BY <1>1, <1>2, <1>3 DEF SameBinding
<1>5. DOMAIN purge_expired(R, at) = DOMAIN held
  <2>1. DOMAIN purge_expired(R, at) = {u \in DOMAIN R : R[u].expires_at > at}
    BY PurgeDomain
  <2> QED BY <1>1, <1>2, <1>4, <2>1
<1> QED BY <1>1, <1>2, <1>4, <1>5 DEF SameLive, R, Owned, SameBinding

\* A position of a text as a text of its own.
LEMMA OnePosition ==
  ASSUME NEW A, NEW text \in Seq(A), NEW i \in 1..Len(text)
  PROVE  /\ SubSeq(text, i, i) = <<text[i]>> /\ SubSeq(text, i + 1, i) = <<>>
         /\ <<text[i]>> \in Seq(A)
<1> DEFINE one == SubSeq(text, i, i)
           x == <<text[i]>>
<1>1. one \in Seq(A) /\ Len(one) = 1 /\ one[1] = text[i] /\ text[i] \in A
  OBVIOUS
<1>2. x \in Seq(A) /\ Len(x) = 1 /\ x[1] = text[i]
  BY <1>1
<1>3. \A q \in 1..1 : q = 1
  OBVIOUS
<1>4. SubSeq(text, i + 1, i) = <<>>
  OBVIOUS
<1> HIDE DEF one, x
<1>5. \A q \in 1..Len(one) : one[q] = x[q]
  BY <1>1, <1>2, <1>3
<1>6. one = x
  BY <1>1, <1>2, <1>5, SameAtoms
<1> QED BY <1>2, <1>4, <1>6 DEF one, x

\* The parts of a text, in the laws' terms.
LEMMA PartLaws ==
  ASSUME NEW A, NEW text \in Texts(A)
  PROVE  /\ Len(text) \in Nat /\ DOMAIN text = 1..Len(text)
         /\ Part(text, 1, Len(text)) = text /\ Part(text, 1, 0) = <<>>
         /\ \A a \in 1..Len(text) + 1, b \in 0..Len(text) :
              Part(text, a, b) \in Texts(A)
         /\ \A i \in 1..Len(text) :
              /\ <<text[i]>> \in Texts(A)
              /\ Part(text, 1, i) = Cat(Part(text, 1, i - 1), <<text[i]>>)
              /\ Part(text, i + 1, i) = <<>>
<1>0. text \in Seq(A)
  BY DEF Texts
<1>1. Len(text) \in Nat /\ DOMAIN text = 1..Len(text)
  BY <1>0
<1>2. SubSeq(text, 1, Len(text)) = text
  BY <1>0, <1>1
<1>3. SubSeq(text, 1, 0) = <<>>
  BY <1>0
<1>4. ASSUME NEW a \in 1..Len(text) + 1, NEW b \in 0..Len(text)
      PROVE  SubSeq(text, a, b) \in Seq(A)
  BY <1>0, <1>1
<1>5. ASSUME NEW i \in 1..Len(text)
      PROVE  /\ <<text[i]>> \in Seq(A) /\ SubSeq(text, i + 1, i) = <<>>
             /\ SubSeq(text, 1, i) = SubSeq(text, 1, i - 1) \o <<text[i]>>
  <2>1. /\ SubSeq(text, i, i) = <<text[i]>> /\ SubSeq(text, i + 1, i) = <<>>
        /\ <<text[i]>> \in Seq(A)
    BY <1>0, OnePosition
  <2> DEFINE c == i + 1
  <2>2. c \in Nat /\ i \in Nat /\ 1 <= i /\ i <= c /\ c <= Len(text) + 1 /\ c - 1 = i
    BY <1>1
  <2> HIDE DEF c
  <2>3. SubSeq(text, 1, c - 1) = SubSeq(text, 1, i - 1) \o SubSeq(text, i, c - 1)
    BY <1>0, <2>2, PartsOf
  <2> QED BY <2>1, <2>2, <2>3
<1> QED BY <1>1, <1>2, <1>3, <1>4, <1>5 DEF Texts, Part, Cat

\* Where the rest of a text is rewritten, the next position is still its own.
LEMMA CatAt ==
  ASSUME NEW A, NEW text \in Texts(A), NEW i \in 1..Len(text), NEW s \in Texts(A)
  PROVE  Cat(Part(text, 1, i), s)[i] = text[i]
<1> DEFINE w == SubSeq(text, 1, i)
           y == w \o s
<1>1. w \in Seq(A) /\ s \in Seq(A) /\ Len(w) = i /\ w[i] = text[i] /\ i \in 1..i
  BY DEF Texts
<1>2. y = w \o s
  OBVIOUS
<1> HIDE DEF w, y
<1>3. w \in Seq(A) /\ s \in Seq(A)
  BY <1>1
<1>4. \A q \in 1..Len(w) : y[q] = w[q]
  BY <1>2, <1>3, Joined
<1>5. y[i] = text[i]
  BY <1>1, <1>4
<1> QED BY <1>5 DEF y, w, Cat, Part

\* Showing one position: the text before it stays, so does what was rewritten.
LEMMA ShowPosition ==
  ASSUME NEW A, NEW text \in Texts(A), NEW i \in 1..Len(text), NEW s \in Texts(A),
         NEW v \in Texts(A)
  PROVE  replace_range(Cat(Part(text, 1, i), s), [start |-> i, end |-> i + 1], v)
           = Cat(Part(text, 1, i - 1), Cat(v, s))
<1> DEFINE f == [start |-> i, end |-> i + 1]
<1>1. /\ f.start = i /\ f.end = i + 1 /\ i \in Nat /\ i + 1 \in Nat /\ 1 <= i
      /\ i < i + 1 /\ i + 1 <= i + 1 /\ i <= Len(text)
  BY PartLaws
<1> HIDE DEF f
<1>2. replace_range(Cat(Part(text, 1, i), s), f, v)
        = Cat(Part(text, 1, f.start - 1), Cat(v, Cat(Part(text, f.end, i), s)))
  BY <1>1, ReplaceIn
<1>3. Part(text, f.end, i) = <<>> /\ Cat(<<>>, s) = s
  <2>1. Part(text, i + 1, i) = <<>>
    BY PartLaws
  <2>2. Cat(<<>>, s) = s
    BY CatNone
  <2> QED BY <1>1, <2>1, <2>2
<1> QED BY <1>1, <1>2, <1>3 DEF f

\* FlattenSeq in the laws' terms.
LEMMA FlattenLaws ==
  ASSUME NEW A, NEW N \in Nat, NEW ss, ss \in [1..N -> Texts(A)]
  PROVE  \E g : /\ g[0] = <<>> /\ FlattenSeq(ss) = g[N]
                /\ \A i \in 0..N : g[i] \in Texts(A)
                /\ \A i \in 1..N : g[i] = Cat(g[i - 1], ss[i])
<1>1. ss \in Seq(Seq(A)) /\ Len(ss) = N
  BY DEF Texts
<1>2. PICK g : Flattens(g, ss, N) /\ \A i \in 0..N : g[i] \in Seq(A)
  BY <1>1, Flattened
<1> QED BY <1>2 DEF Flattens, Texts, Cat

\* restore_display_text shows every atom of the text for itself, in place,
\* whatever the values before it and behind it are long.
LEMMA DisplayIs ==
  ASSUME NEW A, Values \subseteq Texts(A), NEW text \in Texts(A),
         NEW L, NEW seq, LedgerOK(L, seq), NEW at
  PROVE  restore_display_text(L, seq, text, at).text
           = FlattenSeq([p \in DOMAIN text |-> Seen(purge_expired(L, at), text[p])])
<1> DEFINE N == Len(text)
           held == purge_expired(L, at)
           ss == [p \in 1..N |-> Seen(held, text[p])]
           Step(h, k) == DisplayStep(h, L, seq, text, at, k)
           after == CHOOSE h : h = [k \in 0..N |-> Step(h, k)]
<1>1. restore_display_text(L, seq, text, at) = after[N]
  BY DEF restore_display_text, DisplayStep
<1>2. N \in Nat /\ DOMAIN text = 1..N
  BY PartLaws
<1>3. after = [k \in 0..N |-> Step(after, k)]
  BY <1>2, DisplayExists
<1> HIDE DEF after
<1>4. \A k \in 0..N : after[k] = Step(after, k)
  BY <1>3
<1>5. /\ DOMAIN held \subseteq Token /\ SameLive(L, held, at)
      /\ \A t \in DOMAIN held : held[t].value \in Texts(A)
  <2>1. LedgerOK(held, seq) /\ DOMAIN held \subseteq DOMAIN L
        /\ \A t \in DOMAIN held : held[t] = L[t]
    BY PurgeOK
  <2>2. DOMAIN held \subseteq Token /\ \A t \in DOMAIN held : held[t].value \in Values
    <3> HIDE DEF held
    <3> QED BY <2>1 DEF LedgerOK, LedgerType, Entry
  <2>3. SameLive(L, held, at)
    BY <2>1 DEF SameLive, SameBinding
  <2> QED BY <2>2, <2>3
<1>6. \A i \in 1..N : <<text[i]>> \in Texts(A)
  BY PartLaws
<1>7. ss \in [1..N -> Texts(A)] /\ \A i \in 1..N : ss[i] = Seen(held, text[i])
  <2>1. ASSUME NEW i \in 1..N PROVE Seen(held, text[i]) \in Texts(A)
    BY <1>5, <1>6 DEF Seen
  <2> QED BY <2>1
<1> HIDE DEF held, ss
<1>8. PICK g : /\ g[0] = <<>> /\ FlattenSeq(ss) = g[N]
               /\ \A i \in 0..N : g[i] \in Texts(A)
               /\ \A i \in 1..N : g[i] = Cat(g[i - 1], ss[i])
  BY <1>2, <1>7, FlattenLaws, SMTT(30)
<1> DEFINE Shown(acc, i) ==
             /\ LedgerOK(acc.entries, acc.sequence)
             /\ SameLive(acc.entries, held, at)
             /\ \E s \in Texts(A) : /\ acc.text = Cat(Part(text, 1, i), s)
                                    /\ Cat(g[i], s) = g[N]
           Good(k) == Shown(after[k], N - k)
           Bad == {k \in 0..N : ~Good(k)}
<1>9. Good(0)
  <2>1. after[0] = [entries |-> L, sequence |-> seq, text |-> text]
    <3>1. 0 \in 0..N
      BY <1>2
    <3> HIDE DEF N
    <3> QED BY <1>4, <3>1 DEF DisplayStep
  <2>2. <<>> \in Texts(A)
    BY DEF Texts
  <2>3. Part(text, 1, N) = text /\ g[N] \in Texts(A)
    BY <1>2, <1>8, PartLaws
  <2>4. Cat(text, <<>>) = text /\ Cat(g[N], <<>>) = g[N]
    BY <2>3, CatNone
  <2>5. N - 0 = N
    BY <1>2
  <2> QED BY <1>5, <2>1, <2>2, <2>3, <2>4, <2>5
<1>10. ASSUME NEW k \in 1..N, Good(k - 1) PROVE Good(k)
  <2> DEFINE i == N - k + 1
             acc == after[k - 1]
  <2>1. i \in 1..N /\ i = N - (k - 1) /\ i - 1 = N - k /\ k \in 0..N
    BY <1>2
  <2>2. after[k] = IF text[i] \in Token THEN RestoreAt(acc, i, at) ELSE acc
    BY <1>4, <2>1 DEF DisplayStep
  <2>3. Shown(acc, i)
    BY <1>10, <2>1
  <2> HIDE DEF acc, i
  <2>4. LedgerOK(acc.entries, acc.sequence) /\ SameLive(acc.entries, held, at)
    BY <2>3
  <2>5. PICK s \in Texts(A) : acc.text = Cat(Part(text, 1, i), s) /\ Cat(g[i], s) = g[N]
    BY <2>3
  <2> HIDE DEF Shown
  <2> DEFINE v == ss[i]
             one == <<text[i]>>
  <2>6. v \in Texts(A) /\ one \in Texts(A) /\ v = Seen(held, text[i])
    BY <1>6, <1>7, <2>1
  <2>7. /\ g[i - 1] \in Texts(A) /\ g[i] = Cat(g[i - 1], v)
        /\ Part(text, 1, i - 1) \in Texts(A)
        /\ Part(text, 1, i) = Cat(Part(text, 1, i - 1), one)
    <3>1. i - 1 \in 0..N /\ 1 \in 1..N + 1
      BY <1>2, <2>1
    <3>2. Part(text, 1, i - 1) \in Texts(A)
      BY <3>1, PartLaws
    <3>3. Part(text, 1, i) = Cat(Part(text, 1, i - 1), one)
      BY <2>1, PartLaws
    <3>4. g[i - 1] \in Texts(A) /\ g[i] = Cat(g[i - 1], v)
      BY <1>8, <2>1, <3>1
    <3> QED BY <3>2, <3>3, <3>4
  <2> HIDE DEF v, one
  <2>8. Cat(v, s) \in Texts(A) /\ Cat(g[i - 1], Cat(v, s)) = g[N]
    <3>1. Cat(v, s) \in Texts(A)
      BY <2>6, CatText
    <3>2. Cat(Cat(g[i - 1], v), s) = Cat(g[i - 1], Cat(v, s))
      BY <2>6, <2>7, CatThree
    <3> QED BY <2>5, <2>7, <3>1, <3>2
  <2>9. acc.text[i] = text[i]
    BY <2>1, <2>5, CatAt
  <2>10. CASE text[i] \in Token
    <3> DEFINE t == text[i]
               E == restore_exact(acc.entries, acc.sequence, Scope, t, at)
               new == RestoreAt(acc, i, at)
    <3>1. /\ new.entries = E /\ new.sequence = Saturate(acc.sequence)
          /\ new.text = IF Owned(E, Scope, t, at)
                        THEN replace_range(acc.text, [start |-> i, end |-> i + 1],
                                           E[t].value)
                        ELSE acc.text
      BY <2>9 DEF RestoreAt
    <3>2. LedgerOK(E, Saturate(acc.sequence))
      BY <2>4, RestoreOK
    <3>3. /\ SameLive(E, held, at)
          /\ Owned(E, Scope, t, at) <=> t \in DOMAIN held /\ held[t].scope = Scope
      BY <2>4, RestoreKeepsLive
    <3> HIDE DEF E, new
    <3>4. new.text = Cat(Part(text, 1, i - 1), Cat(v, s))
      <4>1. CASE Owned(E, Scope, t, at)
        <5>1. v = held[t].value /\ E[t].value = held[t].value
          BY <2>6, <3>3, <4>1 DEF Seen, SameLive, SameBinding
        <5>2. replace_range(Cat(Part(text, 1, i), s), [start |-> i, end |-> i + 1], v)
                = Cat(Part(text, 1, i - 1), Cat(v, s))
          BY <2>1, <2>6, ShowPosition
        <5> QED BY <2>5, <3>1, <4>1, <5>1, <5>2
      <4>2. CASE ~Owned(E, Scope, t, at)
        <5>1. v = one
          BY <2>6, <3>3, <4>2 DEF Seen, one
        <5>2. Cat(Cat(Part(text, 1, i - 1), one), s)
                = Cat(Part(text, 1, i - 1), Cat(one, s))
          BY <2>6, <2>7, CatThree
        <5> QED BY <2>5, <2>7, <3>1, <4>2, <5>1, <5>2
      <4> QED BY <4>1, <4>2
    <3>5. Shown(new, i - 1)
      BY <2>8, <3>1, <3>2, <3>3, <3>4 DEF Shown
    <3> QED BY <2>1, <2>2, <2>10, <3>5 DEF new
  <2>11. CASE text[i] \notin Token
    <3>1. v = one
      BY <1>5, <2>6, <2>11 DEF Seen, one
    <3>2. Cat(Cat(Part(text, 1, i - 1), one), s)
            = Cat(Part(text, 1, i - 1), Cat(one, s))
      BY <2>6, <2>7, CatThree
    <3>3. acc.text = Cat(Part(text, 1, i - 1), Cat(v, s))
      BY <2>5, <2>7, <3>1, <3>2
    <3>4. Shown(acc, i - 1)
      BY <2>4, <2>8, <3>3 DEF Shown
    <3> QED BY <2>1, <2>2, <2>11, <3>4
  <2> QED BY <2>10, <2>11
<1> HIDE DEF Good
<1>11. Bad = {}
  <2> SUFFICES ASSUME Bad # {} PROVE FALSE
    OBVIOUS
  <2>1. PICK k \in Bad : \A m \in Bad : k <= m
    <3>1. Bad \in SUBSET Nat
      OBVIOUS
    <3> HIDE DEF Bad
    <3> QED BY <3>1, LeastNatural
  <2>2. k # 0
    BY <1>9
  <2>3. k \in 1..N /\ k - 1 \in 0..N
    BY <1>2, <2>1, <2>2
  <2>4. Good(k - 1)
    BY <1>2, <2>1, <2>3
  <2> QED BY <1>10, <2>1, <2>3, <2>4
<1>12. after[N].text = g[N]
  <2>1. Good(N)
    BY <1>2, <1>11
  <2>2. N - N = 0 /\ Part(text, 1, 0) = <<>>
    BY <1>2, PartLaws
  <2>3. PICK s \in Texts(A) : after[N].text = Cat(<<>>, s) /\ Cat(<<>>, s) = g[N]
    BY <1>8, <2>1, <2>2 DEF Good
  <2> QED BY <2>3
<1>13. ss = [p \in DOMAIN text |-> Seen(held, text[p])]
  BY <1>2 DEF ss
<1> QED BY <1>1, <1>8, <1>12, <1>13 DEF held

\* Atoms and what all values are made of.
Letters(A) == A \cup UNION {Range(v) : v \in Values}

\* Texts and all values over one alphabet.
LEMMA LettersOf ==
  ASSUME NEW A
  PROVE  /\ Values \subseteq Texts(Letters(A)) /\ A \subseteq Letters(A)
         /\ \A u : u \in Texts(A) => u \in Texts(Letters(A))
<1> DEFINE B == Letters(A)
<1>1. \A S, u : S \subseteq B /\ u \in Seq(S) => u \in Seq(B)
  <2> HIDE DEF B
  <2> QED OBVIOUS
<1>2. A \subseteq B /\ \A v \in Values : Range(v) \subseteq B
  BY DEF Letters
<1>3. \A v \in Values : v \in Seq(Range(v))
  BY InputsAssumption
<1> HIDE DEF B
<1>4. \A v \in Values : v \in Seq(B)
  BY <1>1, <1>2, <1>3, Zenon
<1>5. \A u : u \in Seq(A) => u \in Seq(B)
  BY <1>1, <1>2, Zenon
<1> QED BY <1>2, <1>4, <1>5, Zenon DEF Texts, B

\* Nothing to display is shown as nothing.
LEMMA NoDisplayExact ==
  ASSUME NEW d, d = NoDisplay
  PROVE  d.shown = FlattenSeq([p \in DOMAIN d.text |-> Seen(d.held, d.text[p])])
<1>1. d.text = <<>> /\ d.shown = <<>>
  BY DEF NoDisplay
<1> DEFINE ss == [p \in DOMAIN d.text |-> Seen(d.held, d.text[p])]
<1>2. DOMAIN ss = {}
  BY <1>1
<1>3. ss = <<>>
  BY <1>2
<1> HIDE DEF ss
<1>4. FlattenSeq(ss) = <<>>
  BY <1>3 DEF FlattenSeq
<1> QED BY <1>1, <1>4 DEF ss

\* restore_display_text puts each value exactly where its token stood, and
\* leaves foreign and dead tokens as they are.
THEOREM DisplayExactHolds == Spec => []DisplayExact
<1>1. Init => DisplayExact
  BY NoDisplayExact DEF Init, DisplayExact
<1>2. EInv /\ DisplayExact /\ [Next]_vars => DisplayExact'
  <2> SUFFICES ASSUME EInv, DisplayExact, [Next]_vars PROVE DisplayExact'
    OBVIOUS
  <2>1. CASE display' = display
    BY <2>1 DEF DisplayExact
  <2>2. CASE display' = NoDisplay
    BY <2>2, NoDisplayExact DEF DisplayExact
  <2>3. ASSUME NEW text \in Displays, NEW at \in 0..clock, RestoreDisplayText(text, at)
        PROVE  DisplayExact'
    <3> DEFINE r == restore_display_text(entries, sequence, text, at)
               held == purge_expired(entries, at)
    <3>1. display' = [text |-> text, shown |-> r.text, held |-> held]
      BY <2>3 DEF RestoreDisplayText
    <3>2. LedgerOK(entries, sequence)
      BY DEF EInv, Typed
    <3>3. text \in Seq(Range(text))
      BY InputsAssumption
    <3> DEFINE A == Letters(Range(text))
    <3>4. text \in Texts(A) /\ Values \subseteq Texts(A)
      <4>1. text \in Texts(Range(text))
        BY <3>3 DEF Texts
      <4> QED BY <4>1, LettersOf
    <3> HIDE DEF A
    <3>5. r.text = FlattenSeq([p \in DOMAIN text |-> Seen(held, text[p])])
      BY <3>2, <3>4, DisplayIs
    <3> HIDE DEF r, held
    <3>6. display'.text = text /\ display'.shown = r.text /\ display'.held = held
      BY <3>1
    <3> QED BY <3>5, <3>6 DEF DisplayExact
  <2>4. \/ display' = display \/ display' = NoDisplay
        \/ \E text \in Displays, at \in 0..clock : RestoreDisplayText(text, at)
    BY DEF Next, vars, Tick, BeginProtect, RejectUnparsed, RejectScan, ScanPanics,
           ScanStops, Scan, SkipAllowed, MaskFinding, TokenizeFinding, RewriteFails,
           Serialize, Finish
  <2> QED BY <2>1, <2>2, <2>3, <2>4
<1> QED BY <1>1, <1>2, EngineInvariant, PTL DEF Spec

-----------------------------------------------------------------------------
(* The reference rewrite *)

\* The findings of a plan that are replaced.
Rewrites(plan) == {j \in DOMAIN plan : plan[j].action # "allow"}

\* What each position of a text leaves in its skeleton.
Pieces(text, plan) ==
  [p \in DOMAIN text |->
    LET over == {j \in Rewrites(plan) : Covers(plan[j], p)}
    IN  IF over = {} THEN <<text[p]>>
        ELSE LET f == plan[CHOOSE j \in over : TRUE]
             IN  IF f.start = p THEN <<Slot(f)>> ELSE <<>>]

\* A resolved plan of a text, and atoms for both it and its skeleton.
PlanOf(A, text, plan) ==
  /\ text \in Texts(A)
  /\ plan \in Seq(Finding(Classes)) /\ Apart(plan)
  /\ \A j \in DOMAIN plan : /\ 1 <= plan[j].start /\ plan[j].end <= Len(text) + 1
                            /\ Slot(plan[j]) \in A

\* g[p] is the skeleton of the first p positions.
Builds(g, A, text, plan) ==
  /\ g[0] = <<>> /\ FlattenSeq(Pieces(text, plan)) = g[Len(text)]
  /\ \A p \in 0..Len(text) : g[p] \in Texts(A)
  /\ \A p \in 1..Len(text) : g[p] = Cat(g[p - 1], Pieces(text, plan)[p])

\* The fields of the findings of a plan.
LEMMA PlanFields ==
  ASSUME NEW A, NEW text, NEW plan, PlanOf(A, text, plan), NEW j \in DOMAIN plan
  PROVE  /\ plan[j].start \in Nat /\ plan[j].end \in Nat
         /\ 1 <= plan[j].start /\ plan[j].start < plan[j].end
         /\ plan[j].end <= Len(text) + 1
BY FindingFields DEF PlanOf

\* The findings of a plan do not share a position.
LEMMA CoveredOnce ==
  ASSUME NEW A, NEW text, NEW plan, PlanOf(A, text, plan),
         NEW j \in DOMAIN plan, NEW k \in DOMAIN plan, NEW p \in Nat,
         Covers(plan[j], p), Covers(plan[k], p)
  PROVE  j = k
<1>1. \A i \in DOMAIN plan : i \in Nat
  <2>1. plan \in Seq(Finding(Classes))
    BY DEF PlanOf
  <2> QED BY <2>1
<1>2. Apart(plan)
  BY DEF PlanOf
<1>3. plan[j].start \in Nat /\ plan[j].end \in Nat /\ plan[k].start \in Nat /\ plan[k].end \in Nat
  BY PlanFields
<1>4. ~(j < k) /\ ~(k < j)
  BY <1>1, <1>2, <1>3 DEF Apart, Covers
<1> QED BY <1>1, <1>4

\* What a position leaves: itself where no finding is replaced, a slot where
\* one begins, and else nothing.
LEMMA PieceIs ==
  ASSUME NEW A, NEW text, NEW plan, PlanOf(A, text, plan), NEW p \in 1..Len(text)
  PROVE  /\ (\A j \in Rewrites(plan) : ~Covers(plan[j], p))
              => Pieces(text, plan)[p] = <<text[p]>>
         /\ \A j \in Rewrites(plan) : Covers(plan[j], p) =>
              Pieces(text, plan)[p] = IF plan[j].start = p THEN <<Slot(plan[j])>>
                                      ELSE <<>>
<1> DEFINE over == {j \in Rewrites(plan) : Covers(plan[j], p)}
<1>1. p \in DOMAIN text /\ p \in Nat
  BY PartLaws DEF PlanOf
<1>2. Pieces(text, plan)[p]
        = IF over = {} THEN <<text[p]>>
          ELSE IF plan[CHOOSE j \in over : TRUE].start = p
               THEN <<Slot(plan[CHOOSE j \in over : TRUE])>> ELSE <<>>
  BY <1>1 DEF Pieces
<1>3. ASSUME NEW j \in Rewrites(plan), Covers(plan[j], p)
      PROVE  over = {j}
  <2>1. j \in over /\ j \in DOMAIN plan
    BY <1>3 DEF Rewrites
  <2>2. \A k \in over : k \in DOMAIN plan /\ Covers(plan[k], p)
    BY DEF Rewrites
  <2>3. \A k \in over : k = j
    BY <1>1, <1>3, <2>1, <2>2, CoveredOnce
  <2> QED BY <2>1, <2>3
<1>4. \A j : (CHOOSE k \in {j} : TRUE) = j
  OBVIOUS
<1>5. (\A j \in Rewrites(plan) : ~Covers(plan[j], p)) => over = {}
  OBVIOUS
<1> HIDE DEF over
<1> QED BY <1>2, <1>3, <1>4, <1>5

\* What a position leaves is a text.
LEMMA PiecesType ==
  ASSUME NEW A, NEW text, NEW plan, PlanOf(A, text, plan)
  PROVE  Pieces(text, plan) \in [1..Len(text) -> Texts(A)]
<1> DEFINE N == Len(text)
           ss == Pieces(text, plan)
<1>1. text \in Texts(A) /\ N \in Nat /\ DOMAIN text = 1..N
  BY PartLaws DEF PlanOf
<1>2. ASSUME NEW p \in 1..N PROVE ss[p] \in Texts(A)
  <2>1. <<text[p]>> \in Texts(A) /\ <<>> \in Texts(A)
    BY <1>1, PartLaws DEF Texts
  <2>2. \A j \in DOMAIN plan : <<Slot(plan[j])>> \in Texts(A)
    <3>1. \A j \in DOMAIN plan : Slot(plan[j]) \in A
      BY DEF PlanOf
    <3> QED BY <3>1 DEF Texts
  <2>3. CASE \A j \in Rewrites(plan) : ~Covers(plan[j], p)
    BY <2>1, <2>3, PieceIs
  <2>4. CASE \E j \in Rewrites(plan) : Covers(plan[j], p)
    <3>1. PICK j \in Rewrites(plan) : Covers(plan[j], p)
      BY <2>4
    <3>2. ss[p] = IF plan[j].start = p THEN <<Slot(plan[j])>> ELSE <<>>
      BY <3>1, PieceIs
    <3>3. j \in DOMAIN plan
      BY DEF Rewrites
    <3> QED BY <2>1, <2>2, <3>2, <3>3
  <2> QED BY <2>3, <2>4
<1>3. ss = [p \in 1..N |-> ss[p]]
  BY <1>1 DEF Pieces
<1> HIDE DEF ss, N
<1>4. ss \in [1..N -> Texts(A)]
  BY <1>2, <1>3
<1> QED BY <1>4 DEF ss, N

\* The skeleton as a sequence of steps.
LEMMA SkeletonBuilds ==
  ASSUME NEW A, NEW text, NEW plan, PlanOf(A, text, plan)
  PROVE  \E g : Builds(g, A, text, plan)
<1> DEFINE N == Len(text)
           ss == Pieces(text, plan)
<1>1. N \in Nat
  BY PartLaws DEF PlanOf
<1>2. ss \in [1..N -> Texts(A)]
  BY PiecesType
<1> HIDE DEF ss, N
<1>3. PICK g : /\ g[0] = <<>> /\ FlattenSeq(ss) = g[N]
               /\ \A i \in 0..N : g[i] \in Texts(A)
               /\ \A i \in 1..N : g[i] = Cat(g[i - 1], ss[i])
  BY <1>1, <1>2, FlattenLaws, SMTT(30)
<1> QED BY <1>3 DEF Builds, ss, N

\* One position more of a part.
LEMMA PartGrows ==
  ASSUME NEW A, NEW text \in Texts(A), NEW a \in Nat, NEW p \in Nat,
         1 <= a, a <= p, p <= Len(text)
  PROVE  /\ Part(text, a, p) = Cat(Part(text, a, p - 1), <<text[p]>>)
         /\ Part(text, a, a - 1) = <<>>
         /\ Part(text, a, p) \in Texts(A) /\ Part(text, a, p - 1) \in Texts(A)
<1> DEFINE u == SubSeq(text, a, p - 1)
           x == <<text[p]>>
           y == u \o x
           w == SubSeq(text, a, p)
           m == p - a
<1>0. text \in Seq(A) /\ Len(text) \in Nat /\ text[p] \in A /\ m \in Nat
  BY DEF Texts
<1>1. u \in Seq(A) /\ Len(u) = m /\ \A q \in 1..m : u[q] = text[a + q - 1]
  BY <1>0
<1>2. x \in Seq(A) /\ Len(x) = 1 /\ x[1] = text[p]
  BY <1>0
<1>3. w \in Seq(A) /\ Len(w) = m + 1 /\ \A q \in 1..m + 1 : w[q] = text[a + q - 1]
  BY <1>0
<1>4. SubSeq(text, a, a - 1) = <<>>
  BY <1>0
<1>5. y = u \o x
  OBVIOUS
<1>6. a + (m + 1) - 1 = p
  OBVIOUS
<1> HIDE DEF u, x, y, w, m
<1>7. u \in Seq(A) /\ x \in Seq(A)
  BY <1>1, <1>2
<1>8. /\ y \in Seq(A) /\ Len(y) = Len(u) + Len(x)
      /\ \A q \in 1..Len(u) : y[q] = u[q]
      /\ \A q \in 1..Len(x) : y[Len(u) + q] = x[q]
  BY <1>5, <1>7, Joined
<1>9. \A q \in 1..m + 1 : w[q] = y[q]
  <2> SUFFICES ASSUME NEW q \in 1..m + 1 PROVE w[q] = y[q]
    OBVIOUS
  <2>1. CASE q \in 1..m
    BY <1>0, <1>1, <1>3, <1>8, <2>1
  <2>2. CASE q = m + 1
    <3>1. y[m + 1] = x[1]
      BY <1>0, <1>1, <1>2, <1>8
    <3>2. w[m + 1] = text[p]
      BY <1>3, <1>6, <2>2
    <3> QED BY <1>2, <2>2, <3>1, <3>2
  <2> QED BY <1>0, <2>1, <2>2
<1>10. w = y
  <2>1. Len(w) = Len(y) /\ Len(w) = m + 1
    BY <1>1, <1>2, <1>3, <1>8
  <2> QED BY <1>3, <1>8, <1>9, <2>1, SameAtoms
<1>11. w = u \o x
  BY <1>5, <1>10
<1> QED BY <1>1, <1>3, <1>4, <1>11 DEF u, x, w, Part, Cat, Texts

\* Steps that each add a position of the text add that part of it.
LEMMA LiteralRun ==
  ASSUME NEW A, NEW text \in Texts(A), NEW g, NEW lo \in 0..Len(text), NEW d \in lo..Len(text),
         g[lo] \in Texts(A), \A p \in lo + 1..d : g[p] = Cat(g[p - 1], <<text[p]>>)
  PROVE  g[d] = Cat(g[lo], Part(text, lo + 1, d))
<1> DEFINE N == Len(text)
           Good(p) == g[p] = Cat(g[lo], Part(text, lo + 1, p))
           Bad == {p \in lo..d : ~Good(p)}
<1>1. N \in Nat /\ lo \in Nat /\ d \in Nat /\ lo <= d /\ d <= N
  BY PartLaws
<1>2. Good(lo)
  <2>1. SubSeq(text, lo + 1, lo) = <<>>
    BY <1>1 DEF Texts
  <2>2. Cat(g[lo], <<>>) = g[lo]
    BY CatNone
  <2> QED BY <2>1, <2>2 DEF Part
<1>3. ASSUME NEW p \in lo + 1..d, Good(p - 1) PROVE Good(p)
  <2> DEFINE u == Part(text, lo + 1, p - 1)
             x == <<text[p]>>
  <2>1. p \in 1..N /\ p \in Nat /\ lo + 1 \in Nat /\ 1 <= lo + 1 /\ lo + 1 <= p /\ p <= N
    BY <1>1
  <2>2. Part(text, lo + 1, p) = Cat(u, x) /\ u \in Texts(A)
    BY <2>1, PartGrows
  <2>3. x \in Texts(A)
    BY <2>1, PartLaws
  <2>4. g[p] = Cat(g[p - 1], x)
    OBVIOUS
  <2> HIDE DEF u, x
  <2>5. Cat(Cat(g[lo], u), x) = Cat(g[lo], Cat(u, x))
    BY <2>2, <2>3, CatThree
  <2> QED BY <1>3, <2>2, <2>4, <2>5 DEF u
<1> HIDE DEF Good
<1>4. Bad = {}
  <2> SUFFICES ASSUME Bad # {} PROVE FALSE
    OBVIOUS
  <2>1. PICK p \in Bad : \A m \in Bad : p <= m
    <3>1. Bad \in SUBSET Nat
      BY <1>1
    <3> HIDE DEF Bad
    <3> QED BY <3>1, LeastNatural
  <2>2. p # lo
    BY <1>2
  <2>3. p \in lo + 1..d /\ p - 1 \in lo..d
    BY <1>1, <2>1, <2>2
  <2>4. Good(p - 1)
    BY <1>1, <2>1, <2>3
  <2> QED BY <1>3, <2>1, <2>3, <2>4
<1>5. Good(d)
  BY <1>1, <1>4
<1> QED BY <1>5 DEF Good

\* Positions where nothing is replaced are in the skeleton as they are.
LEMMA PlainRun ==
  ASSUME NEW A, NEW text, NEW plan, PlanOf(A, text, plan),
         NEW g, Builds(g, A, text, plan), NEW lo \in 0..Len(text), NEW d \in lo..Len(text),
         \A p \in lo + 1..d : \A j \in Rewrites(plan) : ~Covers(plan[j], p)
  PROVE  g[d] = Cat(g[lo], Part(text, lo + 1, d))
<1>1. text \in Texts(A) /\ Len(text) \in Nat
  BY PartLaws DEF PlanOf
<1>2. g[lo] \in Texts(A)
  BY DEF Builds
<1>3. ASSUME NEW p \in lo + 1..d PROVE g[p] = Cat(g[p - 1], <<text[p]>>)
  <2>1. p \in 1..Len(text)
    BY <1>1
  <2>2. Pieces(text, plan)[p] = <<text[p]>>
    BY <2>1, PieceIs
  <2> QED BY <2>1, <2>2 DEF Builds
<1> QED BY <1>1, <1>2, <1>3, LiteralRun

\* A replaced span is one slot in the skeleton.
LEMMA SpanRun ==
  ASSUME NEW A, NEW text, NEW plan, PlanOf(A, text, plan),
         NEW g, Builds(g, A, text, plan), NEW j \in Rewrites(plan)
  PROVE  \A p \in plan[j].start..plan[j].end - 1 :
           g[p] = Cat(g[plan[j].start - 1], <<Slot(plan[j])>>)
<1> DEFINE N == Len(text)
           a == plan[j].start
           b == plan[j].end
           x == <<Slot(plan[j])>>
           Good(p) == g[p] = Cat(g[a - 1], x)
           Bad == {p \in a..b - 1 : ~Good(p)}
<1>1. text \in Texts(A) /\ N \in Nat
  BY PartLaws DEF PlanOf
<1>2. a \in Nat /\ b \in Nat /\ 1 <= a /\ a < b /\ b <= N + 1 /\ j \in DOMAIN plan
  BY PlanFields DEF Rewrites
<1>3. g[a - 1] \in Texts(A) /\ x \in Texts(A)
  <2>1. a - 1 \in 0..N
    BY <1>1, <1>2
  <2>2. Slot(plan[j]) \in A
    BY <1>2 DEF PlanOf
  <2> QED BY <2>1, <2>2 DEF Builds, Texts
<1>4. ASSUME NEW p \in a..b - 1
      PROVE  p \in 1..N /\ Pieces(text, plan)[p] = IF a = p THEN x ELSE <<>>
  <2>1. p \in 1..N /\ Covers(plan[j], p)
    BY <1>1, <1>2 DEF Covers
  <2> QED BY <2>1, PieceIs
<1>5. \A p \in a..b - 1 : g[p] = Cat(g[p - 1], Pieces(text, plan)[p])
  BY <1>4 DEF Builds
<1>6. Good(a)
  <2>1. a \in a..b - 1
    BY <1>2
  <2> QED BY <1>4, <1>5, <2>1
<1>7. ASSUME NEW p \in a + 1..b - 1, Good(p - 1) PROVE Good(p)
  <2>1. p \in a..b - 1 /\ a # p
    BY <1>2
  <2>2. Cat(g[a - 1], x) \in Texts(A)
    BY <1>3, CatText
  <2>3. Cat(g[p - 1], <<>>) = g[p - 1]
    BY <1>7, <2>2, CatNone
  <2> QED BY <1>4, <1>5, <1>7, <2>1, <2>3
<1> HIDE DEF Good, a, b
<1>8. Bad = {}
  <2> SUFFICES ASSUME Bad # {} PROVE FALSE
    OBVIOUS
  <2>1. PICK p \in Bad : \A m \in Bad : p <= m
    <3>1. Bad \in SUBSET Nat
      BY <1>2
    <3> HIDE DEF Bad
    <3> QED BY <3>1, LeastNatural
  <2>2. p # a
    BY <1>6, <2>1
  <2>3. p \in a + 1..b - 1 /\ p - 1 \in a..b - 1
    BY <1>2, <2>1, <2>2
  <2>4. Good(p - 1)
    BY <1>2, <2>1, <2>3
  <2> QED BY <1>7, <2>1, <2>3, <2>4
<1> QED BY <1>8 DEF Good, a, b

\* Two texts of one length whose atoms are equal or paired in R.
Matched(s, z, R) ==
  /\ Len(s) = Len(z)
  /\ \A q \in DOMAIN s : s[q] = z[q] \/ <<s[q], z[q]>> \in R

\* Where an atom of a concatenation comes from.
LEMMA CatAtoms ==
  ASSUME NEW A, NEW u \in Texts(A), NEW s \in Texts(A)
  PROVE  /\ Len(u) \in Nat /\ Len(s) \in Nat
         /\ DOMAIN u = 1..Len(u) /\ DOMAIN s = 1..Len(s)
         /\ Len(Cat(u, s)) = Len(u) + Len(s)
         /\ DOMAIN Cat(u, s) = 1..Len(u) + Len(s)
         /\ \A q \in 1..Len(u) : Cat(u, s)[q] = u[q]
         /\ \A q \in 1..Len(s) : Cat(u, s)[Len(u) + q] = s[q]
         /\ \A q \in 1..Len(u) + Len(s) : q \notin 1..Len(u) =>
              q - Len(u) \in 1..Len(s) /\ Len(u) + (q - Len(u)) = q
<1>1. u \in Seq(A) /\ s \in Seq(A)
  BY DEF Texts
<1>2. /\ u \o s \in Seq(A) /\ Len(u \o s) = Len(u) + Len(s)
      /\ Len(u) \in Nat /\ Len(s) \in Nat
      /\ DOMAIN (u \o s) = 1..Len(u) + Len(s)
      /\ \A q \in 1..Len(u) : (u \o s)[q] = u[q]
      /\ \A q \in 1..Len(s) : (u \o s)[Len(u) + q] = s[q]
  BY <1>1, ConcatIs
<1>3. DOMAIN u = 1..Len(u) /\ DOMAIN s = 1..Len(s)
  BY <1>1
<1>4. \A q \in 1..Len(u) + Len(s) : q \notin 1..Len(u) =>
              q - Len(u) \in 1..Len(s) /\ Len(u) + (q - Len(u)) = q
  BY <1>2
<1> QED BY <1>2, <1>3, <1>4 DEF Cat

\* What is matched stays matched behind matched texts.
LEMMA MatchedCat ==
  ASSUME NEW A, NEW u \in Texts(A), NEW v \in Texts(A), NEW s \in Texts(A),
         NEW z \in Texts(A), NEW R, Matched(u, v, R), Matched(s, z, R)
  PROVE  Matched(Cat(u, s), Cat(v, z), R)
<1> DEFINE y == Cat(u, s)
           w == Cat(v, z)
           m == Len(u)
           n == Len(s)
<1>1. /\ m \in Nat /\ n \in Nat /\ DOMAIN u = 1..m /\ DOMAIN s = 1..n
      /\ Len(y) = m + n /\ DOMAIN y = 1..m + n
      /\ \A q \in 1..m : y[q] = u[q]
      /\ \A q \in 1..n : y[m + q] = s[q]
      /\ \A q \in 1..m + n : q \notin 1..m => q - m \in 1..n /\ m + (q - m) = q
  BY CatAtoms
<1>2. Len(v) = m /\ Len(z) = n
  BY DEF Matched
<1>3. /\ Len(w) = Len(v) + Len(z)
      /\ \A q \in 1..Len(v) : w[q] = v[q]
      /\ \A q \in 1..Len(z) : w[Len(v) + q] = z[q]
  BY CatAtoms
<1> HIDE DEF y, w, m, n
<1>4. /\ Len(w) = m + n
      /\ \A q \in 1..m : w[q] = v[q]
      /\ \A q \in 1..n : w[m + q] = z[q]
  BY <1>2, <1>3
<1>5. /\ \A q \in 1..m : u[q] = v[q] \/ <<u[q], v[q]>> \in R
      /\ \A q \in 1..n : s[q] = z[q] \/ <<s[q], z[q]>> \in R
  BY <1>1 DEF Matched
<1>6. ASSUME NEW q \in 1..m + n PROVE y[q] = w[q] \/ <<y[q], w[q]>> \in R
  <2>1. CASE q \in 1..m
    BY <1>1, <1>4, <1>5, <2>1
  <2>2. CASE q \notin 1..m
    <3>1. q - m \in 1..n /\ m + (q - m) = q
      BY <1>1, <2>2
    <3> DEFINE k == q - m
    <3>2. k \in 1..n /\ y[q] = s[k] /\ w[q] = z[k]
      BY <1>1, <1>4, <3>1
    <3> HIDE DEF k
    <3> QED BY <1>5, <3>2
  <2> QED BY <2>1, <2>2
<1> QED BY <1>1, <1>4, <1>6 DEF Matched, y, w

\* A text matches itself, and an atom what it is paired with.
LEMMA MatchedSelf ==
  ASSUME NEW A, NEW u \in Texts(A), NEW R
  PROVE  Matched(u, u, R) /\ Matched(<<>>, <<>>, R)
BY DEF Matched

\* One atom and its mark.
LEMMA MatchedOne ==
  ASSUME NEW x, NEW m, NEW R, <<x, m>> \in R
  PROVE  Matched(<<x>>, <<m>>, R)
<1>1. Len(<<x>>) = 1 /\ Len(<<m>>) = 1 /\ DOMAIN <<x>> = {1} /\ <<x>>[1] = x /\ <<m>>[1] = m
  OBVIOUS
<1> QED BY <1>1 DEF Matched

\* From that position on, what is not replaced is in both texts, at one place.
Kept(text, plan, from, s, z) ==
  \A p \in from..Len(text) : (\A j \in Rewrites(plan) : ~Covers(plan[j], p)) =>
    \E q \in DOMAIN s : s[q] = text[p] /\ z[q] = text[p]

\* Texts of one length in front change nothing about it.
LEMMA KeptBehind ==
  ASSUME NEW A, NEW u \in Texts(A), NEW v \in Texts(A), NEW s \in Texts(A),
         NEW z \in Texts(A), NEW R, Matched(u, v, R), Matched(s, z, R),
         NEW text, NEW plan, NEW from, Kept(text, plan, from, s, z)
  PROVE  Kept(text, plan, from, Cat(u, s), Cat(v, z))
<1> DEFINE y == Cat(u, s)
           w == Cat(v, z)
           m == Len(u)
           n == Len(s)
<1>1. /\ m \in Nat /\ n \in Nat /\ DOMAIN s = 1..n /\ DOMAIN y = 1..m + n
      /\ \A q \in 1..n : y[m + q] = s[q]
  BY CatAtoms
<1>2. \A q \in 1..Len(z) : w[Len(v) + q] = z[q]
  BY CatAtoms
<1>3. \A q \in 1..n : w[m + q] = z[q]
  BY <1>2 DEF Matched
<1>4. \A q \in 1..n : m + q \in 1..m + n
  BY <1>1
<1> HIDE DEF y, w, m, n
<1>5. \A q \in DOMAIN s : m + q \in DOMAIN y /\ y[m + q] = s[q] /\ w[m + q] = z[q]
  BY <1>1, <1>3, <1>4
<1> SUFFICES ASSUME NEW p \in from..Len(text), \A j \in Rewrites(plan) : ~Covers(plan[j], p)
             PROVE  \E q \in DOMAIN y : y[q] = text[p] /\ w[q] = text[p]
  BY DEF Kept, y, w
<1>6. PICK q \in DOMAIN s : s[q] = text[p] /\ z[q] = text[p]
  BY DEF Kept
<1> QED BY <1>5, <1>6

\* A part of the text in front keeps its own positions too.
LEMMA KeptPart ==
  ASSUME NEW A, NEW text \in Texts(A), NEW s \in Texts(A), NEW z \in Texts(A),
         NEW R, Matched(s, z, R), NEW plan, NEW a \in Nat, NEW d \in 0..Len(text),
         1 <= a, a <= d + 1, Kept(text, plan, d + 1, s, z)
  PROVE  Kept(text, plan, a, Cat(Part(text, a, d), s), Cat(Part(text, a, d), z))
<1> DEFINE u == Part(text, a, d)
           y == Cat(u, s)
           w == Cat(u, z)
<1>1. Len(text) \in Nat /\ d \in Nat /\ a \in 1..Len(text) + 1
  BY PartLaws
<1>2. u \in Texts(A)
  BY <1>1, PartLaws
<1>3. /\ Len(u) = d - a + 1
      /\ \A p \in a..d : p - a + 1 \in 1..d - a + 1 /\ u[p - a + 1] = text[p]
  BY <1>1 DEF Part, Texts
<1> HIDE DEF u
<1>4. /\ Len(u) \in Nat /\ DOMAIN y = 1..Len(u) + Len(s)
      /\ \A q \in 1..Len(u) : y[q] = u[q] /\ w[q] = u[q]
  BY <1>2, CatAtoms
<1>5. Len(s) \in Nat /\ \A q \in 1..Len(u) : q \in 1..Len(u) + Len(s)
  BY <1>2, <1>4, PartLaws
<1> HIDE DEF y, w
<1>6. ASSUME NEW p \in a..d PROVE \E q \in DOMAIN y : y[q] = text[p] /\ w[q] = text[p]
  <2> DEFINE q == p - a + 1
  <2>1. q \in 1..Len(u) /\ u[q] = text[p]
    BY <1>3
  <2> HIDE DEF q
  <2> QED BY <1>4, <1>5, <2>1
<1>7. Kept(text, plan, d + 1, y, w)
  <2>1. Matched(u, u, R)
    BY <1>2, MatchedSelf
  <2> QED BY <1>2, <2>1, KeptBehind DEF y, w
<1>8. \A p \in a..Len(text) : p \in a..d \/ p \in d + 1..Len(text)
  BY <1>1
<1> QED BY <1>6, <1>7, <1>8 DEF Kept, y, w, u

\* How far a text is rewritten: what is left of d is as it was and has its
\* replaced findings still to do; what is right of d matches the skeleton.
Rewriting(A, text, plan, out, todo, R) ==
  \E d \in 0..Len(text), s \in Texts(A), z \in Texts(A) : \E g :
    /\ out = Cat(Part(text, 1, d), s)
    /\ Builds(g, A, text, plan)
    /\ Cat(g[d], z) = g[Len(text)]
    /\ Matched(s, z, R) /\ Kept(text, plan, d + 1, s, z)
    /\ \A f \in todo : f.end <= d + 1
    /\ \A j \in Rewrites(plan) : plan[j].start <= d => plan[j] \in todo

\* Before the first replacement.
LEMMA RewritingStarts ==
  ASSUME NEW A, NEW text, NEW plan, PlanOf(A, text, plan), NEW todo, NEW R,
         \A f \in todo : \E j \in DOMAIN plan : f = plan[j],
         \A j \in Rewrites(plan) : plan[j] \in todo
  PROVE  Rewriting(A, text, plan, text, todo, R)
<1> DEFINE N == Len(text)
<1>1. text \in Texts(A) /\ N \in 0..N /\ Part(text, 1, N) = text /\ <<>> \in Texts(A)
  <2>1. text \in Texts(A)
    BY DEF PlanOf
  <2>2. N \in Nat /\ Part(text, 1, N) = text
    BY <2>1, PartLaws
  <2> QED BY <2>1, <2>2 DEF Texts
<1>2. PICK g : Builds(g, A, text, plan)
  BY SkeletonBuilds
<1>3. g[N] \in Texts(A)
  BY <1>1, <1>2 DEF Builds
<1>4. Cat(g[N], <<>>) = g[N] /\ text = Cat(Part(text, 1, N), <<>>)
  BY <1>1, <1>3, CatNone
<1>5. Matched(<<>>, <<>>, R)
  BY <1>1, MatchedSelf
<1>6. \A f \in todo : f.end <= N + 1
  BY PlanFields
<1>7. Kept(text, plan, N + 1, <<>>, <<>>)
  <2>1. N + 1..N = {}
    BY <1>1
  <2> QED BY <2>1 DEF Kept
<1> HIDE DEF N
<1> QED BY <1>1, <1>2, <1>4, <1>5, <1>6, <1>7 DEF Rewriting, N

\* A finding that is left as it is needs nothing done.
LEMMA RewritingSkips ==
  ASSUME NEW A, NEW text, NEW plan, NEW out, NEW todo, NEW R,
         Rewriting(A, text, plan, out, todo, R), NEW rest \in SUBSET todo,
         \A f \in todo \ rest : f.action = "allow"
  PROVE  Rewriting(A, text, plan, out, rest, R)
<1>1. PICK d \in 0..Len(text), s \in Texts(A), z \in Texts(A) : \E g :
        /\ out = Cat(Part(text, 1, d), s)
        /\ Builds(g, A, text, plan)
        /\ Cat(g[d], z) = g[Len(text)]
        /\ Matched(s, z, R) /\ Kept(text, plan, d + 1, s, z)
        /\ \A f \in todo : f.end <= d + 1
        /\ \A j \in Rewrites(plan) : plan[j].start <= d => plan[j] \in todo
  BY DEF Rewriting
<1>2. \A j \in Rewrites(plan) : plan[j].start <= d => plan[j] \in rest
  BY <1>1 DEF Rewrites
<1>3. \A f \in rest : f.end <= d + 1
  BY <1>1
<1> QED BY <1>1, <1>2, <1>3 DEF Rewriting

\* What is paired may change for the atoms that are not there.
LEMMA RewritingRepairs ==
  ASSUME NEW A, NEW text, NEW plan, PlanOf(A, text, plan), NEW out, NEW todo, NEW R,
         Rewriting(A, text, plan, out, todo, R), NEW S,
         \A p \in DOMAIN out : \A m : <<out[p], m>> \in R => <<out[p], m>> \in S
  PROVE  Rewriting(A, text, plan, out, todo, S)
<1>1. PICK d \in 0..Len(text), s \in Texts(A), z \in Texts(A) : \E g :
        /\ out = Cat(Part(text, 1, d), s)
        /\ Builds(g, A, text, plan)
        /\ Cat(g[d], z) = g[Len(text)]
        /\ Matched(s, z, R) /\ Kept(text, plan, d + 1, s, z)
        /\ \A f \in todo : f.end <= d + 1
        /\ \A j \in Rewrites(plan) : plan[j].start <= d => plan[j] \in todo
  BY DEF Rewriting
<1> DEFINE u == Part(text, 1, d)
<1>2. u \in Texts(A) /\ out = Cat(u, s)
  <2>1. text \in Texts(A)
    BY DEF PlanOf
  <2>2. 1 \in 1..Len(text) + 1
    BY <2>1, PartLaws
  <2> QED BY <1>1, <2>1, <2>2, PartLaws
<1> HIDE DEF u
<1>3. /\ DOMAIN s = 1..Len(s) /\ DOMAIN out = 1..Len(u) + Len(s)
      /\ Len(u) \in Nat /\ Len(s) \in Nat
      /\ \A q \in 1..Len(s) : out[Len(u) + q] = s[q]
  BY <1>2, CatAtoms, SMTT(30)
<1>4. \A q \in DOMAIN s : \E p \in DOMAIN out : out[p] = s[q]
  <2> SUFFICES ASSUME NEW q \in DOMAIN s PROVE \E p \in DOMAIN out : out[p] = s[q]
    OBVIOUS
  <2>1. Len(u) + q \in 1..Len(u) + Len(s) /\ q \in 1..Len(s)
    BY <1>3
  <2> QED BY <1>3, <2>1
<1>5. Matched(s, z, S)
  <2>1. Len(s) = Len(z) /\ \A q \in DOMAIN s : s[q] = z[q] \/ <<s[q], z[q]>> \in R
    BY <1>1 DEF Matched
  <2>2. \A q \in DOMAIN s : <<s[q], z[q]>> \in R => <<s[q], z[q]>> \in S
    <3> SUFFICES ASSUME NEW q \in DOMAIN s, <<s[q], z[q]>> \in R PROVE <<s[q], z[q]>> \in S
      OBVIOUS
    <3>1. PICK p \in DOMAIN out : out[p] = s[q]
      BY <1>4
    <3> DEFINE m == z[q]
    <3>2. <<out[p], m>> \in R
      BY <3>1
    <3> HIDE DEF m
    <3>3. <<out[p], m>> \in S
      BY <3>2
    <3> QED BY <3>1, <3>3 DEF m
  <2> QED BY <2>1, <2>2 DEF Matched
<1> QED BY <1>1, <1>5 DEF Rewriting

\* When nothing is left to do, the text matches its skeleton.
LEMMA RewritingEnds ==
  ASSUME NEW A, NEW text, NEW plan, PlanOf(A, text, plan), NEW out, NEW R,
         Rewriting(A, text, plan, out, {}, R)
  PROVE  /\ Matched(out, FlattenSeq(Pieces(text, plan)), R) /\ out \in Texts(A)
         /\ Kept(text, plan, 1, out, FlattenSeq(Pieces(text, plan)))
<1>1. PICK d \in 0..Len(text), s \in Texts(A), z \in Texts(A) : \E g :
        /\ out = Cat(Part(text, 1, d), s)
        /\ Builds(g, A, text, plan)
        /\ Cat(g[d], z) = g[Len(text)]
        /\ Matched(s, z, R) /\ Kept(text, plan, d + 1, s, z)
        /\ \A j \in Rewrites(plan) : plan[j].start <= d => plan[j] \in {}
  BY DEF Rewriting
<1>2. PICK g : /\ out = Cat(Part(text, 1, d), s)
               /\ Builds(g, A, text, plan)
               /\ Cat(g[d], z) = g[Len(text)]
  BY <1>1
<1> DEFINE u == Part(text, 1, d)
<1>3. text \in Texts(A) /\ Len(text) \in Nat /\ 0 \in 0..Len(text) /\ d \in 0..Len(text)
  <2>1. text \in Texts(A)
    BY DEF PlanOf
  <2>2. Len(text) \in Nat
    BY <2>1, PartLaws
  <2> QED BY <2>1, <2>2
<1>4. u \in Texts(A)
  <2>1. 1 \in 1..Len(text) + 1
    BY <1>3
  <2> QED BY <1>3, <2>1, PartLaws
<1>5. \A p \in 0 + 1..d : \A j \in Rewrites(plan) : ~Covers(plan[j], p)
  <2> SUFFICES ASSUME NEW p \in 0 + 1..d, NEW j \in Rewrites(plan), Covers(plan[j], p)
               PROVE  FALSE
    OBVIOUS
  <2>1. plan[j].start \in Nat /\ plan[j].start <= p
    BY PlanFields DEF Rewrites, Covers
  <2>2. plan[j].start <= d
    BY <1>3, <2>1
  <2> QED BY <1>1, <2>2
<1>6. g[d] = Cat(g[0], Part(text, 0 + 1, d))
  BY <1>2, <1>3, <1>5, PlainRun
<1>7. Kept(text, plan, 1, Cat(u, s), Cat(u, z))
  <2>1. Matched(s, z, R) /\ Kept(text, plan, d + 1, s, z)
    BY <1>1
  <2>2. 1 <= 1 /\ 1 <= d + 1 /\ 1 \in Nat
    BY <1>3
  <2> QED BY <1>3, <2>1, <2>2, KeptPart
<1>8. g[d] = u
  <2>1. g[0] = <<>> /\ Cat(<<>>, u) = u /\ 0 + 1 = 1
    BY <1>2, <1>4, CatNone DEF Builds
  <2> QED BY <1>6, <2>1
<1> HIDE DEF u
<1>9. Matched(Cat(u, s), Cat(u, z), R)
  BY <1>1, <1>4, MatchedSelf, MatchedCat
<1>10. FlattenSeq(Pieces(text, plan)) = Cat(u, z) /\ out = Cat(u, s)
  BY <1>2, <1>8 DEF Builds, u
<1>11. out \in Texts(A)
  BY <1>4, <1>10, CatText
<1> QED BY <1>9, <1>10, <1>11, <1>7

\* Replacing the rightmost finding that is left: its slot is filled, and what
\* is behind it keeps its place.
LEMMA RewritingReplaces ==
  ASSUME NEW A, NEW text, NEW plan, PlanOf(A, text, plan), NEW out, NEW todo, NEW R,
         Rewriting(A, text, plan, out, todo, R), NEW j \in Rewrites(plan),
         plan[j] \in todo, NEW rest \in SUBSET todo,
         todo \subseteq rest \cup {plan[j]},
         \A f \in rest : f.end <= plan[j].start,
         NEW x \in A, <<x, Slot(plan[j])>> \in R
  PROVE  Rewriting(A, text, plan, replace_range(out, plan[j], <<x>>), rest, R)
<1>1. PICK d \in 0..Len(text), s \in Texts(A), z \in Texts(A) : \E g :
        /\ out = Cat(Part(text, 1, d), s)
        /\ Builds(g, A, text, plan)
        /\ Cat(g[d], z) = g[Len(text)]
        /\ Matched(s, z, R) /\ Kept(text, plan, d + 1, s, z)
        /\ \A f \in todo : f.end <= d + 1
        /\ \A k \in Rewrites(plan) : plan[k].start <= d => plan[k] \in todo
  BY DEF Rewriting
<1>2. PICK g : Builds(g, A, text, plan) /\ Cat(g[d], z) = g[Len(text)]
  BY <1>1
<1> DEFINE N == Len(text)
           f == plan[j]
           a == f.start
           b == f.end
           x1 == <<x>>
           m1 == <<Slot(f)>>
           mid == Part(text, b, d)
           s2 == Cat(x1, Cat(mid, s))
           z2 == Cat(m1, Cat(mid, z))
<1>3. /\ text \in Texts(A) /\ N \in Nat /\ d \in Nat /\ d <= N /\ a \in Nat /\ b \in Nat
      /\ 1 <= a /\ a < b /\ b <= N + 1 /\ b <= d + 1 /\ j \in DOMAIN plan
  <2>1. text \in Texts(A) /\ j \in DOMAIN plan
    BY DEF PlanOf, Rewrites
  <2>2. N \in Nat
    BY <2>1, PartLaws
  <2>3. a \in Nat /\ b \in Nat /\ 1 <= a /\ a < b /\ b <= N + 1
    BY <2>1, PlanFields
  <2>4. b <= d + 1
    BY <1>1
  <2> QED BY <2>1, <2>2, <2>3, <2>4
<1>4. x1 \in Texts(A) /\ m1 \in Texts(A)
  BY <1>3 DEF Texts, PlanOf
<1>5. mid \in Texts(A)
  <2>1. b \in 1..N + 1
    BY <1>3
  <2> QED BY <1>3, <2>1, PartLaws
<1>6. g[a - 1] \in Texts(A) /\ g[b - 1] \in Texts(A) /\ a - 1 \in 0..N /\ b - 1 \in 0..N
      /\ d \in b - 1..N
  <2>1. a - 1 \in 0..N /\ b - 1 \in 0..N /\ d \in b - 1..N
    BY <1>3
  <2> QED BY <1>2, <2>1 DEF Builds
<1>7. g[b - 1] = Cat(g[a - 1], m1)
  <2>1. b - 1 \in a..b - 1
    BY <1>3
  <2>2. \A p \in a..b - 1 : g[p] = Cat(g[a - 1], m1)
    BY <1>2, SpanRun
  <2> HIDE DEF a, b, m1
  <2> QED BY <2>1, <2>2
<1>8. ASSUME NEW p \in (b - 1) + 1..d, NEW k \in Rewrites(plan) PROVE ~Covers(plan[k], p)
  <2> SUFFICES ASSUME Covers(plan[k], p) PROVE FALSE
    OBVIOUS
  <2>1. p \in Nat /\ b <= p /\ p <= d
    BY <1>3
  <2>2. /\ plan[k].start \in Nat /\ plan[k].end \in Nat /\ plan[k].start <= p
        /\ p < plan[k].end
    BY PlanFields DEF Rewrites, Covers
  <2>3. plan[k] \in todo
    <3>1. plan[k].start <= d
      BY <1>3, <2>1, <2>2
    <3> QED BY <1>1, <3>1
  <2>4. CASE plan[k] = f
    BY <1>3, <2>1, <2>2, <2>4
  <2>5. CASE plan[k] \in rest
    BY <1>3, <2>1, <2>2, <2>5
  <2> QED BY <2>3, <2>4, <2>5
<1>9. g[d] = Cat(g[b - 1], mid)
  <2> DEFINE lo == b - 1
  <2>1. lo \in 0..N /\ d \in lo..N /\ lo + 1 = b
    BY <1>3, <1>6
  <2>2. \A p \in lo + 1..d : \A k \in Rewrites(plan) : ~Covers(plan[k], p)
    BY <1>8
  <2> HIDE DEF lo, a, b, f
  <2>3. g[d] = Cat(g[lo], Part(text, lo + 1, d))
    <3>1. lo \in 0..Len(text) /\ d \in lo..Len(text)
      BY <2>1
    <3> QED BY <1>2, <3>1, <2>2, PlainRun, SMTT(30)
  <2> QED BY <2>1, <2>3 DEF lo
<1>10. replace_range(out, f, x1) = Cat(Part(text, 1, a - 1), s2)
  <2>1. out = Cat(Part(text, 1, d), s)
    BY <1>1
  <2> HIDE DEF f, x1
  <2>2. replace_range(Cat(Part(text, 1, d), s), f, x1)
          = Cat(Part(text, 1, a - 1), Cat(x1, Cat(Part(text, b, d), s)))
    BY <1>3, <1>4, ReplaceIn
  <2> QED BY <2>1, <2>2
<1> HIDE DEF x1, m1, mid, a, b
<1>11. /\ Cat(mid, s) \in Texts(A) /\ Cat(mid, z) \in Texts(A)
       /\ s2 \in Texts(A) /\ z2 \in Texts(A)
  <2>1. Cat(mid, s) \in Texts(A) /\ Cat(mid, z) \in Texts(A)
    BY <1>5, CatText
  <2> QED BY <1>4, <2>1, CatText
<1>12. Cat(g[a - 1], z2) = g[N]
  <2> DEFINE h == g[a - 1]
  <2>0. h \in Texts(A) /\ g[b - 1] = Cat(h, m1)
    BY <1>6, <1>7
  <2> HIDE DEF h
  <2>1. Cat(h, m1) \in Texts(A)
    BY <1>4, <2>0, CatText
  <2>2. Cat(Cat(Cat(h, m1), mid), z) = Cat(Cat(h, m1), Cat(mid, z))
    BY <1>5, <2>1, CatThree
  <2>3. Cat(Cat(h, m1), Cat(mid, z)) = Cat(h, z2)
    BY <1>4, <1>11, <2>0, CatThree
  <2> QED BY <1>2, <1>9, <2>0, <2>2, <2>3 DEF h
<1>13. Matched(s2, z2, R)
  <2>1. Matched(mid, mid, R) /\ Matched(s, z, R)
    BY <1>1, <1>5, MatchedSelf
  <2>2. Matched(Cat(mid, s), Cat(mid, z), R)
    BY <1>5, <2>1, MatchedCat
  <2>3. Matched(x1, m1, R)
    BY MatchedOne DEF x1, m1
  <2> QED BY <1>4, <1>11, <2>2, <2>3, MatchedCat
<1>14. Kept(text, plan, (a - 1) + 1, s2, z2)
  <2>1. Matched(s, z, R) /\ Kept(text, plan, d + 1, s, z)
    BY <1>1
  <2>2. Kept(text, plan, b, Cat(mid, s), Cat(mid, z))
    <3>1. b \in Nat /\ 1 <= b /\ b <= d + 1
      BY <1>3
    <3> QED BY <1>3, <2>1, <3>1, KeptPart DEF mid
  <2>3. Matched(x1, m1, R) /\ Matched(Cat(mid, s), Cat(mid, z), R)
    <3>1. Matched(mid, mid, R)
      BY <1>5, MatchedSelf
    <3>2. Matched(x1, m1, R)
      BY MatchedOne DEF x1, m1
    <3>3. Matched(Cat(mid, s), Cat(mid, z), R)
      BY <1>5, <2>1, <3>1, MatchedCat
    <3> QED BY <3>2, <3>3
  <2>4. Kept(text, plan, b, s2, z2)
    BY <1>4, <1>11, <2>2, <2>3, KeptBehind
  <2>5. \A p \in (a - 1) + 1..N : p \in b..N \/ Covers(f, p)
    BY <1>3 DEF Covers, a, b
  <2> HIDE DEF s2, z2
  <2> QED BY <2>4, <2>5 DEF Kept
<1>15. \A h \in rest : h.end <= (a - 1) + 1
  <2>1. (a - 1) + 1 = a
    BY <1>3
  <2> QED BY <2>1 DEF a
<1>16. \A k \in Rewrites(plan) : plan[k].start <= a - 1 => plan[k] \in rest
  <2> SUFFICES ASSUME NEW k \in Rewrites(plan), plan[k].start <= a - 1
               PROVE  plan[k] \in rest
    OBVIOUS
  <2>1. plan[k].start \in Nat
    BY PlanFields DEF Rewrites
  <2>2. plan[k].start <= d /\ plan[k].start # a
    BY <1>3, <2>1
  <2>3. plan[k] \in todo /\ plan[k] # f
    BY <1>1, <2>2 DEF a
  <2> QED BY <2>3
<1> DEFINE lo == a - 1
<1>17. /\ lo \in 0..N /\ replace_range(out, f, x1) = Cat(Part(text, 1, lo), s2)
       /\ Cat(g[lo], z2) = g[N] /\ Kept(text, plan, lo + 1, s2, z2)
       /\ \A h \in rest : h.end <= lo + 1
       /\ \A k \in Rewrites(plan) : plan[k].start <= lo => plan[k] \in rest
  BY <1>6, <1>10, <1>12, <1>15, <1>16, <1>14
<1> HIDE DEF lo, s2, z2, f
<1> QED BY <1>2, <1>11, <1>13, <1>17 DEF Rewriting, f, x1

-----------------------------------------------------------------------------
(* The order of the findings *)

\* What is in a flattened sequence is in one of its parts, and the other way.
LEMMA FlattenMembers ==
  ASSUME NEW A, NEW N, NEW ss, N \in Nat, ss \in [1..N -> Texts(A)]
  PROVE  Range(FlattenSeq(ss)) = UNION {Range(ss[i]) : i \in 1..N}
<1>1. PICK g : /\ g[0] = <<>> /\ FlattenSeq(ss) = g[N]
               /\ \A i \in 0..N : g[i] \in Texts(A)
               /\ \A i \in 1..N : g[i] = Cat(g[i - 1], ss[i])
  BY FlattenLaws, SMTT(60)
<1> DEFINE All(n) == UNION {Range(ss[i]) : i \in 1..n}
           Good(n) == Range(g[n]) = All(n)
           Bad == {n \in 0..N : ~Good(n)}
<1>2. Good(0)
  <2>1. Range(g[0]) = {}
    BY <1>1 DEF Range
  <2>2. All(0) = {}
    OBVIOUS
  <2> QED BY <2>1, <2>2
<1>3. \A u, v \in Texts(A) : Range(Cat(u, v)) = Range(u) \cup Range(v)
  <2> SUFFICES ASSUME NEW u \in Texts(A), NEW v \in Texts(A)
               PROVE  Range(Cat(u, v)) = Range(u) \cup Range(v)
    OBVIOUS
  <2> DEFINE w == Cat(u, v)
             m == Len(u)
             n == Len(v)
  <2>1. /\ m \in Nat /\ n \in Nat /\ DOMAIN u = 1..m /\ DOMAIN v = 1..n
        /\ DOMAIN w = 1..m + n
        /\ \A q \in 1..m : w[q] = u[q]
        /\ \A q \in 1..n : w[m + q] = v[q]
        /\ \A q \in 1..m + n : q \notin 1..m => q - m \in 1..n /\ m + (q - m) = q
    BY CatAtoms
  <2> HIDE DEF w, m, n
  <2>2. \A q \in 1..m : q \in 1..m + n
    BY <2>1
  <2>3. \A q \in 1..n : m + q \in 1..m + n
    BY <2>1
  <2>4. ASSUME NEW q \in 1..m + n PROVE w[q] \in Range(u) \cup Range(v)
    <3>1. CASE q \in 1..m
      BY <2>1, <3>1 DEF Range
    <3>2. CASE q \notin 1..m
      <4>1. q - m \in 1..n /\ w[q] = v[q - m]
        BY <2>1, <3>2
      <4> QED BY <2>1, <4>1 DEF Range
    <3> QED BY <3>1, <3>2
  <2>5. \A q \in 1..m : u[q] \in Range(w)
    BY <2>1, <2>2 DEF Range
  <2>6. \A q \in 1..n : v[q] \in Range(w)
    <3> SUFFICES ASSUME NEW q \in 1..n PROVE v[q] \in Range(w)
      OBVIOUS
    <3>1. m + q \in DOMAIN w /\ w[m + q] = v[q]
      BY <2>1, <2>3
    <3> QED BY <3>1 DEF Range
  <2>7. /\ Range(w) = {w[q] : q \in 1..m + n} /\ Range(u) = {u[q] : q \in 1..m}
        /\ Range(v) = {v[q] : q \in 1..n}
    BY <2>1 DEF Range
  <2>8. Range(w) \subseteq Range(u) \cup Range(v)
    BY <2>4, <2>7
  <2>9. Range(u) \subseteq Range(w) /\ Range(v) \subseteq Range(w)
    BY <2>5, <2>6, <2>7
  <2> QED BY <2>8, <2>9 DEF w
<1>4. ASSUME NEW n \in 1..N, Good(n - 1) PROVE Good(n)
  <2>1. n - 1 \in 0..N /\ 1..n = (1..n - 1) \cup {n}
    OBVIOUS
  <2>2. g[n - 1] \in Texts(A) /\ ss[n] \in Texts(A) /\ g[n] = Cat(g[n - 1], ss[n])
    BY <1>1, <2>1
  <2>3. Range(g[n]) = Range(g[n - 1]) \cup Range(ss[n])
    BY <1>3, <2>2
  <2>4. All(n) = All(n - 1) \cup Range(ss[n])
    BY <2>1
  <2> HIDE DEF All
  <2> QED BY <1>4, <2>3, <2>4
<1> HIDE DEF Good
<1>5. Bad = {}
  <2> SUFFICES ASSUME Bad # {} PROVE FALSE
    OBVIOUS
  <2>1. PICK n \in Bad : \A m \in Bad : n <= m
    <3>1. Bad \in SUBSET Nat
      OBVIOUS
    <3> HIDE DEF Bad
    <3> QED BY <3>1, LeastNatural
  <2>2. n # 0
    BY <1>2
  <2>3. n \in 1..N /\ n - 1 \in 0..N
    BY <2>1, <2>2
  <2>4. Good(n - 1)
    BY <2>1, <2>3
  <2> QED BY <1>4, <2>1, <2>3, <2>4
<1>6. Good(N)
  BY <1>5
<1> QED BY <1>1, <1>6 DEF Good

\* The findings still to be handled in target i.
Todo(w, i) == {w[k].finding : k \in {n \in DOMAIN w : w[n].target = i}}

\* Taking the head off the work.
LEMMA TodoTail ==
  ASSUME NEW T, NEW w \in Seq(T), w # <<>>
  PROVE  \A i : Todo(w, i) = Todo(Tail(w), i)
                               \cup (IF w[1].target = i THEN {w[1].finding} ELSE {})
<1> DEFINE z == Tail(w)
<1>1. Len(w) \in Nat /\ Len(w) # 0 /\ DOMAIN w = 1..Len(w)
  OBVIOUS
<1>2. Len(z) = Len(w) - 1 /\ z \in Seq(T)
  BY <1>1
<1>3. DOMAIN z = 1..Len(w) - 1 /\ \A k \in 1..Len(w) - 1 : z[k] = w[k + 1]
  BY <1>1, <1>2
<1> HIDE DEF z
<1> SUFFICES ASSUME NEW i
             PROVE  Todo(w, i) = Todo(z, i)
                                   \cup (IF w[1].target = i THEN {w[1].finding} ELSE {})
  BY DEF z
<1>4. ASSUME NEW k \in DOMAIN w, w[k].target = i, k # 1
      PROVE  w[k].finding \in Todo(z, i)
  <2>1. k - 1 \in DOMAIN z /\ z[k - 1] = w[k]
    BY <1>1, <1>3, <1>4
  <2> QED BY <1>4, <2>1 DEF Todo
<1>5. ASSUME NEW k \in DOMAIN z, z[k].target = i PROVE z[k].finding \in Todo(w, i)
  <2>1. k + 1 \in DOMAIN w /\ z[k] = w[k + 1]
    BY <1>1, <1>3
  <2> QED BY <1>5, <2>1 DEF Todo
<1>6. 1 \in DOMAIN w
  BY <1>1
<1>7. Todo(z, i) \subseteq Todo(w, i)
  BY <1>5 DEF Todo
<1>8. w[1].target = i => w[1].finding \in Todo(w, i)
  BY <1>6 DEF Todo
<1>9. \A f \in Todo(w, i) : \/ f \in Todo(z, i)
                            \/ w[1].target = i /\ f = w[1].finding
  <2> SUFFICES ASSUME NEW k \in DOMAIN w, w[k].target = i
               PROVE  \/ w[k].finding \in Todo(z, i)
                      \/ w[1].target = i /\ w[k].finding = w[1].finding
    BY DEF Todo
  <2>1. CASE k = 1
    BY <2>1
  <2>2. CASE k # 1
    BY <1>4, <2>2
  <2> QED BY <2>1, <2>2
<1> QED BY <1>7, <1>8, <1>9

\* apply_rewrites goes through all findings of each plan, and no others.
LEMMA RewriteOrderHas ==
  ASSUME NEW ps, NEW n \in Nat, DOMAIN ps = 1..n,
         \A i \in 1..n : ps[i] \in Seq(Finding(Classes))
  PROVE  \A i \in 1..n : Todo(RewriteOrder(ps), i) = Range(ps[i])
<1> DEFINE Row(i) == [j \in DOMAIN ps[i] |->
                       [target |-> i, finding |-> Reverse(ps[i])[j]]]
           ss == [i \in DOMAIN ps |-> Row(i)]
           T == [target : 1..n, finding : Finding(Classes)]
           w == RewriteOrder(ps)
<1>1. w = FlattenSeq(ss)
  BY DEF RewriteOrder
<1>2. ASSUME NEW i \in 1..n
      PROVE  /\ Row(i) \in Seq(T)
             /\ Range(Row(i)) = {[target |-> i, finding |-> f] : f \in Range(ps[i])}
  <2> DEFINE q == ps[i]
             m == Len(q)
             row == Row(i)
             It(f) == [target |-> i, finding |-> f]
  <2>1. m \in Nat /\ DOMAIN q = 1..m /\ \A j \in 1..m : q[j] \in Finding(Classes)
    BY <1>2
  <2>2. \A k \in 1..m : /\ Reverse(q)[k] = q[(m - k) + 1] /\ (m - k) + 1 \in 1..m
                        /\ (m - ((m - k) + 1)) + 1 = k
    BY <2>1 DEF Reverse
  <2>3. DOMAIN row = 1..m /\ row = [k \in 1..m |-> row[k]]
    BY <2>1
  <2>4. \A k \in 1..m : row[k] = It(q[(m - k) + 1])
    BY <2>1, <2>2
  <2>5. \A f \in Finding(Classes) : It(f) \in T
    OBVIOUS
  <2> HIDE DEF q, row, m, It, T
  <2>6. row \in Seq(T)
    <3>1. \A k \in 1..m : row[k] \in T
      BY <2>1, <2>2, <2>4, <2>5
    <3> QED BY <2>1, <2>3, <3>1, SMTT(30)
  <2>7. Range(row) = {It(f) : f \in Range(q)}
    <3>1. \A k \in 1..m : \E f \in Range(q) : row[k] = It(f)
      BY <2>1, <2>2, <2>4 DEF Range
    <3>2. \A j \in 1..m : \E k \in 1..m : row[k] = It(q[j])
      <4> SUFFICES ASSUME NEW j \in 1..m PROVE \E k \in 1..m : row[k] = It(q[j])
        OBVIOUS
      <4> DEFINE k == (m - j) + 1
      <4>1. k \in 1..m /\ (m - k) + 1 = j
        BY <2>2
      <4> HIDE DEF k
      <4> QED BY <2>4, <4>1
    <3>3. Range(row) = {row[k] : k \in 1..m} /\ Range(q) = {q[j] : j \in 1..m}
      BY <2>1, <2>3 DEF Range
    <3>4. Range(row) \subseteq {It(f) : f \in Range(q)}
      BY <3>1, <3>3
    <3>5. ASSUME NEW f \in Range(q) PROVE It(f) \in Range(row)
      <4>1. PICK j \in 1..m : f = q[j]
        BY <3>3
      <4> QED BY <3>2, <3>3, <4>1
    <3> QED BY <3>4, <3>5
  <2> QED BY <2>6, <2>7 DEF q, row, It
<1>3. ss \in [1..n -> Texts(T)] /\ \A i \in 1..n : ss[i] = Row(i)
  <2> HIDE DEF Row, T
  <2> QED BY <1>2 DEF Texts
<1> HIDE DEF Row, ss, T, w
<1>4. Range(w) = UNION {Range(ss[i]) : i \in 1..n}
  BY <1>1, <1>3, FlattenMembers
<1>5. \A v : v \in Range(w) <=> \E i \in 1..n : \E f \in Range(ps[i]) :
                                  v = [target |-> i, finding |-> f]
  <2>1. \A i \in 1..n : Range(ss[i]) = {[target |-> i, finding |-> f] : f \in Range(ps[i])}
    BY <1>2, <1>3
  <2>2. \A v : v \in Range(w) <=> \E i \in 1..n : v \in Range(ss[i])
    BY <1>4
  <2> QED BY <2>1, <2>2
<1> SUFFICES ASSUME NEW i \in 1..n PROVE Todo(w, i) = Range(ps[i])
  BY DEF w
<1>6. ASSUME NEW f \in Todo(w, i) PROVE f \in Range(ps[i])
  <2>1. PICK k \in DOMAIN w : w[k].target = i /\ f = w[k].finding
    BY <1>6 DEF Todo
  <2>2. w[k] \in Range(w)
    BY DEF Range
  <2>3. PICK h \in 1..n : \E e \in Range(ps[h]) : w[k] = [target |-> h, finding |-> e]
    BY <1>5, <2>2
  <2>4. PICK e \in Range(ps[h]) : w[k] = [target |-> h, finding |-> e]
    BY <2>3
  <2>5. w[k].target = h /\ w[k].finding = e
    BY <2>4
  <2> QED BY <2>1, <2>4, <2>5
<1>7. ASSUME NEW f \in Range(ps[i]) PROVE f \in Todo(w, i)
  <2> DEFINE v == [target |-> i, finding |-> f]
  <2>1. v \in Range(w)
    BY <1>5, <1>7
  <2>2. v.target = i /\ v.finding = f
    OBVIOUS
  <2> HIDE DEF v
  <2>3. PICK k \in DOMAIN w : w[k] = v
    BY <2>1 DEF Range
  <2> QED BY <2>2, <2>3 DEF Todo
<1> QED BY <1>6, <1>7

-----------------------------------------------------------------------------
(* What fills a slot *)

Masks == {Mask(c) : c \in Classes}

\* The atoms of a text, of what it becomes and of its skeleton.
Marks(text) == Range(text) \cup Token \cup Masks \cup {Slot(f) : f \in Finding(Classes)}

\* The texts that the plans replace by tokens.
Drawn(req, ps) ==
  UNION {{Slice(req[i].text, ps[i][j])
            : j \in {k \in DOMAIN ps[i] : ps[i][k].action = "tokenize"}}
         : i \in DOMAIN ps}

\* No mapping can be added without losing a live one.
Crowded(L, at) ==
  /\ Cardinality(DOMAIN L) = MaxEntries
  /\ \A t \in DOMAIN L : L[t].expires_at > at

\* Atom a stands for finding f of the text, as far as the ledger tells.
Fits(a, f, text, L, at, drawn) ==
  \/ f.action = "mask" /\ a = Mask(f.data_class)
  \/ /\ f.action = "tokenize"
     /\ a \in Token /\ a.label = f.data_class
     /\ a \in DOMAIN L => \/ L[a].value = Slice(text, f)
                          \/ L[a].value \in drawn /\ Crowded(L, at)

Fillings(text, plan, L, at, drawn) ==
  {q \in (Token \cup Masks) \X {Slot(plan[j]) : j \in Rewrites(plan)} :
     \E j \in Rewrites(plan) : /\ q[2] = Slot(plan[j])
                               /\ Fits(q[1], plan[j], text, L, at, drawn)}

\* The pairs of Fillings.
LEMMA FillingIs ==
  ASSUME NEW text, NEW plan, NEW L, NEW at, NEW drawn, NEW a, NEW m
  PROVE  <<a, m>> \in Fillings(text, plan, L, at, drawn) <=>
           /\ a \in Token \cup Masks
           /\ \E j \in Rewrites(plan) : /\ m = Slot(plan[j])
                                        /\ Fits(a, plan[j], text, L, at, drawn)
BY DEF Fillings

\* How far apply_rewrites has come with every target.
Progress(req, ps, w, out, L, at) ==
  /\ DOMAIN ps = DOMAIN req /\ DOMAIN out = DOMAIN req
  /\ \A i \in DOMAIN req :
       /\ PlanOf(Marks(req[i].text), req[i].text, ps[i])
       /\ Todo(w, i) \subseteq Range(ps[i])
       /\ Rewriting(Marks(req[i].text), req[i].text, ps[i], out[i], Todo(w, i),
                    Fillings(req[i].text, ps[i], L, at, Drawn(req, ps)))

\* Before the first replacement.
LEMMA ProgressStarts ==
  ASSUME NEW n \in Nat, NEW req, DOMAIN req = 1..n,
         \A i \in 1..n : WellFormed(req[i]),
         NEW ps, DOMAIN ps = 1..n,
         \A i \in 1..n : /\ ps[i] \in Seq(Finding(Classes)) /\ Apart(ps[i])
                         /\ \A j \in DOMAIN ps[i] :
                              /\ 1 <= ps[i][j].start
                              /\ ps[i][j].end <= Len(req[i].text) + 1,
         NEW out, DOMAIN out = 1..n, \A i \in 1..n : out[i] = req[i].text,
         NEW L, NEW at
  PROVE  Progress(req, ps, RewriteOrder(ps), out, L, at)
<1> DEFINE w == RewriteOrder(ps)
<1>1. \A i \in 1..n : Todo(w, i) = Range(ps[i])
  BY RewriteOrderHas
<1> HIDE DEF w
<1> SUFFICES ASSUME NEW i \in 1..n
             PROVE  /\ PlanOf(Marks(req[i].text), req[i].text, ps[i])
                    /\ Todo(w, i) \subseteq Range(ps[i])
                    /\ Rewriting(Marks(req[i].text), req[i].text, ps[i], out[i],
                         Todo(w, i), Fillings(req[i].text, ps[i], L, at, Drawn(req, ps)))
  BY DEF Progress, w
<1> DEFINE text == req[i].text
           plan == ps[i]
           A == Marks(text)
           R == Fillings(text, plan, L, at, Drawn(req, ps))
           todo == Todo(w, i)
<1>2. text \in Seq(Range(text))
  BY DEF WellFormed
<1>3. /\ plan \in Seq(Finding(Classes)) /\ Apart(plan) /\ out[i] = text
      /\ \A j \in DOMAIN plan : /\ 1 <= plan[j].start /\ plan[j].end <= Len(text) + 1
  OBVIOUS
<1>4. todo = Range(plan)
  BY <1>1
<1> HIDE DEF text, plan, R, todo
<1>5. PlanOf(A, text, plan)
  <2>1. Range(text) \subseteq A /\ \A f \in Finding(Classes) : Slot(f) \in A
    BY DEF Marks
  <2>2. \A j \in DOMAIN plan : plan[j] \in Finding(Classes)
    BY <1>3
  <2> HIDE DEF A
  <2>3. text \in Texts(A)
    BY <1>2, <2>1 DEF Texts
  <2> QED BY <1>3, <2>1, <2>2, <2>3 DEF PlanOf
<1>6. /\ \A f \in todo : \E j \in DOMAIN plan : f = plan[j]
      /\ \A j \in Rewrites(plan) : plan[j] \in todo
  BY <1>4 DEF Range, Rewrites
<1> HIDE DEF A
<1>7. Rewriting(A, text, plan, text, todo, R)
  BY <1>5, <1>6, RewritingStarts
<1> QED BY <1>3, <1>4, <1>5, <1>7 DEF A, text, plan, R, todo

\* An allowed finding is left as it is.
LEMMA ProgressSkips ==
  ASSUME NEW req, NEW ps, NEW T, NEW w \in Seq(T), w # <<>>, NEW out, NEW L, NEW at,
         Progress(req, ps, w, out, L, at), w[1].finding.action = "allow"
  PROVE  Progress(req, ps, Tail(w), out, L, at)
<1> DEFINE z == Tail(w)
<1>1. \A i : Todo(w, i) = Todo(z, i) \cup (IF w[1].target = i THEN {w[1].finding} ELSE {})
  BY TodoTail
<1> HIDE DEF z
<1> SUFFICES ASSUME NEW i \in DOMAIN req
             PROVE  /\ Todo(z, i) \subseteq Range(ps[i])
                    /\ Rewriting(Marks(req[i].text), req[i].text, ps[i], out[i],
                         Todo(z, i), Fillings(req[i].text, ps[i], L, at, Drawn(req, ps)))
  BY DEF Progress, z
<1> DEFINE text == req[i].text
           A == Marks(text)
           R == Fillings(text, ps[i], L, at, Drawn(req, ps))
           todo == Todo(w, i)
           rest == Todo(z, i)
<1>2. Rewriting(A, text, ps[i], out[i], todo, R) /\ todo \subseteq Range(ps[i])
  BY DEF Progress
<1>3. rest \in SUBSET todo /\ \A f \in todo \ rest : f.action = "allow"
  BY <1>1
<1> HIDE DEF text, A, R, todo, rest
<1>4. Rewriting(A, text, ps[i], out[i], rest, R)
  BY <1>2, <1>3, RewritingSkips
<1> QED BY <1>2, <1>3, <1>4 DEF text, A, R, rest

\* An atom that fits takes the place of the finding at the head.
LEMMA ProgressReplaces ==
  ASSUME NEW req, NEW ps, NEW T, NEW w \in Seq(T), w # <<>>, NEW out, NEW L, NEW at,
         Progress(req, ps, w, out, L, at),
         w[1].target \in DOMAIN req, w[1].target \in Nat,
         \A k \in DOMAIN Tail(w) : Sooner(w[1], Tail(w)[k]),
         w[1].finding.action # "allow",
         NEW x \in Token \cup Masks,
         Fits(x, w[1].finding, req[w[1].target].text, L, at, Drawn(req, ps)),
         NEW new, DOMAIN new = DOMAIN out,
         new[w[1].target] = replace_range(out[w[1].target], w[1].finding, <<x>>),
         \A i \in DOMAIN out : i # w[1].target => new[i] = out[i]
  PROVE  Progress(req, ps, Tail(w), new, L, at)
<1> DEFINE z == Tail(w)
           h == w[1].target
           f == w[1].finding
<1>1. \A i : Todo(w, i) = Todo(z, i) \cup (IF h = i THEN {f} ELSE {})
  BY TodoTail
<1>2. ~(h < h) /\ \A k \in DOMAIN z : Sooner(w[1], z[k])
  OBVIOUS
<1>3. \A e \in Todo(z, h) : e.end <= f.start
  <2> HIDE DEF z
  <2> SUFFICES ASSUME NEW k \in DOMAIN z, z[k].target = h PROVE z[k].finding.end <= f.start
    BY DEF Todo
  <2> QED BY <1>2 DEF Sooner
<1> HIDE DEF z
<1> SUFFICES ASSUME NEW i \in DOMAIN req
             PROVE  /\ Todo(z, i) \subseteq Range(ps[i])
                    /\ Rewriting(Marks(req[i].text), req[i].text, ps[i], new[i],
                         Todo(z, i), Fillings(req[i].text, ps[i], L, at, Drawn(req, ps)))
  BY DEF Progress, z
<1> DEFINE text == req[i].text
           plan == ps[i]
           drawn == Drawn(req, ps)
           A == Marks(text)
           R == Fillings(text, plan, L, at, drawn)
           todo == Todo(w, i)
           rest == Todo(z, i)
<1>4. /\ PlanOf(A, text, plan) /\ todo \subseteq Range(plan)
      /\ Rewriting(A, text, plan, out[i], todo, R)
  BY DEF Progress
<1>5. i \in DOMAIN out
  BY DEF Progress
<1>6. rest \subseteq todo
  BY <1>1
<1>7. CASE i # h
  <2>1. rest = todo
    BY <1>1, <1>7
  <2>2. new[i] = out[i]
    BY <1>5, <1>7
  <2> HIDE DEF text, A, R, todo, rest
  <2> QED BY <1>4, <2>1, <2>2 DEF text, A, R, rest
<1>8. CASE i = h
  <2>1. f \in todo /\ todo \subseteq rest \cup {f}
    BY <1>1, <1>8
  <2>2. PICK j \in DOMAIN plan : plan[j] = f
    BY <1>4, <2>1 DEF Range
  <2>3. j \in Rewrites(plan)
    BY <2>2 DEF Rewrites
  <2>4. x \in A
    BY DEF Marks
  <2>5. <<x, Slot(plan[j])>> \in R
    <3>1. Fits(x, plan[j], text, L, at, drawn)
      BY <1>8, <2>2
    <3> HIDE DEF text, plan, drawn
    <3> QED BY <2>3, <3>1, FillingIs
  <2>6. \A e \in rest : e.end <= plan[j].start
    BY <1>3, <1>8, <2>2
  <2>7. new[i] = replace_range(out[i], plan[j], <<x>>)
    BY <1>8, <2>2
  <2>8. plan[j] \in todo /\ todo \subseteq rest \cup {plan[j]}
    BY <2>1, <2>2
  <2> HIDE DEF text, plan, A, R, todo, rest, f, h
  <2>9. rest \in SUBSET todo
    BY <1>6
  <2>10. Rewriting(A, text, plan, replace_range(out[i], plan[j], <<x>>), rest, R)
    BY <1>4, <2>3, <2>4, <2>5, <2>6, <2>8, <2>9, RewritingReplaces
  <2> QED BY <1>4, <1>6, <2>7, <2>10 DEF text, plan, A, R, rest
<1> QED BY <1>7, <1>8

\* The ledger may change as long as what is in the texts fits as before.
LEMMA ProgressRepairs ==
  ASSUME NEW req, NEW ps, NEW w, NEW out, NEW L, NEW at, NEW E,
         Progress(req, ps, w, out, L, at),
         \A i \in DOMAIN req : \A p \in DOMAIN out[i] : \A f :
           Fits(out[i][p], f, req[i].text, L, at, Drawn(req, ps)) =>
             Fits(out[i][p], f, req[i].text, E, at, Drawn(req, ps))
  PROVE  Progress(req, ps, w, out, E, at)
<1> SUFFICES ASSUME NEW i \in DOMAIN req
             PROVE  Rewriting(Marks(req[i].text), req[i].text, ps[i], out[i],
                      Todo(w, i), Fillings(req[i].text, ps[i], E, at, Drawn(req, ps)))
  BY DEF Progress
<1> DEFINE text == req[i].text
           plan == ps[i]
           o == out[i]
           drawn == Drawn(req, ps)
           A == Marks(text)
           R == Fillings(text, plan, L, at, drawn)
           S == Fillings(text, plan, E, at, drawn)
           todo == Todo(w, i)
<1>1. PlanOf(A, text, plan) /\ Rewriting(A, text, plan, o, todo, R)
  BY DEF Progress
<1>2. \A p \in DOMAIN o : \A f : Fits(o[p], f, text, L, at, drawn) =>
                                    Fits(o[p], f, text, E, at, drawn)
  OBVIOUS
<1> HIDE DEF text, plan, o, drawn, A, todo
<1>3. \A p \in DOMAIN o : \A m : <<o[p], m>> \in R => <<o[p], m>> \in S
  <2> SUFFICES ASSUME NEW p \in DOMAIN o, NEW m, <<o[p], m>> \in R PROVE <<o[p], m>> \in S
    OBVIOUS
  <2> DEFINE a == o[p]
  <2>0. <<a, m>> \in R /\ \A f : Fits(a, f, text, L, at, drawn) => Fits(a, f, text, E, at, drawn)
    BY <1>2
  <2> HIDE DEF a
  <2>1. a \in Token \cup Masks
    BY <2>0, FillingIs
  <2>2. PICK j \in Rewrites(plan) : m = Slot(plan[j]) /\ Fits(a, plan[j], text, L, at, drawn)
    BY <2>0, FillingIs
  <2>3. Fits(a, plan[j], text, E, at, drawn)
    BY <2>0, <2>2
  <2>4. <<a, m>> \in S
    BY <2>1, <2>2, <2>3, FillingIs
  <2> QED BY <2>4 DEF a
<1> HIDE DEF R, S
<1>4. Rewriting(A, text, plan, o, todo, S)
  BY <1>1, <1>3, RewritingRepairs
<1> QED BY <1>4 DEF text, plan, o, drawn, A, S, todo

\* A token drawn a second time was evicted to make room for itself.
LEMMA RedrawnIsFull ==
  ASSUME NEW L, NEW seq, LedgerOK(L, seq), NEW s, NEW c, NEW v, NEW at, NEW ttl,
         NEW r \in issue_tracked(L, seq, s, c, v, at, ttl), r.created,
         r.token \in DOMAIN L, L[r.token].expires_at > at
  PROVE  Cardinality(DOMAIN r.entries) = MaxEntries
<1> DEFINE P == purge_expired(L, at)
           n == Saturate(seq)
           e == [scope |-> s, data_class |-> c, value |-> v,
                 expires_at |-> at + ttl, last_used |-> n]
<1>1. LedgerOK(P, seq) /\ r.token \in DOMAIN P
  <2>1. DOMAIN P = {t \in DOMAIN L : L[t].expires_at > at}
    BY PurgeDomain
  <2>2. LedgerOK(P, seq)
    BY PurgeOK
  <2> QED BY <2>1, <2>2
<1>2. PICK E \in MakeRoom(P) : r.token \in FreshTokens(E, c)
                                 /\ r.entries = Insert(E, r.token, e)
  BY IssueCases
<1> HIDE DEF P, e
<1>3. r.token \notin DOMAIN E
  BY <1>2 DEF FreshTokens
<1>4. DOMAIN E # DOMAIN P
  BY <1>1, <1>3
<1> QED BY <1>1, <1>2, <1>3, <1>4, RefilledIsFull

\* The token that issue_tracked returns has the label of the class.
LEMMA IssueLabel ==
  ASSUME NEW L, NEW seq, LedgerOK(L, seq), NEW s, NEW c, NEW v, NEW at, NEW ttl,
         NEW r \in issue_tracked(L, seq, s, c, v, at, ttl), r.token # NoToken
  PROVE  r.token.label = c
<1> DEFINE P == purge_expired(L, at)
<1>1. LedgerOK(P, seq)
  BY PurgeOK
<1>2. \/ r.token \in Holders(P, s, c, v)
      \/ \E E : r.token \in FreshTokens(E, c)
  BY IssueCases
<1> HIDE DEF P
<1>3. CASE r.token \in Holders(P, s, c, v)
  BY <1>1, <1>3 DEF Holders, LedgerOK, LedgerLabels
<1>4. CASE \E E : r.token \in FreshTokens(E, c)
  BY <1>4 DEF FreshTokens
<1> QED BY <1>2, <1>3, <1>4

\* What fits a slot still fits when a token was issued for another finding.
LEMMA IssueFits ==
  ASSUME NEW L, NEW seq, LedgerOK(L, seq), NEW c, NEW v, NEW at \in Instant,
         NEW ttl \in Nat \ {0},
         NEW r \in issue_tracked(L, seq, Scope, c, v, at, ttl), r.token # NoToken,
         NEW drawn, v \in drawn,
         NEW a, a \in Token => Owned(L, Scope, a, at) \/ Crowded(L, at),
         NEW f, NEW text, Fits(a, f, text, L, at, drawn)
  PROVE  Fits(a, f, text, r.entries, at, drawn)
<1> DEFINE E == r.entries
<1>1. /\ \A t \in DOMAIN E :
           \/ r.created /\ t = r.token
           \/ t \in DOMAIN L /\ SameBinding(E[t], L[t])
      /\ \A t \in DOMAIN E : E[t].expires_at > at
      /\ Crowded(L, at) => Crowded(E, at)
  BY IssueMappings, ZenonT(60) DEF Crowded
<1>2. E[r.token].value = v
  BY IssueValue
<1>3. r.created /\ r.token \in DOMAIN L /\ L[r.token].expires_at > at
        => Cardinality(DOMAIN E) = MaxEntries
  BY RedrawnIsFull
<1> HIDE DEF E
<1>4. CASE f.action = "mask" /\ a = Mask(f.data_class)
  BY <1>4 DEF Fits
<1>5. CASE /\ f.action = "tokenize" /\ a \in Token /\ a.label = f.data_class
           /\ a \in DOMAIN L => \/ L[a].value = Slice(text, f)
                                \/ L[a].value \in drawn /\ Crowded(L, at)
  <2> SUFFICES ASSUME a \in DOMAIN E
               PROVE  \/ E[a].value = Slice(text, f)
                      \/ E[a].value \in drawn /\ Crowded(E, at)
    BY <1>5 DEF Fits, E
  <2>1. CASE a \in DOMAIN L /\ SameBinding(E[a], L[a])
    BY <1>1, <1>5, <2>1 DEF SameBinding
  <2>2. CASE r.created /\ a = r.token
    <3>1. Crowded(E, at)
      <4>1. CASE Crowded(L, at)
        BY <1>1, <4>1
      <4>2. CASE Owned(L, Scope, a, at)
        BY <1>1, <1>3, <2>2, <4>2 DEF Crowded, Owned
      <4> QED BY <1>5, <4>1, <4>2
    <3> QED BY <1>2, <2>2, <3>1
  <2> QED BY <1>1, <2>1, <2>2
<1> QED BY <1>4, <1>5 DEF Fits

\* The text so far, target by target.
Faithful ==
  /\ phase \in {"rewrite", "forward"} =>
       Progress(request, plans, work, body, entries, now)
  /\ phase = "forward" => work = <<>>

\* The scan.
LEMMA ScanFaithful ==
  ASSUME EInv, Scan
  PROVE  Faithful'
<1> DEFINE ps == [i \in DOMAIN request |-> TargetPlan(request[i])]
<1>1. /\ phase = "inspect" /\ plans' = ps /\ request' = request /\ body' = body
      /\ \/ phase' = "blocked"
         \/ phase' = "rewrite" /\ work' = RewriteOrder(ps)
  BY DEF Scan
<1>2. CASE phase' = "blocked"
  BY <1>2 DEF Faithful
<1>3. CASE phase' = "rewrite" /\ work' = RewriteOrder(ps)
  <2>1. /\ request \in Seq(Range(request))
        /\ \A i \in DOMAIN request : WellFormed(request[i])
    BY <1>1, RequestIs DEF EInv
  <2> DEFINE n == Len(request)
  <2>2. n \in Nat /\ DOMAIN request = 1..n
    BY <2>1
  <2>3. body = [i \in DOMAIN request |-> request[i].text]
    BY <1>1 DEF EInv, Fresh
  <2>4. DOMAIN body = 1..n /\ \A i \in 1..n : body[i] = request[i].text
    BY <2>2, <2>3
  <2>5. DOMAIN ps = 1..n /\ \A i \in 1..n : ps[i] = TargetPlan(request[i])
    BY <2>2
  <2>6. \A i \in 1..n : /\ ps[i] \in Seq(Finding(Classes)) /\ Apart(ps[i])
                        /\ \A j \in DOMAIN ps[i] :
                             /\ 1 <= ps[i][j].start
                             /\ ps[i][j].end <= Len(request[i].text) + 1
    BY <2>1, <2>2, <2>5, PlanIs
  <2>7. \A i \in 1..n : WellFormed(request[i])
    BY <2>1, <2>2
  <2> HIDE DEF ps, n
  <2>8. Progress(request, ps, RewriteOrder(ps), body, entries', now')
    BY <2>2, <2>4, <2>5, <2>6, <2>7, ProgressStarts
  <2> QED BY <1>1, <1>3, <2>8 DEF Faithful
<1> QED BY <1>1, <1>2, <1>3

\* A finding is left.
LEMMA SkipFaithful ==
  ASSUME EInv, Faithful, SkipAllowed
  PROVE  Faithful'
<1>1. /\ phase = "rewrite" /\ work # <<>> /\ work' = Tail(work)
      /\ Head(work).finding.action = "allow" /\ entries' = entries /\ phase' = phase
      /\ request' = request /\ now' = now /\ body' = body /\ plans' = plans
  BY DEF SkipAllowed, ledger
<1>2. work \in Seq(Items) /\ Progress(request, plans, work, body, entries, now)
  BY <1>1 DEF EInv, Pending, Faithful
<1>3. work[1].finding.action = "allow"
  BY <1>1, <1>2, TakeHead
<1>4. Progress(request, plans, Tail(work), body, entries, now)
  BY <1>1, <1>2, <1>3, ProgressSkips
<1> QED BY <1>1, <1>4 DEF Faithful

\* What is replaced is the head of the work.
LEMMA HeadProgress ==
  ASSUME EInv, phase = "rewrite", work # <<>>, NEW L,
         Progress(request, plans, work, body, L, now),
         Head(work).finding.action # "allow", NEW x \in Token \cup Masks,
         Fits(x, Head(work).finding, request[Head(work).target].text, L, now,
              Drawn(request, plans))
  PROVE  Progress(request, plans, Tail(work), HeadReplaced(x), L, now)
<1> DEFINE h == work[1].target
           f == work[1].finding
           new == HeadReplaced(x)
<1>1. work \in Seq(Items) /\ Descending(work) /\ DOMAIN body = DOMAIN request
  BY DEF EInv, Pending
<1>2. Head(work) = work[1] /\ work[1] \in Items
  BY <1>1, TakeHead
<1>3. h \in DOMAIN request
  BY <1>2, ItemIs
<1>4. h \in Nat
  <2>1. request \in Seq(Range(request))
    BY RequestIs DEF EInv
  <2> QED BY <1>3, <2>1
<1>5. \A k \in DOMAIN Tail(work) : Sooner(work[1], Tail(work)[k])
  BY <1>1, TailDescends
<1>6. new = [body EXCEPT ![h] = replace_range(body[h], f, <<x>>)]
  BY <1>2 DEF HeadReplaced
<1>7. /\ DOMAIN new = DOMAIN body /\ new[h] = replace_range(body[h], f, <<x>>)
      /\ \A i \in DOMAIN body : i # h => new[i] = body[i]
  BY <1>1, <1>3, <1>6
<1>8. f.action # "allow" /\ Fits(x, f, request[h].text, L, now, Drawn(request, plans))
  BY <1>2
<1> HIDE DEF new
<1> QED BY <1>1, <1>3, <1>4, <1>5, <1>7, <1>8, ProgressReplaces DEF new

\* A finding is masked.
LEMMA MaskFaithful ==
  ASSUME EInv, Faithful, MaskFinding
  PROVE  Faithful'
<1> DEFINE f == Head(work).finding
           x == Mask(f.data_class)
<1>1. /\ phase = "rewrite" /\ work # <<>> /\ work' = Tail(work)
      /\ f.action = "mask" /\ body' = HeadReplaced(x) /\ entries' = entries
      /\ phase' = phase /\ request' = request /\ now' = now /\ plans' = plans
  BY DEF MaskFinding, HeadReplaced, ledger
<1>2. work \in Seq(Items) /\ Progress(request, plans, work, body, entries, now)
  BY <1>1 DEF EInv, Pending, Faithful
<1>3. x \in Masks
  <2>1. Head(work) \in Items
    BY <1>1, <1>2, TakeHead
  <2>2. f.data_class \in Classes
    BY <2>1, ItemIs
  <2> QED BY <2>2 DEF Masks
<1>4. \A text, drawn : Fits(x, f, text, entries, now, drawn)
  BY <1>1 DEF Fits
<1>5. Progress(request, plans, Tail(work), HeadReplaced(x), entries, now)
  BY <1>1, <1>2, <1>3, <1>4, HeadProgress
<1> QED BY <1>1, <1>5 DEF Faithful

\* A finding is tokenized, or the rewrite fails.
LEMMA TokenizeFaithful ==
  ASSUME EInv, Faithful, TokenizeFinding
  PROVE  Faithful'
<1> DEFINE i == Head(work).target
           f == Head(work).finding
           v == Slice(request[i].text, f)
           c == f.data_class
           drawn == Drawn(request, plans)
<1>1. PICK r \in issue_tracked(entries, sequence, Scope, c, v, now, Ttl[c]) :
        IF r.token = NoToken THEN phase' = "rejected"
        ELSE /\ entries' = r.entries /\ body' = HeadReplaced(r.token)
             /\ work' = Tail(work) /\ phase' = phase
  BY DEF TokenizeFinding, HeadReplaced
<1>2. /\ phase = "rewrite" /\ work # <<>> /\ f.action = "tokenize"
      /\ request' = request /\ now' = now /\ plans' = plans
  BY DEF TokenizeFinding
<1>3. CASE r.token = NoToken
  BY <1>1, <1>3 DEF Faithful
<1>4. CASE r.token # NoToken
  <2>1. /\ work \in Seq(Items) /\ LedgerOK(entries, sequence)
        /\ Progress(request, plans, work, body, entries, now)
    BY <1>2 DEF EInv, Typed, Pending, Faithful
  <2>2. Head(work) = work[1] /\ 1 \in DOMAIN work /\ work[1] \in Items
    BY <1>2, <2>1, TakeHead
  <2>3. i \in DOMAIN request /\ c \in Classes
    BY <2>2, ItemIs
  <2>4. now \in Instant /\ Ttl[c] \in Nat \ {0}
    <3>1. clock \in 0..MaxTime /\ now \in 0..clock
      BY DEF EInv, Typed, Instant
    <3>2. now \in 0..MaxTime
      BY <3>1, ConstantsAssumption
    <3> QED BY <2>3, <3>2, PolicyAssumption DEF Instant
  <2>5. v \in drawn
    <3>1. f \in Todo(work, i)
      BY <2>2 DEF Todo
    <3>2. Todo(work, i) \subseteq Range(plans[i]) /\ i \in DOMAIN plans
      BY <2>1, <2>3 DEF Progress
    <3>3. PICK j \in DOMAIN plans[i] : plans[i][j] = f
      BY <3>1, <3>2 DEF Range
    <3>4. v \in {Slice(request[i].text, plans[i][k])
                   : k \in {l \in DOMAIN plans[i] : plans[i][l].action = "tokenize"}}
      BY <1>2, <3>3
    <3> QED BY <3>2, <3>4 DEF Drawn
  <2> HIDE DEF v, c, drawn
  <2>6. \A a : a \in BodyTokens => Owned(entries, Scope, a, now) \/ Crowded(entries, now)
    BY <1>2 DEF EInv, Live, Crowded
  <2>7. DOMAIN body = DOMAIN request
    BY <2>1 DEF Progress
  <2>8. ASSUME NEW k \in DOMAIN request, NEW p \in DOMAIN body[k], NEW e,
               Fits(body[k][p], e, request[k].text, entries, now, drawn)
        PROVE  Fits(body[k][p], e, request[k].text, r.entries, now, drawn)
    <3> DEFINE a == body[k][p]
               text == request[k].text
    <3>1. a \in Token => a \in BodyTokens
      BY <2>7 DEF BodyTokens
    <3>2. Fits(a, e, text, entries, now, drawn)
      BY <2>8
    <3> HIDE DEF a, text
    <3>3. a \in Token => Owned(entries, Scope, a, now) \/ Crowded(entries, now)
      BY <2>6, <3>1
    <3>4. Fits(a, e, text, r.entries, now, drawn)
      BY <1>4, <2>1, <2>4, <2>5, <3>2, <3>3, IssueFits
    <3> QED BY <3>4 DEF a, text
  <2>9. Progress(request, plans, work, body, r.entries, now)
    BY <2>1, <2>8, ProgressRepairs DEF drawn
  <2>10. r.token \in Token
    BY <1>4, <2>1, <2>4, IssueMappings
  <2>11. Fits(r.token, f, request[i].text, r.entries, now, drawn)
    <3>1. r.entries[r.token].value = v
      BY <1>4, <2>1, IssueValue
    <3>2. r.token.label = c
      BY <1>4, <2>1, IssueLabel
    <3> QED BY <1>2, <2>10, <3>1, <3>2 DEF Fits, v, c
  <2>12. Progress(request, plans, Tail(work), HeadReplaced(r.token), r.entries, now)
    <3>1. f.action # "allow" /\ r.token \in Token \cup Masks
      BY <1>2, <2>10
    <3> QED BY <1>2, <2>9, <2>11, <3>1, HeadProgress DEF drawn
  <2> QED BY <1>1, <1>2, <1>4, <2>12 DEF Faithful
<1> QED BY <1>3, <1>4

\* Every step keeps the texts faithful.
LEMMA NextFaithful ==
  ASSUME EInv, Faithful, [Next]_vars
  PROVE  Faithful'
<1>1. CASE \/ Tick \/ UNCHANGED vars
  <2>1. /\ phase' = phase /\ request' = request /\ plans' = plans /\ work' = work
        /\ body' = body /\ entries' = entries /\ now' = now
    BY <1>1 DEF Tick, vars, ledger, job
  <2> QED BY <2>1 DEF Faithful
<1>2. CASE \/ \E req \in Requests : BeginProtect(req)
           \/ RejectUnparsed \/ RejectScan \/ ScanPanics \/ RewriteFails \/ Finish
           \/ \E text \in Displays, at \in 0..clock : RestoreDisplayText(text, at)
  <2>1. phase' \in {"inspect", "rejected", "panicked", "idle"}
    BY <1>2 DEF BeginProtect, RejectUnparsed, RejectScan, ScanPanics, ScanStops,
                RewriteFails, Finish, RestoreDisplayText
  <2> QED BY <2>1 DEF Faithful
<1>3. CASE Scan
  BY <1>3, ScanFaithful
<1>4. CASE SkipAllowed
  BY <1>4, SkipFaithful
<1>5. CASE MaskFinding
  BY <1>5, MaskFaithful
<1>6. CASE TokenizeFinding
  BY <1>6, TokenizeFaithful
<1>7. CASE Serialize
  <2>1. /\ phase = "rewrite" /\ work = <<>> /\ phase' = "forward"
        /\ request' = request /\ plans' = plans /\ work' = work
        /\ body' = body /\ entries' = entries /\ now' = now
    BY <1>7 DEF Serialize, ledger, job
  <2> QED BY <2>1 DEF Faithful
<1> QED BY <1>1, <1>2, <1>3, <1>4, <1>5, <1>6, <1>7 DEF Next

\* Rewriting keeps step with the reference in every state.
THEOREM RewriteInvariant == Spec => [](EInv /\ Faithful)
<1>1. Init => Faithful
  BY DEF Init, Faithful
<1>2. EInv /\ Faithful /\ [Next]_vars => Faithful'
  BY NextFaithful
<1> QED BY <1>1, <1>2, EngineInvariant, PTL DEF Spec

\* ForwardFaithful: a forwarded text is the original with every replaced span,
\* and nothing else, replaced by its mask or by a token that stands for it.
THEOREM ForwardFaithfulHolds == Spec => []ForwardFaithful
<1>1. Faithful => ForwardFaithful
  <2> SUFFICES ASSUME Faithful, phase = "forward", NEW i \in DOMAIN body
               PROVE  /\ Len(body[i]) = Len(Skeleton(i))
                      /\ \A p \in DOMAIN body[i] :
                           \/ body[i][p] = Skeleton(i)[p]
                           \/ \E j \in Replaced(i) :
                                /\ Skeleton(i)[p] = Slot(plans[i][j])
                                /\ FillsSlot(body[i][p], plans[i][j], i)
    BY DEF ForwardFaithful
  <2> DEFINE text == request[i].text
             plan == plans[i]
             drawn == Drawn(request, plans)
             A == Marks(text)
             R == Fillings(text, plan, entries, now, drawn)
             z == FlattenSeq(Pieces(text, plan))
  <2>1. Progress(request, plans, work, body, entries, now) /\ work = <<>>
    BY DEF Faithful
  <2>2. Todo(work, i) = {}
    BY <2>1 DEF Todo
  <2>3. PlanOf(A, text, plan) /\ Rewriting(A, text, plan, body[i], {}, R)
    BY <2>1, <2>2 DEF Progress
  <2>4. Skeleton(i) = z /\ Replaced(i) = Rewrites(plan)
    BY DEF Skeleton, Pieces, Replaced, Rewrites
  <2>5. Matched(body[i], z, R)
    <3> HIDE DEF A, text, plan, R, z
    <3>1. Matched(body[i], FlattenSeq(Pieces(text, plan)), R)
      BY <2>3, RewritingEnds
    <3> QED BY <3>1 DEF z
  <2>6. ASSUME NEW a, NEW j \in Rewrites(plan), Fits(a, plan[j], text, entries, now, drawn)
        PROVE  FillsSlot(a, plan[j], i)
    <3>1. ASSUME entries[a].value \in drawn, Crowded(entries, now) PROVE Redrawn(a)
      <4>1. \E k \in DOMAIN plans : \E l \in DOMAIN plans[k] :
              /\ plans[k][l].action = "tokenize"
              /\ entries[a].value = Slice(request[k].text, plans[k][l])
        BY <3>1 DEF Drawn
      <4>2. \A k \in DOMAIN plans : \A l \in DOMAIN plans[k] :
              plans[k][l].action = "tokenize" => l \in Replaced(k)
        BY DEF Replaced
      <4> QED BY <3>1, <4>1, <4>2 DEF Redrawn, Crowded
    <3> QED BY <2>6, <3>1 DEF Fits, FillsSlot
  <2>7. ASSUME NEW p \in DOMAIN body[i]
        PROVE  \/ body[i][p] = z[p]
               \/ \E j \in Rewrites(plan) : /\ z[p] = Slot(plan[j])
                                            /\ FillsSlot(body[i][p], plan[j], i)
    <3> DEFINE a == body[i][p]
               m == z[p]
    <3>1. a = m \/ <<a, m>> \in R
      BY <2>5 DEF Matched
    <3> HIDE DEF a, m, z
    <3>2. CASE <<a, m>> \in R
      <4>1. PICK j \in Rewrites(plan) : m = Slot(plan[j])
                                         /\ Fits(a, plan[j], text, entries, now, drawn)
        BY <3>2, FillingIs
      <4>2. FillsSlot(a, plan[j], i)
        BY <2>6, <4>1
      <4> QED BY <4>1, <4>2 DEF a, m
    <3> QED BY <3>1, <3>2 DEF a, m
  <2> HIDE DEF z
  <2>8. Len(body[i]) = Len(z)
    BY <2>5 DEF Matched
  <2> QED BY <2>4, <2>7, <2>8
<1> QED BY <1>1, RewriteInvariant, PTL

-----------------------------------------------------------------------------
(* The display of a rewritten text *)

\* One part more.
LEMMA FlattenMore ==
  ASSUME NEW B, NEW n \in Nat, NEW ss \in [1..n -> Texts(B)], NEW s \in Texts(B),
         NEW k, k = n + 1, NEW tt \in [1..k -> Texts(B)],
         \A i \in 1..n : tt[i] = ss[i], tt[k] = s
  PROVE  FlattenSeq(tt) = Cat(FlattenSeq(ss), s)
<1>1. PICK g : /\ g[0] = <<>> /\ FlattenSeq(ss) = g[n]
               /\ \A i \in 1..n : g[i] = Cat(g[i - 1], ss[i])
  BY FlattenLaws, SMTT(60)
<1>2. PICK h : /\ h[0] = <<>> /\ FlattenSeq(tt) = h[n + 1]
               /\ \A i \in 1..n + 1 : h[i] = Cat(h[i - 1], tt[i])
  <2> DEFINE m == n + 1
  <2>1. m \in Nat /\ tt \in [1..m -> Texts(B)]
    OBVIOUS
  <2> HIDE DEF m
  <2>2. \E h : /\ h[0] = <<>> /\ FlattenSeq(tt) = h[m]
               /\ \A i \in 1..m : h[i] = Cat(h[i - 1], tt[i])
    BY <2>1, FlattenLaws, SMTT(60)
  <2> QED BY <2>2 DEF m
<1> DEFINE Good(i) == h[i] = g[i]
           Bad == {i \in 0..n : ~Good(i)}
<1>3. Good(0)
  BY <1>1, <1>2
<1>4. ASSUME NEW i \in 1..n, Good(i - 1) PROVE Good(i)
  <2>1. i \in 1..n + 1
    OBVIOUS
  <2> QED BY <1>1, <1>2, <1>4, <2>1
<1> HIDE DEF Good
<1>5. Bad = {}
  <2> SUFFICES ASSUME Bad # {} PROVE FALSE
    OBVIOUS
  <2>1. PICK i \in Bad : \A m \in Bad : i <= m
    <3>1. Bad \in SUBSET Nat
      OBVIOUS
    <3> HIDE DEF Bad
    <3> QED BY <3>1, LeastNatural
  <2>2. i # 0
    BY <1>3
  <2>3. i \in 1..n /\ i - 1 \in 0..n
    BY <2>1, <2>2
  <2>4. Good(i - 1)
    BY <2>1, <2>3
  <2> QED BY <1>4, <2>1, <2>3, <2>4
<1>6. h[n] = g[n]
  BY <1>5 DEF Good
<1>7. h[n + 1] = Cat(h[n], s)
  <2>1. n + 1 \in 1..n + 1 /\ (n + 1) - 1 = n
    OBVIOUS
  <2> QED BY <1>2, <2>1
<1> QED BY <1>1, <1>2, <1>6, <1>7

\* A text in which every atom is shown as F says.
Shown(F, u) == FlattenSeq([q \in DOMAIN u |-> F[u[q]]])

\* Showing goes atom by atom.
LEMMA ShownMore ==
  ASSUME NEW A, NEW B, NEW F \in [A -> Texts(B)], NEW u \in Texts(A), NEW m \in A
  PROVE  Shown(F, Cat(u, <<m>>)) = Cat(Shown(F, u), F[m]) /\ Shown(F, u) \in Texts(B)
<1> DEFINE n == Len(u)
           x == <<m>>
           w == Cat(u, x)
           ss == [q \in DOMAIN u |-> F[u[q]]]
           tt == [q \in DOMAIN w |-> F[w[q]]]
<1>1. x \in Texts(A) /\ Len(x) = 1 /\ x[1] = m /\ 1 \in 1..1
  BY DEF Texts
<1>2. /\ n \in Nat /\ DOMAIN u = 1..n /\ DOMAIN w = 1..n + Len(x)
      /\ \A q \in 1..n : w[q] = u[q]
      /\ \A q \in 1..Len(x) : w[n + q] = x[q]
  <2>1. x \in Texts(A)
    BY <1>1
  <2> HIDE DEF x
  <2> QED BY <2>1, CatAtoms
<1>3. DOMAIN w = 1..n + 1 /\ w[n + 1] = m
  BY <1>1, <1>2
<1>4. \A q \in 1..n : u[q] \in A
  BY <1>2 DEF Texts
<1> HIDE DEF w, n
<1>5. ss \in [1..n -> Texts(B)] /\ \A q \in 1..n : ss[q] = F[u[q]]
  BY <1>2, <1>4
<1>6. \A q \in 1..n + 1 : w[q] \in A /\ (q \in 1..n \/ q = n + 1)
  BY <1>2, <1>3, <1>4
<1>7. tt \in [1..n + 1 -> Texts(B)] /\ \A q \in 1..n + 1 : tt[q] = F[w[q]]
  BY <1>3, <1>6
<1>8. n + 1 \in 1..n + 1 /\ \A q \in 1..n : q \in 1..n + 1
  BY <1>2
<1>9. tt[n + 1] = F[m] /\ F[m] \in Texts(B) /\ \A q \in 1..n : tt[q] = ss[q]
  BY <1>2, <1>3, <1>5, <1>7, <1>8
<1> HIDE DEF ss, tt
<1>10. FlattenSeq(tt) = Cat(FlattenSeq(ss), F[m])
  <2> DEFINE y == F[m]
             k == n + 1
  <2>1. k = n + 1 /\ tt \in [1..k -> Texts(B)] /\ tt[k] = y /\ y \in Texts(B)
    BY <1>7, <1>9
  <2> HIDE DEF y, k
  <2>2. FlattenSeq(tt) = Cat(FlattenSeq(ss), y)
    BY <1>2, <1>5, <1>9, <2>1, FlattenMore
  <2> QED BY <2>2 DEF y
<1>11. FlattenSeq(ss) \in Texts(B)
  <2>1. PICK g : FlattenSeq(ss) = g[n] /\ \A i \in 0..n : g[i] \in Texts(B)
    BY <1>2, <1>5, FlattenLaws, SMTT(60)
  <2> QED BY <1>2, <2>1
<1> QED BY <1>10, <1>11 DEF Shown, ss, tt, w, x

\* What the display of a rewritten text is to be: the original where a span
\* was replaced, and elsewhere what the original shows.
Originals(text, plan, held) ==
  [p \in DOMAIN text |->
    IF \E j \in Rewrites(plan) : Covers(plan[j], p) THEN <<text[p]>>
    ELSE Seen(held, text[p])]

\* No replaced span goes from position p to the next.
Between(plan, p) == \A j \in Rewrites(plan) : ~(Covers(plan[j], p) /\ Covers(plan[j], p + 1))

\* A skeleton in which each slot shows the text it replaced shows the original.
LEMMA SkeletonShows ==
  ASSUME NEW A, NEW text, NEW plan, PlanOf(A, text, plan), NEW held,
         NEW F \in [A -> Texts(A)],
         \A j \in Rewrites(plan) : F[Slot(plan[j])] = Slice(text, plan[j]),
         \A p \in 1..Len(text) : (\A j \in Rewrites(plan) : ~Covers(plan[j], p))
           => F[text[p]] = Seen(held, text[p])
  PROVE  Shown(F, FlattenSeq(Pieces(text, plan))) = FlattenSeq(Originals(text, plan, held))
<1> DEFINE N == Len(text)
           ww == Originals(text, plan, held)
<1>1. text \in Texts(A) /\ N \in Nat /\ DOMAIN text = 1..N
  BY PartLaws DEF PlanOf
<1>2. PICK g : Builds(g, A, text, plan)
  BY SkeletonBuilds
<1>3. \A p \in 1..N : text[p] \in A /\ <<text[p]>> \in Texts(A)
  BY <1>1 DEF Texts
<1>4. ASSUME NEW p \in 1..N
      PROVE  /\ (\A j \in Rewrites(plan) : ~Covers(plan[j], p)) => ww[p] = F[text[p]]
             /\ (\E j \in Rewrites(plan) : Covers(plan[j], p)) => ww[p] = <<text[p]>>
             /\ ww[p] \in Texts(A)
  <2>1. ww[p] = IF \E j \in Rewrites(plan) : Covers(plan[j], p) THEN <<text[p]>>
                ELSE Seen(held, text[p])
    BY <1>1 DEF Originals
  <2>2. F[text[p]] \in Texts(A)
    BY <1>3
  <2> QED BY <1>3, <2>1, <2>2
<1>5. ww \in [1..N -> Texts(A)]
  <2>1. ww = [p \in 1..N |-> ww[p]]
    BY <1>1 DEF Originals
  <2> HIDE DEF ww
  <2> QED BY <1>4, <2>1
<1> HIDE DEF ww, N
<1>6. PICK G : /\ G[0] = <<>> /\ FlattenSeq(ww) = G[N]
               /\ \A p \in 0..N : G[p] \in Texts(A)
               /\ \A p \in 1..N : G[p] = Cat(G[p - 1], ww[p])
  BY <1>1, <1>5, FlattenLaws, SMTT(60)
<1> DEFINE Good(p) == Between(plan, p) => Shown(F, g[p]) = G[p]
           Bad == {p \in 0..N : ~Good(p)}
<1>7. g[0] = <<>> /\ g[N] = FlattenSeq(Pieces(text, plan)) /\ \A p \in 0..N : g[p] \in Texts(A)
  BY <1>2 DEF Builds, N
<1>8. Good(0)
  <2>1. [q \in DOMAIN <<>> |-> F[<<>>[q]]] = <<>>
    OBVIOUS
  <2>2. Shown(F, <<>>) = <<>>
    BY <2>1 DEF Shown, FlattenSeq
  <2> QED BY <1>6, <1>7, <2>2
<1>9. ASSUME NEW p \in 1..N, \A m \in 0..p - 1 : Good(m), Between(plan, p)
      PROVE  Shown(F, g[p]) = G[p]
  <2>0. p \in Nat /\ p - 1 \in 0..N /\ p - 1 \in 0..p - 1
    BY <1>1
  <2>1. CASE \A j \in Rewrites(plan) : ~Covers(plan[j], p)
    <3>1. g[p] = Cat(g[p - 1], <<text[p]>>)
      <4>1. Pieces(text, plan)[p] = <<text[p]>>
        BY <2>1, PieceIs DEF N
      <4> QED BY <1>2, <4>1 DEF Builds, N
    <3>2. G[p] = Cat(G[p - 1], F[text[p]])
      BY <1>4, <1>6, <2>1
    <3>3. Between(plan, p - 1)
      <4>1. (p - 1) + 1 = p
        BY <2>0
      <4> QED BY <2>1, <4>1 DEF Between
    <3>4. Shown(F, g[p - 1]) = G[p - 1]
      BY <1>9, <2>0, <3>3
    <3>5. Shown(F, Cat(g[p - 1], <<text[p]>>)) = Cat(Shown(F, g[p - 1]), F[text[p]])
      <4>1. g[p - 1] \in Texts(A) /\ text[p] \in A
        BY <1>3, <1>7, <2>0
      <4> QED BY <4>1, ShownMore
    <3> QED BY <3>1, <3>2, <3>4, <3>5
  <2>2. CASE \E j \in Rewrites(plan) : Covers(plan[j], p)
    <3>1. PICK j \in Rewrites(plan) : Covers(plan[j], p)
      BY <2>2
    <3> DEFINE a == plan[j].start
               b == plan[j].end
               lo == a - 1
    <3>2. j \in DOMAIN plan /\ a \in Nat /\ b \in Nat /\ 1 <= a /\ a < b /\ b <= N + 1
      BY PlanFields DEF Rewrites, N
    <3>3. p = b - 1
      <4>1. a <= p /\ p < b
        BY <3>1 DEF Covers
      <4>2. ~Covers(plan[j], p + 1)
        BY <1>9, <3>1 DEF Between
      <4>3. ~(p + 1 < b)
        BY <2>0, <3>2, <4>1, <4>2 DEF Covers
      <4> QED BY <2>0, <3>2, <4>1, <4>3
    <3>4. lo \in 0..N /\ lo \in 0..p - 1 /\ lo + 1 = a /\ p \in lo..N
      BY <1>1, <2>0, <3>2, <3>3, SMTT(30)
    <3>5. g[p] = Cat(g[lo], <<Slot(plan[j])>>)
      <4>1. p \in a..b - 1
        BY <2>0, <3>2, <3>3
      <4>2. \A q \in a..b - 1 : g[q] = Cat(g[lo], <<Slot(plan[j])>>)
        BY <1>2, SpanRun, SMTT(30)
      <4> HIDE DEF a, b, lo
      <4> QED BY <4>1, <4>2
    <3>6. Between(plan, lo)
      <4> SUFFICES ASSUME NEW k \in Rewrites(plan), Covers(plan[k], lo), Covers(plan[k], lo + 1)
                   PROVE  FALSE
        BY DEF Between
      <4>1. Covers(plan[j], a)
        BY <3>2 DEF Covers
      <4>2. k \in DOMAIN plan /\ Covers(plan[k], a)
        BY <3>4 DEF Rewrites
      <4>3. k = j
        BY <3>2, <4>1, <4>2, CoveredOnce
      <4>4. a <= lo
        BY <4>3 DEF Covers
      <4> QED BY <3>2, <4>4
    <3>7. Shown(F, g[lo]) = G[lo]
      BY <1>9, <3>4, <3>6
    <3>8. Shown(F, Cat(g[lo], <<Slot(plan[j])>>)) = Cat(Shown(F, g[lo]), Slice(text, plan[j]))
      <4>1. g[lo] \in Texts(A) /\ Slot(plan[j]) \in A
        BY <1>7, <3>2, <3>4 DEF PlanOf
      <4>2. Shown(F, Cat(g[lo], <<Slot(plan[j])>>)) = Cat(Shown(F, g[lo]), F[Slot(plan[j])])
        BY <4>1, ShownMore
      <4> QED BY <4>2
    <3>9. Slice(text, plan[j]) = Part(text, lo + 1, p)
      BY <3>2, <3>3, <3>4 DEF Slice, Part
    <3>10. G[p] = Cat(G[lo], Part(text, lo + 1, p))
      <4>1. \A q \in lo + 1..p : G[q] = Cat(G[q - 1], <<text[q]>>)
        <5> SUFFICES ASSUME NEW q \in lo + 1..p PROVE G[q] = Cat(G[q - 1], <<text[q]>>)
          OBVIOUS
        <5>1. q \in 1..N /\ Covers(plan[j], q)
          BY <1>1, <2>0, <3>2, <3>3 DEF Covers
        <5>2. ww[q] = <<text[q]>>
          BY <1>4, <5>1
        <5> QED BY <1>6, <5>1, <5>2
      <4>2. G[lo] \in Texts(A) /\ lo \in 0..Len(text) /\ p \in lo..Len(text)
        BY <1>6, <3>4 DEF N
      <4> HIDE DEF lo
      <4> QED BY <1>1, <4>1, <4>2, LiteralRun
    <3> HIDE DEF lo
    <3> QED BY <3>5, <3>7, <3>8, <3>9, <3>10
  <2> QED BY <2>1, <2>2
<1> HIDE DEF Good
<1>10. Bad = {}
  <2> SUFFICES ASSUME Bad # {} PROVE FALSE
    OBVIOUS
  <2>1. PICK p \in Bad : \A m \in Bad : p <= m
    <3>1. Bad \in SUBSET Nat
      BY <1>1
    <3> HIDE DEF Bad
    <3> QED BY <3>1, LeastNatural
  <2>2. p # 0
    BY <1>8
  <2>3. p \in 1..N
    BY <1>1, <2>1, <2>2
  <2>4. \A m \in 0..p - 1 : Good(m)
    <3> SUFFICES ASSUME NEW m \in 0..p - 1 PROVE Good(m)
      OBVIOUS
    <3>1. m \in 0..N /\ ~(p <= m)
      BY <1>1, <2>3
    <3> QED BY <2>1, <3>1
  <2>5. Good(p)
    BY <1>9, <2>3, <2>4 DEF Good
  <2> QED BY <2>1, <2>5
<1>11. Between(plan, N)
  <2> SUFFICES ASSUME NEW j \in Rewrites(plan), Covers(plan[j], N), Covers(plan[j], N + 1)
               PROVE  FALSE
    BY DEF Between
  <2>1. plan[j].end \in Nat /\ plan[j].end <= N + 1 /\ N + 1 < plan[j].end
    BY PlanFields DEF Rewrites, Covers, N
  <2> QED BY <1>1, <2>1
<1>12. Shown(F, g[N]) = G[N]
  <2>1. N \in 0..N
    BY <1>1
  <2>2. Good(N)
    BY <1>10, <2>1
  <2> QED BY <1>11, <2>2 DEF Good
<1> QED BY <1>6, <1>7, <1>12 DEF ww

\* A slot is not a token.
LEMMA SlotNoToken ==
  ASSUME NEW f
  PROVE  Slot(f) \notin Token
<1>1. DOMAIN Slot(f) = {"slot"}
  BY DEF Slot
<1>2. \A t \in Token : DOMAIN t = {"label", "hex"}
  BY DEF Token
<1> QED BY <1>1, <1>2

\* The text of a slot is that of its finding.
LEMMA SlotOf ==
  ASSUME NEW f, NEW e, Slot(f) = Slot(e)
  PROVE  f = e
<1>1. Slot(f).slot = f /\ Slot(e).slot = e
  BY DEF Slot
<1> QED BY <1>1

\* RoundTrip for one target.
LEMMA RestoredIs ==
  ASSUME NEW A, NEW text, NEW plan, PlanOf(A, text, plan), Values \subseteq Texts(A),
         NEW L, NEW seq, LedgerOK(L, seq), NEW at, NEW out \in Texts(A), NEW z,
         z = FlattenSeq(Pieces(text, plan)), NEW R, Matched(out, z, R),
         \A a, m : <<a, m>> \in R => \E j \in Rewrites(plan) : m = Slot(plan[j]),
         Kept(text, plan, 1, out, z),
         \A q \in DOMAIN out : \A j \in Rewrites(plan) : z[q] = Slot(plan[j]) =>
           /\ Owned(L, Scope, out[q], at) /\ L[out[q]].value = Slice(text, plan[j]),
         \A j \in Rewrites(plan) : Slice(text, plan[j]) \in Values
  PROVE  restore_display_text(L, seq, out, at).text
           = FlattenSeq(Originals(text, plan, purge_expired(L, at)))
<1> DEFINE held == purge_expired(L, at)
<1>1. restore_display_text(L, seq, out, at).text
         = FlattenSeq([q \in DOMAIN out |-> Seen(held, out[q])])
  BY DisplayIs
<1> DEFINE Slots == {Slot(plan[j]) : j \in Rewrites(plan)}
           Of(m) == plan[CHOOSE j \in Rewrites(plan) : m = Slot(plan[j])]
           F == [m \in A |-> IF m \in Slots THEN Slice(text, Of(m)) ELSE Seen(held, m)]
<1>2. /\ DOMAIN held = {t \in DOMAIN L : L[t].expires_at > at}
      /\ \A t \in DOMAIN held : held[t] = L[t]
  BY PurgeDomain, PurgeOK
<1>3. \A t \in DOMAIN L : t \in Token /\ L[t].value \in Values
  BY DEF LedgerOK, LedgerType, Entry
<1>4. ASSUME NEW j \in Rewrites(plan) PROVE Of(Slot(plan[j])) = plan[j]
  <2> DEFINE m == Slot(plan[j])
             k == CHOOSE i \in Rewrites(plan) : m = Slot(plan[i])
  <2>1. m = Slot(plan[k])
    OBVIOUS
  <2>2. Slot(plan[j]) = Slot(plan[k])
    BY <2>1
  <2> HIDE DEF k, m
  <2>3. plan[j] = plan[k]
    BY <2>2, SlotOf
  <2> QED BY <2>3 DEF k, m
<1>5. \A j \in Rewrites(plan) : /\ Slot(plan[j]) \in A /\ Slot(plan[j]) \in Slots
                                /\ F[Slot(plan[j])] = Slice(text, plan[j])
  <2> SUFFICES ASSUME NEW j \in Rewrites(plan)
               PROVE  /\ Slot(plan[j]) \in A /\ Slot(plan[j]) \in Slots
                      /\ F[Slot(plan[j])] = Slice(text, plan[j])
    OBVIOUS
  <2>1. Slot(plan[j]) \in A
    BY DEF PlanOf, Rewrites
  <2>2. Slot(plan[j]) \in Slots
    OBVIOUS
  <2>3. Of(Slot(plan[j])) = plan[j]
    BY <1>4
  <2> HIDE DEF Slots, Of
  <2> QED BY <2>1, <2>2, <2>3
<1> HIDE DEF held
<1>6. \A m \in A : Seen(held, m) \in Texts(A)
  <2> SUFFICES ASSUME NEW m \in A PROVE Seen(held, m) \in Texts(A)
    OBVIOUS
  <2>1. <<m>> \in Texts(A)
    BY DEF Texts
  <2>2. m \in DOMAIN held => held[m].value \in Texts(A)
    BY <1>2, <1>3
  <2> QED BY <2>1, <2>2 DEF Seen
<1>7. F \in [A -> Texts(A)]
  <2>1. ASSUME NEW m \in A, m \in Slots PROVE Slice(text, Of(m)) \in Texts(A)
    <3>1. PICK j \in Rewrites(plan) : m = Slot(plan[j])
      BY <2>1
    <3>2. Of(m) = plan[j]
      BY <1>4, <3>1
    <3> HIDE DEF Of
    <3> QED BY <3>1, <3>2
  <2> HIDE DEF Slots, Of
  <2> QED BY <1>6, <2>1
<1>8. \A m \in A : m \notin Slots => F[m] = Seen(held, m)
  <2> HIDE DEF Slots, Of
  <2> QED OBVIOUS
<1>9. \A m : m \in Slots <=> \E j \in Rewrites(plan) : m = Slot(plan[j])
  OBVIOUS
<1> HIDE DEF F, Slots, Of
<1>10. PICK g : Builds(g, A, text, plan)
  BY SkeletonBuilds
<1>11. z \in Texts(A)
  <2>1. text \in Texts(A)
    BY DEF PlanOf
  <2>2. Len(text) \in 0..Len(text)
    BY <2>1, PartLaws
  <2> QED BY <1>10, <2>2 DEF Builds
<1>12. DOMAIN out = DOMAIN z /\ \A q \in DOMAIN out : z[q] \in A
  <2>0. Len(out) = Len(z)
    BY DEF Matched
  <2>1. DOMAIN out = DOMAIN z
    BY <1>11, <2>0, PartLaws
  <2> QED BY <1>11, <2>1 DEF Texts
<1>13. ASSUME NEW q \in DOMAIN out PROVE Seen(held, out[q]) = F[z[q]]
  <2>1. CASE z[q] \in Slots
    <3>1. PICK j \in Rewrites(plan) : z[q] = Slot(plan[j])
      BY <1>9, <2>1
    <3>2. Owned(L, Scope, out[q], at) /\ L[out[q]].value = Slice(text, plan[j])
      BY <3>1
    <3>3. out[q] \in DOMAIN held /\ held[out[q]] = L[out[q]] /\ L[out[q]].scope = Scope
      BY <1>2, <3>2 DEF Owned
    <3> QED BY <1>5, <3>1, <3>2, <3>3 DEF Seen
  <2>2. CASE z[q] \notin Slots
    <3>1. out[q] = z[q]
      BY <1>9, <2>2 DEF Matched
    <3> QED BY <1>8, <1>12, <2>2, <3>1
  <2> QED BY <2>1, <2>2
<1>14. ASSUME NEW p \in 1..Len(text), \A j \in Rewrites(plan) : ~Covers(plan[j], p)
       PROVE  F[text[p]] = Seen(held, text[p])
  <2>1. text \in Texts(A) /\ text[p] \in A
    BY DEF PlanOf, Texts
  <2>2. text[p] \notin Slots
    <3> SUFFICES ASSUME NEW j \in Rewrites(plan), text[p] = Slot(plan[j]) PROVE FALSE
      BY <1>9
    <3>2. PICK q \in DOMAIN out : out[q] = text[p] /\ z[q] = text[p]
      BY <1>14 DEF Kept
    <3>4. Owned(L, Scope, out[q], at)
      BY <3>2
    <3>5. out[q] \in Token /\ out[q] = Slot(plan[j])
      BY <1>3, <3>2, <3>4 DEF Owned
    <3> QED BY <3>5, SlotNoToken
  <2> QED BY <1>8, <2>1, <2>2
<1>15. FlattenSeq([q \in DOMAIN out |-> Seen(held, out[q])]) = Shown(F, z)
  <2>1. [q \in DOMAIN out |-> Seen(held, out[q])] = [q \in DOMAIN z |-> F[z[q]]]
    BY <1>12, <1>13
  <2> QED BY <2>1 DEF Shown
<1>16. Shown(F, FlattenSeq(Pieces(text, plan))) = FlattenSeq(Originals(text, plan, held))
  BY <1>5, <1>7, <1>14, SkeletonShows
<1> QED BY <1>1, <1>15, <1>16 DEF held

\* RoundTrip: restoring a rewritten text whose tokens were not lost shows the
\* original, wherever its tokens stand and whatever else is restored in it.
THEOREM RoundTripHolds == Spec => []RoundTrip
<1>1. EInv /\ Faithful => RoundTrip
  <2> SUFFICES ASSUME EInv, Faithful, phase = "forward", NEW i \in DOMAIN body, Standing(i)
               PROVE  restore_display_text(entries, sequence, body[i], now).text =
                        FlattenSeq([p \in DOMAIN request[i].text |->
                          IF \E j \in Replaced(i) : Covers(plans[i][j], p)
                          THEN <<request[i].text[p]>>
                          ELSE Seen(purge_expired(entries, now), request[i].text[p])])
    BY DEF RoundTrip
  <2> DEFINE text == request[i].text
             plan == plans[i]
             out == body[i]
             drawn == Drawn(request, plans)
             A == Marks(text)
             B == Letters(A)
             R == Fillings(text, plan, entries, now, drawn)
             z == FlattenSeq(Pieces(text, plan))
             held == purge_expired(entries, now)
  <2>1. Progress(request, plans, work, body, entries, now) /\ work = <<>>
    BY DEF Faithful
  <2>2. i \in DOMAIN request /\ Todo(work, i) = {}
    BY <2>1 DEF Progress, Todo
  <2>3. PlanOf(A, text, plan) /\ Rewriting(A, text, plan, out, {}, R)
    BY <2>1, <2>2 DEF Progress
  <2>4. Replaced(i) = Rewrites(plan) /\ Skeleton(i) = z
    BY DEF Skeleton, Pieces, Replaced, Rewrites
  <2>5. \A p \in DOMAIN out : \A j \in Rewrites(plan) : z[p] = Slot(plan[j]) =>
          /\ Owned(entries, Scope, out[p], now)
          /\ entries[out[p]].value = Slice(text, plan[j])
    <3> HIDE DEF z
    <3> QED BY <2>4 DEF Standing
  <2>6. [p \in DOMAIN text |-> IF \E j \in Replaced(i) : Covers(plan[j], p)
                               THEN <<text[p]>> ELSE Seen(held, text[p])]
          = Originals(text, plan, held)
    BY <2>4 DEF Originals
  <2>7. \A j \in Rewrites(plan) : Slice(text, plan[j]) \in Values
    <3> SUFFICES ASSUME NEW j \in Rewrites(plan) PROVE Slice(text, plan[j]) \in Values
      OBVIOUS
    <3> DEFINE n == Len(text)
               a == plan[j].start
               b == plan[j].end
    <3>1. WellFormed(request[i])
      BY <2>2, RequestIs DEF EInv
    <3>2. \A from, to \in 1..n + 1 : SubSeq(text, from, to - 1) \in Values
      BY <3>1 DEF WellFormed
    <3>3. n \in Nat
      BY <3>1 DEF WellFormed
    <3>4. a \in Nat /\ b \in Nat /\ 1 <= a /\ a < b /\ b <= n + 1
      BY <2>3, PlanFields DEF Rewrites
    <3>5. Slice(text, plan[j]) = SubSeq(text, a, b - 1)
      BY DEF Slice
    <3> HIDE DEF n, a, b
    <3>6. a \in 1..n + 1 /\ b \in 1..n + 1
      BY <3>3, <3>4
    <3> QED BY <3>2, <3>5, <3>6
  <2>8. LedgerOK(entries, sequence)
    BY DEF EInv, Typed
  <2> HIDE DEF text, plan, out, drawn, A, z
  <2>9. Matched(out, z, R) /\ out \in Texts(A) /\ Kept(text, plan, 1, out, z)
    <3> HIDE DEF R
    <3> QED BY <2>3, RewritingEnds DEF z
  <2>10. \A a, m : <<a, m>> \in R => \E j \in Rewrites(plan) : m = Slot(plan[j])
    BY FillingIs
  <2> HIDE DEF R
  <2>11. Values \subseteq Texts(B) /\ out \in Texts(B) /\ PlanOf(B, text, plan)
    <3>1. Values \subseteq Texts(B) /\ A \subseteq B /\ \A u : u \in Texts(A) => u \in Texts(B)
      BY LettersOf
    <3> HIDE DEF B
    <3> QED BY <2>3, <2>9, <3>1 DEF PlanOf
  <2> HIDE DEF B
  <2>12. restore_display_text(entries, sequence, out, now).text
           = FlattenSeq(Originals(text, plan, purge_expired(entries, now)))
    BY <2>5, <2>7, <2>8, <2>9, <2>10, <2>11, RestoredIs DEF z
  <2> QED BY <2>6, <2>12 DEF text, plan, out
<1> QED BY <1>1, RewriteInvariant, PTL

=============================================================================
