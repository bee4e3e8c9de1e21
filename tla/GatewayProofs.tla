---------------------------- MODULE GatewayProofs ----------------------------
(***************************************************************************)
(* Proofs about the gateway, for any number of requests, values, failing   *)
(* writes and crashes.                                                     *)
(*                                                                         *)
(* Audit before egress, and the refinement of EgressGate, need GInv: a row *)
(* names its request by epoch and number only, so it matters that numbers  *)
(* are given once in an epoch, that a crash begins a new epoch, and that   *)
(* every row was written under a number already given.  GInv also says     *)
(* where in a handler the pending row is known to be there.                *)
(*                                                                         *)
(* The lifecycle of the rows needs SInv: a handler writes once or twice,   *)
(* so SInv says for each place in a handler which rows it has already      *)
(* written (Story) and which one it must have written (Account).           *)
(*                                                                         *)
(* Restoration within a process run needs MInv: every mapping in the       *)
(* ledger, not only what was shown, comes from a request of this run.      *)
(*                                                                         *)
(* The dashboard needs BInv: every activity belongs to a request, and a    *)
(* handler about to record its activity has just written its newest row.   *)
(***************************************************************************)
EXTENDS Gateway, OpsProofs

Labels == {"new"} \cup Waiting \cup Working \cup Over

Line == {Torn} \cup [epoch : Nat, seq : Nat, decision : Decisions,
                     outcome : Outcomes]

GType ==
  /\ pc \in [Reqs -> Labels]
  /\ seq \in [Reqs -> Nat] /\ born \in [Reqs -> Nat]
  /\ epoch \in Nat /\ counter \in Nat
  /\ row \in [Reqs -> [decision : Decisions, outcome : Outcomes]]
  /\ file \in Seq(Line)

\* A handler has its number from fetch_add to its end, and numbers of this
\* process run come from the counter.
Numbered ==
  \A r \in Reqs :
    /\ pc[r] \in {"new", "checked"} => seq[r] = 0
    /\ pc[r] \notin {"new", "checked"} \cup Over => seq[r] > 0 /\ born[r] = epoch
    /\ seq[r] > 0 => born[r] <= epoch
    /\ seq[r] > 0 /\ born[r] = epoch => seq[r] <= counter

NumbersDistinct ==
  \A r, q \in Reqs :
    seq[r] > 0 /\ born[r] = born[q] /\ seq[r] = seq[q] => r = q

\* Every whole row belongs to a request that was numbered.
Attributed ==
  \A i \in DOMAIN file : file[i] # Torn => \E r \in Reqs : IsRowOf(file[i], r)

Recorded(r) == HasRow(r, {"pending"})

\* Places from which the body may still leave.
BeforeSend(r) ==
  \/ pc[r] \in {"new", "checked", "lock", "send"}
  \/ pc[r] \in {"audit", "mark", "record"} /\ row[r].outcome = "pending"

Gated ==
  \A r \in Reqs :
    /\ Sent(r) => Recorded(r)
    /\ BeforeSend(r) => ~Sent(r)
    /\ pc[r] = "send" => Recorded(r)
    /\ pc[r] = "record" /\ row[r].outcome = "pending" => Recorded(r)

GInv == GType /\ Numbered /\ NumbersDistinct /\ Attributed /\ Gated

-----------------------------------------------------------------------------
(* Rows.                                                                   *)

\* A row is not the remains of a torn write.
LEMMA FileRowWhole ==
  ASSUME NEW r \in Reqs, GType
  PROVE  /\ FileRow(r) \in Line
         /\ FileRow(r) # Torn
         /\ FileRow(r).epoch = born[r] /\ FileRow(r).seq = seq[r]
         /\ FileRow(r).outcome = row[r].outcome
         /\ FileRow(r).decision = row[r].decision
<1>1. FileRow(r) \in [epoch : Nat, seq : Nat, decision : Decisions,
                      outcome : Outcomes]
  BY DEF FileRow, GType
<1>2. FileRow(r) # Torn
  <2>1. DOMAIN FileRow(r) = {"epoch", "seq", "decision", "outcome"}
    BY DEF FileRow
  <2>2. DOMAIN Torn = {"torn"}
    BY DEF Torn
  <2> QED BY <2>1, <2>2
<1> QED BY <1>1, <1>2 DEF FileRow, Line

\* A step that leaves file and numbers alone leaves the rows of a request.
LEMMA SameRows ==
  ASSUME UNCHANGED <<file, seq, born>>
  PROVE  /\ \A r \in Reqs : Recorded(r)' <=> Recorded(r)
         /\ Attributed' <=> Attributed
BY DEF Recorded, HasRow, IsRowOf, Attributed

\* A line added to the file adds a row to the request it belongs to, at most.
LEMMA OneMoreLine ==
  ASSUME GType, NEW line \in Line, file' = Append(file, line),
         UNCHANGED <<seq, born>>, NEW r \in Reqs
  PROVE  Recorded(r)' <=> \/ Recorded(r)
                          \/ IsRowOf(line, r) /\ line.outcome = "pending"
<1>1. /\ Len(file) \in Nat
      /\ DOMAIN file = 1..Len(file) /\ DOMAIN file' = 1..Len(file) + 1
      /\ \A i \in DOMAIN file : file'[i] = file[i]
      /\ file'[Len(file) + 1] = line
  BY DEF GType
<1> QED BY <1>1 DEF Recorded, HasRow, IsRowOf

-----------------------------------------------------------------------------
(* Steps.                                                                  *)

\* What a step of handler r does to the gate, in EgressGate's terms.
GateSame == /\ \A q \in Reqs : Recorded(q)' <=> Recorded(q)
            /\ \A q \in Reqs : Sent(q)' <=> Sent(q)

\* A handler that moves to another place without touching file, wire or
\* numbers keeps the invariant, if the body cannot leave twice or unrecorded.
LEMMA LocalStep ==
  ASSUME GInv, NEW r \in Reqs, NEW to \in Labels, pc[r] \notin Over,
         pc' = [pc EXCEPT ![r] = to],
         NEW next \in [decision : Decisions, outcome : Outcomes],
         row' = [row EXCEPT ![r] = next],
         UNCHANGED <<epoch, counter, file, wire, seq, born>>,
         to \notin {"new", "lock", "mark", "record"},
         to = "checked" => pc[r] = "new",
         pc[r] \in {"new", "checked"} => to \in {"checked"} \cup Over,
         to = "send" => Recorded(r) /\ BeforeSend(r),
         to = "audit" /\ next.outcome = "pending" => BeforeSend(r)
  PROVE  GInv' /\ GateSame
<1> USE DEF GInv
<1>1. GateSame
  BY SameRows DEF GateSame, Sent
<1>2. GType'
  BY DEF GType
<1>3. Numbered'
  BY DEF GType, Numbered, Over, Waiting, Working, Labels
<1>4. NumbersDistinct'
  BY DEF NumbersDistinct
<1>5. Attributed'
  BY SameRows
<1>6. Gated'
  <2> SUFFICES ASSUME NEW q \in Reqs
               PROVE  /\ Sent(q)' => Recorded(q)'
                      /\ BeforeSend(q)' => ~Sent(q)'
                      /\ pc'[q] = "send" => Recorded(q)'
                      /\ pc'[q] = "record" /\ row'[q].outcome = "pending"
                           => Recorded(q)'
    BY DEF Gated
  <2>1. CASE q = r
    BY <1>1, <2>1 DEF Gated, GateSame, BeforeSend, GType
  <2>2. CASE q # r
    BY <1>1, <2>2 DEF Gated, GateSame, BeforeSend, GType
  <2> QED BY <2>1, <2>2
<1> QED BY <1>1, <1>2, <1>3, <1>4, <1>5, <1>6

\* A torn line or a row of r adds no row to another request.
LEMMA WriteLine ==
  ASSUME GInv, NEW r \in Reqs, NEW line \in Line, file' = Append(file, line),
         line # Torn => line = FileRow(r) /\ IsRowOf(line, r),
         UNCHANGED <<seq, born>>
  PROVE  /\ file' \in Seq(Line) /\ Attributed'
         /\ \A q \in Reqs : Recorded(q) => Recorded(q)'
         /\ \A q \in Reqs : Recorded(q)' => Recorded(q) \/ q = r
         /\ line # Torn /\ row[r].outcome = "pending" => Recorded(r)'
<1> USE DEF GInv
<1>1. file' \in Seq(Line)
  BY DEF GType
<1>2. \A q \in Reqs : Recorded(q)' <=> \/ Recorded(q)
                                       \/ IsRowOf(line, q) /\ line.outcome = "pending"
  BY OneMoreLine
<1>3. \A q \in Reqs : IsRowOf(line, q) => q = r
  BY DEF IsRowOf, NumbersDistinct, GType
<1>4. Attributed'
  <2>1. /\ DOMAIN file = 1..Len(file) /\ DOMAIN file' = 1..Len(file) + 1
        /\ \A i \in DOMAIN file : file'[i] = file[i]
        /\ file'[Len(file) + 1] = line /\ Len(file) \in Nat
    BY DEF GType
  <2> QED BY <2>1 DEF Attributed, IsRowOf
<1>5. line # Torn => IsRowOf(line, r) /\ line.outcome = row[r].outcome
  BY FileRowWhole
<1> QED BY <1>1, <1>2, <1>3, <1>4, <1>5

\* So it is with a write of r, whole or interrupted.
LEMMA WriteRemains ==
  ASSUME GInv, NEW r \in Reqs, pc[r] = "audit", file' \in Remains(r),
         UNCHANGED <<seq, born>>
  PROVE  /\ file' \in Seq(Line) /\ Attributed'
         /\ \A q \in Reqs : Recorded(q) => Recorded(q)'
         /\ \A q \in Reqs : Recorded(q)' => Recorded(q) \/ q = r
         /\ file' = Append(file, FileRow(r)) /\ row[r].outcome = "pending"
              => Recorded(r)'
<1> USE DEF GInv
<1>1. /\ FileRow(r) \in Line /\ FileRow(r) # Torn
      /\ IsRowOf(FileRow(r), r)
  BY FileRowWhole DEF IsRowOf, Numbered, Over
<1>2. CASE file' = file
  <2>1. file # Append(file, FileRow(r))
    BY <1>1 DEF GType
  <2> QED BY <1>2, <2>1, SameRows DEF GType
<1>3. CASE file' = Append(file, Torn)
  <2>1. Torn \in Line
    BY DEF Line
  <2>2. Append(file, Torn) # Append(file, FileRow(r))
    BY <1>1, <2>1 DEF GType
  <2> QED BY <1>3, <2>1, <2>2, WriteLine
<1>4. CASE file' = Append(file, FileRow(r))
  BY <1>1, <1>4, WriteLine
<1> QED BY <1>2, <1>3, <1>4 DEF Remains

\* The end of write_audit, well or badly: the handler records the activity only
\* after a whole write.
LEMMA WriteStep ==
  ASSUME GInv, NEW r \in Reqs, NEW to \in {"mark", "record"},
         pc[r] = "audit", pc' = [pc EXCEPT ![r] = to],
         file' \in Remains(r),
         to = "record" => file' = Append(file, FileRow(r)),
         UNCHANGED <<epoch, counter, wire, seq, born, row>>
  PROVE  GInv'
<1> USE DEF GInv
<1>1. /\ file' \in Seq(Line) /\ Attributed'
      /\ \A q \in Reqs : Recorded(q) => Recorded(q)'
      /\ file' = Append(file, FileRow(r)) /\ row[r].outcome = "pending"
           => Recorded(r)'
  BY WriteRemains
<1>2. GType'
  BY <1>1 DEF GType, Labels, Working
<1>3. Numbered'
  BY DEF GType, Numbered, Over
<1>4. NumbersDistinct'
  BY DEF NumbersDistinct
<1>5. Gated'
  BY <1>1 DEF Gated, GType, BeforeSend, Sent
<1> QED BY <1>1, <1>2, <1>3, <1>4, <1>5

\* fetch_add gives a number no row in the file has.
LEMMA AdmitStep ==
  ASSUME GInv, NEW r \in Reqs, Admit(r)
  PROVE  GInv' /\ GateSame
<1> USE DEF GInv, Admit, Goto
<1>1. \A i \in DOMAIN file :
        file[i] # Torn => ~(file[i].epoch = epoch /\ file[i].seq = counter + 1)
  BY DEF Attributed, IsRowOf, Numbered, GType
<1>2. /\ seq' = [seq EXCEPT ![r] = counter + 1] /\ born' = [born EXCEPT ![r] = epoch]
      /\ seq[r] = 0
  BY DEF Numbered
<1>3. GateSame
  <2>1. \A q \in Reqs \ {r} : Recorded(q)' <=> Recorded(q)
    BY DEF Recorded, HasRow, IsRowOf, GType
  <2>2. ~Recorded(r) /\ ~Recorded(r)'
    BY <1>1, <1>2 DEF Recorded, HasRow, IsRowOf, GType
  <2> QED BY <2>1, <2>2 DEF GateSame, Sent
<1>4. GType'
  BY DEF GType, Labels, Waiting
<1>5. Numbered'
  BY <1>2 DEF GType, Numbered, Over
<1>6. NumbersDistinct'
  BY <1>2 DEF GType, Numbered, NumbersDistinct
<1>7. Attributed'
  <2> SUFFICES ASSUME NEW i \in DOMAIN file, file[i] # Torn
               PROVE  \E q \in Reqs : IsRowOf(file[i], q)'
    BY DEF Attributed, IsRowOf
  <2>1. PICK q \in Reqs : IsRowOf(file[i], q)
    BY DEF Attributed
  <2>2. q # r
    BY <1>2, <2>1 DEF IsRowOf
  <2>3. IsRowOf(file[i], q)'
    BY <1>2, <2>1, <2>2 DEF IsRowOf, GType
  <2> QED BY <2>3
<1>8. Gated'
  BY <1>3 DEF Gated, GType, BeforeSend, GateSame
<1> QED BY <1>3, <1>4, <1>5, <1>6, <1>7, <1>8

\* The body leaves from a handler whose pending row is there, once.
LEMMA SendStep ==
  ASSUME GInv, NEW r \in Reqs, Send(r)
  PROVE  /\ GInv'
         /\ Recorded(r) /\ ~Sent(r)
         /\ \A q \in Reqs : Recorded(q)' <=> Recorded(q)
         /\ \A q \in Reqs : Sent(q)' <=> Sent(q) \/ q = r
<1> USE DEF GInv, Send, Goto, shared
<1>1. Recorded(r) /\ ~Sent(r)
  BY DEF Gated, BeforeSend
<1>2. \A q \in Reqs : Recorded(q)' <=> Recorded(q)
  BY SameRows
<1>3. \A q \in Reqs : Sent(q)' <=> Sent(q) \/ q = r
  <2> DEFINE m == [req |-> r, text |-> text[r]]
  <2>1. m.req = r
    OBVIOUS
  <2>2. wire' = wire \cup {m}
    OBVIOUS
  <2> HIDE DEF m
  <2> QED BY <2>1, <2>2 DEF Sent
<1>4. GType'
  BY DEF GType, Labels, Waiting
<1>5. Numbered'
  BY DEF GType, Numbered, Over
<1>6. NumbersDistinct'
  BY DEF NumbersDistinct
<1>7. Attributed'
  BY SameRows
<1>8. Gated'
  BY <1>1, <1>2, <1>3 DEF Gated, GType, BeforeSend
<1> QED BY <1>1, <1>2, <1>3, <1>4, <1>5, <1>6, <1>7, <1>8

\* A crash ends every handler and may complete the row one was writing.
LEMMA CrashStep ==
  ASSUME GInv, Crash
  PROVE  /\ GInv'
         /\ \A q \in Reqs : Sent(q)' <=> Sent(q)
         /\ \A q \in Reqs : Recorded(q) => Recorded(q)'
         /\ \A q \in Reqs : Recorded(q)' => Recorded(q) \/ pc[q] = "audit"
<1> USE DEF GInv
<1>1. UNCHANGED <<seq, born, wire, row>> /\ epoch' = epoch + 1 /\ counter' = 0
  BY DEF Crash
<1>2. pc' = [q \in Reqs |-> IF pc[q] \in {"new", "done"} THEN pc[q] ELSE "dropped"]
  BY DEF Crash
<1>3. \A q \in Reqs : Sent(q)' <=> Sent(q)
  BY <1>1 DEF Sent
<1>4. /\ file' \in Seq(Line) /\ Attributed'
      /\ \A q \in Reqs : Recorded(q) => Recorded(q)'
      /\ \A q \in Reqs : Recorded(q)' => Recorded(q) \/ pc[q] = "audit"
  <2>1. CASE file' = file
    BY <1>1, <2>1, SameRows DEF GType
  <2>2. CASE file' # file
    <3>1. PICK r \in Reqs : pc[r] = "audit" /\ file' \in Remains(r)
      BY <2>2 DEF Crash
    <3> QED BY <1>1, <3>1, WriteRemains
  <2> QED BY <2>1, <2>2
<1>5. GType'
  BY <1>1, <1>2, <1>4 DEF GType, Labels, Over
<1>6. Numbered'
  BY <1>1, <1>2 DEF GType, Numbered, Over
<1>7. NumbersDistinct'
  BY <1>1 DEF NumbersDistinct
<1>8. Gated'
  BY <1>1, <1>2, <1>3, <1>4 DEF Gated, BeforeSend, GType
<1> QED BY <1>3, <1>4, <1>5, <1>6, <1>7, <1>8

\* What a step of handler r may do to the gate: nothing, but it may end;
\* record r; or send it, recorded and not yet sent.
GateStep(r) ==
  /\ pc[r] \notin Over
  /\ \A q \in Reqs \ {r} : pc'[q] = pc[q] /\ (Recorded(q)' <=> Recorded(q))
                                          /\ (Sent(q)' <=> Sent(q))
  /\ \/ GateSame
     \/ pc'[r] \notin Over /\ (Recorded(r) => Recorded(r)') /\ (Sent(r)' <=> Sent(r))
     \/ /\ pc'[r] \notin Over /\ (Recorded(r)' <=> Recorded(r))
        /\ Recorded(r) /\ ~Sent(r) /\ Sent(r)'

\* A handler writes.
LEMMA WriteGate ==
  ASSUME GInv, NEW r \in Reqs, NEW to \in {"mark", "record"},
         pc[r] = "audit", pc' = [pc EXCEPT ![r] = to],
         file' \in Remains(r),
         to = "record" => file' = Append(file, FileRow(r)),
         UNCHANGED <<epoch, counter, wire, seq, born, row>>
  PROVE  GInv' /\ GateStep(r)
<1>1. GInv'
  BY WriteStep
<1>2. /\ \A q \in Reqs : Recorded(q) => Recorded(q)'
      /\ \A q \in Reqs : Recorded(q)' => Recorded(q) \/ q = r
  BY WriteRemains
<1>3. pc'[r] = to /\ \A q \in Reqs \ {r} : pc'[q] = pc[q]
  BY DEF GInv, GType
<1> QED BY <1>1, <1>2, <1>3 DEF GateStep, Sent, Over

\* A handler moves.
LEMMA LocalGate ==
  ASSUME GInv, NEW r \in Reqs, pc[r] \notin Over, GateSame,
         NEW to, pc' = [pc EXCEPT ![r] = to]
  PROVE  GateStep(r)
BY DEF GateStep, GateSame, GInv, GType

\* Every step of a handler keeps the invariant and is a step of the gate.
LEMMA HandlerStep ==
  ASSUME GInv, NEW r \in Reqs, Handler(r)
  PROVE  GInv' /\ GateStep(r)
<1>1. /\ row[r] \in [decision : Decisions, outcome : Outcomes]
      /\ row = [row EXCEPT ![r] = row[r]]
      /\ pc[r] \in Labels
  BY DEF GInv, GType
<1> USE DEF Goto, shared
<1>2. CASE CheckIn(r)
  <2>1. PICK to \in {"checked", "done"} : pc' = [pc EXCEPT ![r] = to]
    BY <1>2 DEF CheckIn
  <2>2. GInv' /\ GateSame
    BY <1>1, <1>2, <2>1, LocalStep DEF CheckIn, Labels, Working, Over
  <2> QED BY <1>2, <2>1, <2>2, LocalGate DEF CheckIn, Over
<1>3. CASE Refuse(r)
  <2>1. PICK to \in {"done"} : pc' = [pc EXCEPT ![r] = to]
    BY <1>3 DEF Refuse
  <2>2. GInv' /\ GateSame
    BY <1>1, <1>3, <2>1, LocalStep DEF Refuse, Labels, Over
  <2> QED BY <1>3, <2>1, <2>2, LocalGate DEF Refuse, Over
<1>4. CASE Admit(r)
  BY <1>4, AdmitStep, LocalGate DEF Admit, Over
<1>5. CASE Protect(r)
  <2>1. PICK next \in [decision : Decisions, outcome : Outcomes] :
          row' = [row EXCEPT ![r] = next]
    BY <1>5 DEF Protect, ForwardRow, Row, Decisions, Outcomes
  <2>2. PICK to \in {"audit"} : pc' = [pc EXCEPT ![r] = to]
    BY <1>5 DEF Protect
  <2>3. pc[r] = "lock" /\ UNCHANGED <<epoch, counter, file, wire, seq, born>>
    BY <1>5 DEF Protect
  <2>4. GInv' /\ GateSame
    BY <2>1, <2>2, <2>3, LocalStep DEF Labels, Working, Over, BeforeSend
  <2> QED BY <2>2, <2>3, <2>4, LocalGate DEF Over
<1>6. CASE WriteAudit(r)
  BY <1>6, WriteGate DEF WriteAudit, Remains
<1>7. CASE WriteFails(r)
  BY <1>7, WriteGate DEF WriteFails
<1>8. CASE MarkUnhealthy(r)
  <2>1. PICK to \in {"relay", "done"} : pc' = [pc EXCEPT ![r] = to]
    BY <1>8 DEF MarkUnhealthy, AfterAudit
  <2>2. GInv' /\ GateSame
    BY <1>1, <1>8, <2>1, LocalStep DEF MarkUnhealthy, Labels, Waiting, Over
  <2> QED BY <1>8, <2>1, <2>2, LocalGate DEF MarkUnhealthy, Over
<1>9. CASE RecordActivity(r)
  <2>1. PICK to \in {"send", "relay", "done"} :
          /\ pc' = [pc EXCEPT ![r] = to]
          /\ to = "send" => row[r].outcome = "pending"
    BY <1>9 DEF RecordActivity, AfterAudit
  <2>2. to = "send" => Recorded(r) /\ BeforeSend(r)
    BY <1>9, <2>1 DEF RecordActivity, GInv, Gated, BeforeSend
  <2>3. GInv' /\ GateSame
    BY <1>1, <1>9, <2>1, <2>2, LocalStep DEF RecordActivity, Labels, Waiting, Over
  <2> QED BY <1>9, <2>1, <2>3, LocalGate DEF RecordActivity, Over
<1>10. CASE Send(r)
  <2>1. pc'[r] = "await" /\ \A q \in Reqs \ {r} : pc'[q] = pc[q]
    BY <1>10 DEF Send, GInv, GType
  <2> QED BY <1>10, <2>1, SendStep DEF Send, GateStep, Over
<1>11. CASE UpstreamFails(r)
  <2> DEFINE next == [row[r] EXCEPT !.outcome = "failed"]
  <2>1. /\ next \in [decision : Decisions, outcome : Outcomes]
        /\ next.outcome = "failed"
    BY <1>1 DEF Outcomes
  <2>2. row' = [row EXCEPT ![r] = next]
    BY <1>11 DEF UpstreamFails, GInv, GType
  <2>3. PICK to \in {"audit"} : pc' = [pc EXCEPT ![r] = to]
    BY <1>11 DEF UpstreamFails
  <2> HIDE DEF next
  <2>4. GInv' /\ GateSame
    BY <1>11, <2>1, <2>2, <2>3, LocalStep DEF UpstreamFails, Labels, Working, Over
  <2> QED BY <1>11, <2>3, <2>4, LocalGate DEF UpstreamFails, Over
<1>12. CASE UpstreamAnswers(r)
  <2> DEFINE next == [row[r] EXCEPT !.outcome = "started"]
  <2>1. /\ next \in [decision : Decisions, outcome : Outcomes]
        /\ next.outcome = "started"
    BY <1>1 DEF Outcomes
  <2>2. row' = [row EXCEPT ![r] = next]
    BY <1>12 DEF UpstreamAnswers, GInv, GType
  <2>3. PICK to \in {"audit"} : pc' = [pc EXCEPT ![r] = to]
    BY <1>12 DEF UpstreamAnswers
  <2> HIDE DEF next
  <2>4. GInv' /\ GateSame
    BY <1>12, <2>1, <2>2, <2>3, LocalStep DEF UpstreamAnswers, Labels, Working, Over
  <2> QED BY <1>12, <2>3, <2>4, LocalGate DEF UpstreamAnswers, Over
<1>13. CASE \E t \in DisplayTokens : ReadChunk(r, t)
  <2>1. PICK to \in {"relock"} : pc' = [pc EXCEPT ![r] = to]
    BY <1>13 DEF ReadChunk
  <2>2. /\ pc[r] = "relay"
        /\ UNCHANGED <<epoch, counter, file, wire, seq, born, row>>
    BY <1>13 DEF ReadChunk
  <2>3. GInv' /\ GateSame
    BY <1>1, <2>1, <2>2, LocalStep DEF Labels, Over, Waiting
  <2> QED BY <2>1, <2>2, <2>3, LocalGate DEF Over
<1>14. CASE PushChunk(r)
  <2>1. PICK to \in {"relay"} : pc' = [pc EXCEPT ![r] = to]
    BY <1>14 DEF PushChunk
  <2>2. GInv' /\ GateSame
    BY <1>1, <1>14, <2>1, LocalStep DEF PushChunk, Labels, Over, Waiting
  <2> QED BY <1>14, <2>1, <2>2, LocalGate DEF PushChunk, Over
<1>15. CASE EndRelay(r)
  <2>1. PICK to \in {"done"} : pc' = [pc EXCEPT ![r] = to]
    BY <1>15 DEF EndRelay
  <2>2. GInv' /\ GateSame
    BY <1>1, <1>15, <2>1, LocalStep DEF EndRelay, Labels, Over
  <2> QED BY <1>15, <2>1, <2>2, LocalGate DEF EndRelay, Over
<1>16. CASE Disconnect(r)
  <2>1. PICK to \in {"dropped"} : pc' = [pc EXCEPT ![r] = to]
    BY <1>16 DEF Disconnect
  <2>2. GInv' /\ GateSame
    BY <1>1, <1>16, <2>1, LocalStep DEF Disconnect, Labels, Over, Waiting
  <2> QED BY <1>16, <2>1, <2>2, LocalGate DEF Disconnect, Over, Waiting
<1> QED
  BY <1>2, <1>3, <1>4, <1>5, <1>6, <1>7, <1>8, <1>9, <1>10, <1>11, <1>12,
     <1>13, <1>14, <1>15, <1>16 DEF Handler

-----------------------------------------------------------------------------
(* Theorems.                                                               *)

\* The state the invariant speaks of.
LEMMA GStutter ==
  ASSUME GInv, UNCHANGED <<pc, seq, born, epoch, counter, row, file, wire>>
  PROVE  GInv' /\ GateSame
<1>1. GateSame
  BY SameRows DEF GateSame, Sent
<1>2. GType' /\ Numbered' /\ NumbersDistinct' /\ Attributed'
  BY SameRows DEF GInv, GType, Numbered, NumbersDistinct
<1>3. Gated'
  BY <1>1 DEF GInv, Gated, GateSame, BeforeSend
<1> QED BY <1>1, <1>2, <1>3 DEF GInv

\* The gateway starts with no numbers, no rows and nothing sent.
LEMMA GInitially == Init => GInv
<1> SUFFICES ASSUME Init PROVE GInv
  OBVIOUS
<1>1. GType
  BY DEF Init, GType, Labels, NoRow, Decisions, Outcomes
<1>2. Numbered /\ NumbersDistinct
  BY DEF Init, Numbered, NumbersDistinct, Over
<1>3. Attributed
  BY DEF Init, Attributed
<1>4. Gated
  BY DEF Init, Gated, Sent, Recorded, HasRow
<1> QED BY <1>1, <1>2, <1>3, <1>4 DEF GInv

\* The inductive invariant holds of the gateway's behaviours.
THEOREM GatewayInvariant == Spec => []GInv
<1>1. GInv /\ [Next]_vars => GInv'
  <2> SUFFICES ASSUME GInv, [Next]_vars PROVE GInv'
    OBVIOUS
  <2>1. CASE Tick \/ UNCHANGED vars
    BY <2>1, GStutter DEF Tick, vars, shared
  <2>2. CASE Crash
    BY <2>2, CrashStep
  <2>3. CASE \E r \in Reqs : Handler(r)
    BY <2>3, HandlerStep
  <2> QED BY <2>1, <2>2, <2>3 DEF Next
<1> QED BY <1>1, GInitially, PTL DEF Spec

\* Audit before egress: responses writes and syncs the pending row before it
\* sends, for any number of racing requests, failing writes and crashes.
THEOREM EgressRecordedHolds == Spec => []EgressRecorded
<1>1. GInv => EgressRecorded
  BY DEF GInv, Gated, EgressRecorded, Recorded
<1> QED BY <1>1, GatewayInvariant, PTL

\* Every step of a handler is one of the gate, or changes nothing in it.
LEMMA HandlerRefines ==
  ASSUME GInv, NEW r \in Reqs, Handler(r)
  PROVE  [Gate!Next]_(Gate!gate)
<1> DEFINE recorded == {q \in Reqs : Recorded(q)}
           sent     == {q \in Reqs : Sent(q)}
           closed   == {q \in Reqs : pc[q] \in Over}
<1>1. GateStep(r)
  BY HandlerStep
<1>2. CASE GateSame
  <2>1. recorded' = recorded /\ sent' = sent
    BY <1>2 DEF GateSame
  <2>2. closed' = closed \/ (r \notin closed /\ closed' = closed \cup {r})
    BY <1>1 DEF GateStep
  <2> QED BY <2>1, <2>2 DEF Gate!Next, Gate!gate, Gate!Close, Recorded
<1>3. CASE /\ pc'[r] \notin Over
           /\ Recorded(r) => Recorded(r)'
           /\ Sent(r)' <=> Sent(r)
  <2>1. closed' = closed /\ sent' = sent /\ r \notin closed
    BY <1>1, <1>3 DEF GateStep
  <2>2. recorded' = recorded \/ (r \notin recorded /\ recorded' = recorded \cup {r})
    BY <1>1, <1>3 DEF GateStep
  <2> QED BY <2>1, <2>2 DEF Gate!Next, Gate!gate, Gate!Record, Recorded
<1>4. CASE /\ pc'[r] \notin Over /\ (Recorded(r)' <=> Recorded(r))
           /\ Recorded(r) /\ ~Sent(r) /\ Sent(r)'
  <2>1. closed' = closed /\ recorded' = recorded /\ sent' = sent \cup {r}
    BY <1>1, <1>4 DEF GateStep
  <2>2. r \in recorded \ (sent \cup closed)
    BY <1>1, <1>4 DEF GateStep
  <2> QED BY <2>1, <2>2 DEF Gate!Next, Gate!Send, Recorded
<1> QED BY <1>1, <1>2, <1>3, <1>4 DEF GateStep

\* A crash closes at once what was being served.
LEMMA CrashRefines ==
  ASSUME GInv, Crash
  PROVE  [Gate!Next]_(Gate!gate)
<1> DEFINE recorded == {q \in Reqs : Recorded(q)}
           sent     == {q \in Reqs : Sent(q)}
           closed   == {q \in Reqs : pc[q] \in Over}
           S == {q \in Reqs : pc[q] \notin {"new"} \cup Over}
           R == recorded' \ recorded
<1>1. /\ \A q \in Reqs : Sent(q)' <=> Sent(q)
      /\ \A q \in Reqs : Recorded(q) => Recorded(q)'
      /\ \A q \in Reqs : Recorded(q)' => Recorded(q) \/ pc[q] = "audit"
  BY CrashStep
<1>2. pc' = [q \in Reqs |-> IF pc[q] \in {"new", "done"} THEN pc[q] ELSE "dropped"]
  BY DEF Crash
<1>3. sent' = sent /\ recorded' = recorded \cup R
  BY <1>1
<1>4. closed' = closed \cup S /\ S \cap closed = {}
  BY <1>2 DEF Over
<1>5. R \in SUBSET S /\ S \in SUBSET Reqs
  BY <1>1 DEF Over
<1> QED BY <1>3, <1>4, <1>5 DEF Gate!Next, Gate!Fail, Recorded

\* The gateway implements the egress gate: a body is sent at most once, while
\* its request is served, after its complete pending record.
THEOREM ImplementsGateHolds == Spec => ImplementsGate
<1>1. Init => Gate!Init
  BY DEF Init, Gate!Init, HasRow, Sent, Over
<1>2. GInv /\ [Next]_vars => [Gate!Next]_(Gate!gate)
  <2> SUFFICES ASSUME GInv, [Next]_vars PROVE [Gate!Next]_(Gate!gate)
    OBVIOUS
  <2>1. CASE Tick \/ UNCHANGED vars
    <3>1. UNCHANGED <<file, seq, born, wire, pc>>
      BY <2>1 DEF Tick, vars, shared
    <3> QED BY <3>1 DEF Gate!gate, HasRow, IsRowOf, Sent
  <2>2. CASE Crash
    BY <2>2, CrashRefines
  <2>3. CASE \E r \in Reqs : Handler(r)
    BY <2>3, HandlerRefines
  <2> QED BY <2>1, <2>2, <2>3 DEF Next
<1> QED BY <1>1, <1>2, GatewayInvariant, PTL DEF Spec, ImplementsGate, Gate!Spec

-----------------------------------------------------------------------------
(* The rows of a request.                                                  *)

Rows(r) == {i \in DOMAIN file : IsRowOf(file[i], r)}

\* The first row may be there, and no other.
PendingOnly(r) ==
  /\ \A i \in Rows(r) : /\ file[i].outcome = "pending"
                        /\ file[i].decision = row[r].decision
  /\ \A i, j \in Rows(r) : i = j

InOrder(r) ==
  \A i, j \in Rows(r) : i < j =>
    /\ file[i].outcome = "pending"
    /\ file[j].outcome \in {"started", "failed"}
    /\ file[i].decision = file[j].decision

First == {"pending", "not_started"}
Second == {"started", "failed"}

\* Before its first row, and between its two rows.
Unwritten(r) == pc[r] = "lock" \/ (pc[r] = "audit" /\ row[r].outcome \in First)
Between(r) ==
  \/ pc[r] \in {"send", "await"}
  \/ pc[r] = "audit" /\ row[r].outcome \in Second
  \/ pc[r] \in {"mark", "record"} /\ row[r].outcome = "pending"

Story(r) ==
  /\ pc[r] \in {"audit", "mark", "record"} => row[r].outcome \in First \cup Second
  /\ Unwritten(r) => Rows(r) = {}
  /\ Between(r) => PendingOnly(r)
  /\ InOrder(r)

Account(r) ==
  /\ pc[r] = "record" => HasRow(r, {row[r].outcome})
  /\ pc[r] \in {"relay", "relock"} /\ healthy => HasRow(r, {"started"})
  /\ pc[r] = "done" /\ seq[r] > 0 /\ born[r] = epoch /\ healthy
       => HasRow(r, {"not_started", "started", "failed"})

SInv == \A r \in Reqs : Story(r) /\ Account(r)

-----------------------------------------------------------------------------

\* A request keeps its story through a step that leaves its rows, its place
\* and its next row alone; an epoch may end, an audit fail.
LEMMA KeepsStory ==
  ASSUME GType, GType', NEW r \in Reqs, Story(r), Account(r),
         seq'[r] = seq[r], born'[r] = born[r], row'[r] = row[r], pc'[r] = pc[r],
         Rows(r)' = Rows(r), \A i \in Rows(r) : file'[i] = file[i],
         healthy' => healthy \/ born'[r] # epoch' \/ pc[r] \in {"new", "dropped"},
         born[r] = epoch' => epoch' = epoch,
         pc[r] \in {"relay", "relock"} => born[r] = epoch'
  PROVE  Story(r)' /\ Account(r)'
<1>1. Story(r)'
  BY DEF Story, Unwritten, Between, PendingOnly, InOrder
<1>2. \A outcomes : HasRow(r, outcomes) => HasRow(r, outcomes)'
  <2> SUFFICES ASSUME NEW outcomes, HasRow(r, outcomes)
               PROVE  HasRow(r, outcomes)'
    OBVIOUS
  <2>1. PICK i \in Rows(r) : file[i].outcome \in outcomes
    BY DEF HasRow, Rows
  <2>2. i \in Rows(r)' /\ file'[i] = file[i]
    BY <2>1
  <2> QED BY <2>1, <2>2 DEF HasRow, Rows
<1>3. Account(r)'
  BY <1>2 DEF Account
<1> QED BY <1>1, <1>3

\* A line added to the file is a row of its request only.
LEMMA AddedRow ==
  ASSUME GType, NEW line \in Line, file' = Append(file, line),
         UNCHANGED <<seq, born>>, NEW r \in Reqs
  PROVE  /\ Rows(r) \subseteq 1..Len(file) /\ Len(file) \in Nat
         /\ \A i \in Rows(r) : file'[i] = file[i]
         /\ file'[Len(file) + 1] = line
         /\ Rows(r)' = IF IsRowOf(line, r) THEN Rows(r) \cup {Len(file) + 1}
                       ELSE Rows(r)
<1>1. /\ Len(file) \in Nat
      /\ DOMAIN file = 1..Len(file) /\ DOMAIN file' = 1..Len(file) + 1
      /\ \A i \in DOMAIN file : file'[i] = file[i]
      /\ file'[Len(file) + 1] = line
  BY DEF GType
<1>2. Rows(r)' = {i \in DOMAIN file' : IsRowOf(file'[i], r)}
  BY DEF Rows, IsRowOf
<1>3. \A i \in DOMAIN file : IsRowOf(file'[i], r) <=> IsRowOf(file[i], r)
  BY <1>1
<1>4. Rows(r)' = IF IsRowOf(line, r) THEN Rows(r) \cup {Len(file) + 1} ELSE Rows(r)
  BY <1>1, <1>2, <1>3 DEF Rows
<1> QED BY <1>1, <1>4 DEF Rows

\* What a step of handler r leaves alone.
LEMMA HandlerFrame ==
  ASSUME GInv, NEW r \in Reqs, Handler(r)
  PROVE  /\ epoch' = epoch /\ (healthy' => healthy)
         /\ \A q \in Reqs \ {r} : /\ pc'[q] = pc[q] /\ row'[q] = row[q]
                                  /\ seq'[q] = seq[q] /\ born'[q] = born[q]
         /\ \/ file' = file
            \/ pc[r] = "audit" /\ file' \in Remains(r) /\ UNCHANGED <<seq, born>>
<1> USE DEF GInv, GType, Goto, shared
<1>1. CASE CheckIn(r) \/ Refuse(r) \/ Admit(r)
  BY <1>1 DEF CheckIn, Refuse, Admit
<1>2. CASE Protect(r)
  <2>1. \E next : row' = [row EXCEPT ![r] = next]
    BY <1>2 DEF Protect, ForwardRow
  <2> QED BY <1>2, <2>1 DEF Protect
<1>3. CASE WriteAudit(r) \/ WriteFails(r)
  BY <1>3 DEF WriteAudit, WriteFails, Remains
<1>4. CASE Send(r)
  BY <1>4 DEF Send
<1>5. CASE MarkUnhealthy(r)
  BY <1>5 DEF MarkUnhealthy
<1>6. CASE RecordActivity(r)
  BY <1>6 DEF RecordActivity
<1>7. CASE UpstreamFails(r) \/ UpstreamAnswers(r)
  BY <1>7 DEF UpstreamFails, UpstreamAnswers
<1>8. CASE \E t \in DisplayTokens : ReadChunk(r, t)
  BY <1>8 DEF ReadChunk
<1>9. CASE PushChunk(r) \/ EndRelay(r) \/ Disconnect(r)
  BY <1>9 DEF PushChunk, EndRelay, Disconnect
<1> QED BY <1>1, <1>2, <1>3, <1>4, <1>5, <1>6, <1>7, <1>8, <1>9
  DEF Handler

\* An interrupted write of r leaves the rows of the others.
LEMMA OtherRows ==
  ASSUME GInv, NEW r \in Reqs, NEW q \in Reqs, q # r, pc[r] = "audit",
         file' \in Remains(r), UNCHANGED <<seq, born>>
  PROVE  Rows(q)' = Rows(q) /\ \A i \in Rows(q) : file'[i] = file[i]
<1>1. /\ FileRow(r) \in Line /\ Torn \in Line
      /\ ~IsRowOf(FileRow(r), q) /\ ~IsRowOf(Torn, q)
  <2>1. Torn \in Line /\ ~IsRowOf(Torn, q)
    BY DEF Line, IsRowOf
  <2>2. /\ FileRow(r) \in Line
        /\ FileRow(r).epoch = born[r] /\ FileRow(r).seq = seq[r]
    BY FileRowWhole DEF GInv
  <2>3. ~(seq[q] > 0 /\ born[q] = born[r] /\ seq[q] = seq[r])
    BY DEF GInv, NumbersDistinct
  <2> QED BY <2>1, <2>2, <2>3 DEF IsRowOf
<1>2. CASE file' = file
  BY <1>2 DEF Rows, IsRowOf
<1>3. ASSUME NEW line \in Line, file' = Append(file, line), ~IsRowOf(line, q)
      PROVE  Rows(q)' = Rows(q) /\ \A i \in Rows(q) : file'[i] = file[i]
  BY <1>3, AddedRow DEF GInv
<1> QED BY <1>1, <1>2, <1>3 DEF Remains

\* A step of one handler is not felt in the story of another.
LEMMA OthersKeep ==
  ASSUME GInv, GInv', SInv, NEW r \in Reqs, Handler(r), NEW q \in Reqs, q # r
  PROVE  Story(q)' /\ Account(q)'
<1>1. /\ epoch' = epoch /\ (healthy' => healthy)
      /\ pc'[q] = pc[q] /\ row'[q] = row[q]
      /\ seq'[q] = seq[q] /\ born'[q] = born[q]
  BY HandlerFrame
<1>2. Rows(q)' = Rows(q) /\ \A i \in Rows(q) : file'[i] = file[i]
  <2>1. CASE file' = file
    BY <1>1, <2>1 DEF Rows, IsRowOf
  <2>2. CASE pc[r] = "audit" /\ file' \in Remains(r) /\ UNCHANGED <<seq, born>>
    BY <2>2, OtherRows
  <2> QED BY <2>1, <2>2, HandlerFrame
<1>3. pc[q] \in {"relay", "relock"} => born[q] = epoch'
  BY <1>1 DEF GInv, Numbered, Over
<1> QED BY <1>1, <1>2, <1>3, KeepsStory DEF SInv, GInv

\* A write of r, whole or interrupted, continues the story of r.
LEMMA OwnWrite ==
  ASSUME GInv, NEW r \in Reqs, Story(r), pc[r] = "audit", file' \in Remains(r),
         UNCHANGED <<seq, born, row>>
  PROVE  /\ InOrder(r)'
         /\ row[r].outcome = "pending" => PendingOnly(r)'
         /\ file' = Append(file, FileRow(r)) => HasRow(r, {row[r].outcome})'
<1>1. /\ FileRow(r) \in Line /\ FileRow(r) # Torn
      /\ FileRow(r).outcome = row[r].outcome
      /\ FileRow(r).decision = row[r].decision
      /\ IsRowOf(FileRow(r), r)
      /\ Torn \in Line /\ ~IsRowOf(Torn, r)
  BY FileRowWhole DEF IsRowOf, GInv, Numbered, Over, Line
<1>2. /\ InOrder(r)
      /\ row[r].outcome \in First => Rows(r) = {}
      /\ row[r].outcome \in Second => PendingOnly(r)
      /\ row[r].outcome \in First \cup Second
  BY DEF Story, Unwritten, Between
<1>3. CASE file' = file
  <2>1. file # Append(file, FileRow(r))
    BY <1>1 DEF GInv, GType
  <2>2. Rows(r)' = Rows(r)
    BY <1>3 DEF Rows, IsRowOf
  <2> QED BY <1>2, <1>3, <2>1, <2>2 DEF InOrder, PendingOnly, First
<1>4. CASE file' = Append(file, Torn)
  <2>1. Append(file, Torn) # Append(file, FileRow(r))
    BY <1>1 DEF GInv, GType
  <2>2. Rows(r)' = Rows(r) /\ \A i \in Rows(r) : file'[i] = file[i]
    BY <1>1, <1>4, AddedRow DEF GInv
  <2> QED BY <1>2, <1>4, <2>1, <2>2 DEF InOrder, PendingOnly, First
<1>5. CASE file' = Append(file, FileRow(r))
  <2> DEFINE n == Len(file) + 1
  <2>1. /\ Rows(r) \subseteq 1..Len(file) /\ Len(file) \in Nat
        /\ \A i \in Rows(r) : file'[i] = file[i]
        /\ file'[n] = FileRow(r)
        /\ Rows(r)' = Rows(r) \cup {n}
    BY <1>1, <1>5, AddedRow DEF GInv
  <2>2. HasRow(r, {row[r].outcome})'
    <3>1. n \in Rows(r)' /\ file'[n].outcome = row'[r].outcome
      BY <1>1, <2>1
    <3>2. PICK i \in Rows(r)' : file'[i].outcome = row'[r].outcome
      BY <3>1
    <3> QED BY <3>2 DEF HasRow, Rows
  <2>3. row[r].outcome = "pending" => PendingOnly(r)'
    BY <1>1, <1>2, <2>1 DEF PendingOnly, First
  <2>4. InOrder(r)'
    <3>1. CASE row[r].outcome \in First
      BY <1>2, <2>1, <3>1 DEF InOrder
    <3>2. CASE row[r].outcome \in Second
      <4> SUFFICES ASSUME NEW i \in Rows(r)', NEW j \in Rows(r)', i < j
                   PROVE  /\ file'[i].outcome = "pending"
                          /\ file'[j].outcome \in {"started", "failed"}
                          /\ file'[i].decision = file'[j].decision
        BY DEF InOrder
      <4>1. i \in Rows(r) /\ j = n
        BY <1>2, <2>1, <3>2 DEF PendingOnly
      <4> QED BY <1>1, <1>2, <2>1, <3>2, <4>1 DEF PendingOnly, Second
    <3> QED BY <1>2, <3>1, <3>2
  <2> QED BY <2>2, <2>3, <2>4
<1> QED BY <1>3, <1>4, <1>5 DEF Remains

\* A step that leaves file and numbers alone.
LEMMA QuietRows ==
  ASSUME NEW r \in Reqs, UNCHANGED <<file, seq, born>>
  PROVE  /\ Rows(r)' = Rows(r)
         /\ InOrder(r)' <=> InOrder(r)
         /\ row'[r].decision = row[r].decision =>
              (PendingOnly(r)' <=> PendingOnly(r))
         /\ \A outcomes : HasRow(r, outcomes)' <=> HasRow(r, outcomes)
<1>1. Rows(r)' = Rows(r)
  BY DEF Rows, IsRowOf
<1> QED BY <1>1 DEF InOrder, PendingOnly, HasRow, IsRowOf

\* Every step of a handler continues its own story.
LEMMA OwnStep ==
  ASSUME GInv, SInv, NEW r \in Reqs, Handler(r)
  PROVE  Story(r)' /\ Account(r)'
<1>1. Story(r) /\ Account(r) /\ InOrder(r)
  BY DEF SInv, Story
<1>2. r \in DOMAIN pc /\ r \in DOMAIN row /\ r \in DOMAIN seq /\ r \in DOMAIN born
  BY DEF GInv, GType
<1> USE DEF Goto, shared
<1>3. CASE CheckIn(r) \/ Refuse(r)
  <2>1. pc'[r] \in {"checked", "done"} /\ UNCHANGED <<file, seq, born>>
    BY <1>2, <1>3 DEF CheckIn, Refuse
  <2>2. seq'[r] = 0
    BY <1>3, <2>1 DEF CheckIn, Refuse, GInv, Numbered
  <2> QED BY <1>1, <2>1, <2>2, QuietRows DEF Story, Account, Unwritten, Between
<1>4. CASE Admit(r)
  <2>1. pc'[r] = "lock" /\ seq'[r] = counter + 1 /\ born'[r] = epoch /\ file' = file
    BY <1>2, <1>4 DEF Admit
  <2>2. \A i \in DOMAIN file : file[i] # Torn =>
          ~(file[i].epoch = epoch /\ file[i].seq = counter + 1)
    BY DEF GInv, Attributed, IsRowOf, Numbered, GType
  <2>3. Rows(r)' = {}
    BY <2>1, <2>2 DEF Rows, IsRowOf
  <2> QED BY <2>1, <2>3 DEF Story, Account, Unwritten, Between, InOrder
<1>5. CASE Protect(r)
  <2>1. pc[r] = "lock" /\ pc'[r] = "audit" /\ UNCHANGED <<file, seq, born>>
    BY <1>2, <1>5 DEF Protect
  <2>2. row'[r].outcome \in First
    BY <1>2, <1>5 DEF Protect, ForwardRow, Row, First
  <2>3. Rows(r) = {}
    BY <1>1, <2>1 DEF Story, Unwritten
  <2> QED BY <1>1, <2>1, <2>2, <2>3, QuietRows
      DEF Story, Account, Unwritten, Between, First, Second
<1>6. CASE WriteAudit(r)
  <2>1. /\ pc[r] = "audit" /\ pc'[r] = "record" /\ UNCHANGED <<seq, born, row>>
        /\ file' = Append(file, FileRow(r)) /\ file' \in Remains(r)
    BY <1>2, <1>6 DEF WriteAudit, Remains
  <2>2. /\ InOrder(r)'
        /\ row[r].outcome = "pending" => PendingOnly(r)'
        /\ HasRow(r, {row[r].outcome})'
    BY <1>1, <2>1, OwnWrite
  <2> QED BY <1>1, <2>1, <2>2 DEF Story, Account, Unwritten, Between
<1>7. CASE WriteFails(r)
  <2>1. /\ pc[r] = "audit" /\ pc'[r] = "mark" /\ UNCHANGED <<seq, born, row>>
        /\ file' \in Remains(r)
    BY <1>2, <1>7 DEF WriteFails
  <2>2. InOrder(r)' /\ (row[r].outcome = "pending" => PendingOnly(r)')
    BY <1>1, <2>1, OwnWrite
  <2> QED BY <1>1, <2>1, <2>2 DEF Story, Account, Unwritten, Between
<1>8. CASE MarkUnhealthy(r)
  <2>1. /\ pc'[r] \in {"relay", "done"} /\ healthy' = FALSE
        /\ UNCHANGED <<file, seq, born>>
    BY <1>2, <1>8 DEF MarkUnhealthy, AfterAudit
  <2> QED BY <1>1, <2>1, QuietRows DEF Story, Account, Unwritten, Between
<1>9. CASE RecordActivity(r)
  <2>1. pc[r] = "record" /\ UNCHANGED <<file, seq, born, row, healthy>>
    BY <1>9 DEF RecordActivity
  <2>2. /\ row[r].outcome \in First \cup Second
        /\ HasRow(r, {row[r].outcome})
        /\ row[r].outcome = "pending" => PendingOnly(r)
    BY <1>1, <2>1 DEF Story, Account, Between
  <2>3. pc'[r] = CASE row[r].outcome = "pending" -> "send"
                   [] row[r].outcome = "started" -> "relay"
                   [] OTHER                      -> "done"
    BY <1>2, <1>9 DEF RecordActivity, AfterAudit
  <2>4. Story(r)'
    BY <1>1, <2>1, <2>2, <2>3, QuietRows DEF Story, Unwritten, Between
  <2>5. CASE row[r].outcome \in {"pending", "started"}
    BY <2>1, <2>2, <2>3, <2>4, <2>5, QuietRows DEF Account
  <2>6. CASE row[r].outcome \in {"not_started", "failed"}
    <3>1. HasRow(r, {"not_started", "started", "failed"})
      BY <2>2, <2>6 DEF HasRow
    <3> QED BY <2>1, <2>3, <2>4, <2>6, <3>1, QuietRows DEF Account
  <2> QED BY <2>2, <2>5, <2>6 DEF First, Second
<1>10. CASE Send(r)
  <2>1. /\ pc[r] = "send" /\ pc'[r] = "await"
        /\ UNCHANGED <<file, seq, born, row>>
    BY <1>2, <1>10 DEF Send
  <2> QED BY <1>1, <2>1, QuietRows DEF Story, Account, Unwritten, Between
<1>11. CASE UpstreamFails(r) \/ UpstreamAnswers(r)
  <2>1. /\ pc[r] \in {"send", "await"} /\ pc'[r] = "audit"
        /\ UNCHANGED <<file, seq, born>>
    BY <1>2, <1>11 DEF UpstreamFails, UpstreamAnswers
  <2>2. row'[r].outcome \in Second /\ row'[r].decision = row[r].decision
    BY <1>2, <1>11 DEF UpstreamFails, UpstreamAnswers, Second, GInv, GType
  <2> QED BY <1>1, <2>1, <2>2, QuietRows
      DEF Story, Account, Unwritten, Between, First, Second
<1>12. CASE \/ \E t \in DisplayTokens : ReadChunk(r, t)
            \/ PushChunk(r) \/ EndRelay(r)
  <2>1. /\ pc[r] \in {"relay", "relock"} /\ pc'[r] \in {"relay", "relock", "done"}
        /\ UNCHANGED <<file, seq, born, row, healthy>>
    BY <1>2, <1>12 DEF ReadChunk, PushChunk, EndRelay
  <2>2. healthy => /\ HasRow(r, {"started"})
                   /\ HasRow(r, {"not_started", "started", "failed"})
    BY <1>1, <2>1 DEF Account, HasRow
  <2> QED BY <1>1, <2>1, <2>2, QuietRows DEF Story, Account, Unwritten, Between
<1>13. CASE Disconnect(r)
  <2>1. pc'[r] = "dropped" /\ UNCHANGED <<file, seq, born>>
    BY <1>2, <1>13 DEF Disconnect
  <2> QED BY <1>1, <2>1, QuietRows DEF Story, Account, Unwritten, Between
<1> QED
  BY <1>3, <1>4, <1>5, <1>6, <1>7, <1>8, <1>9, <1>10, <1>11, <1>12, <1>13
  DEF Handler

\* A crash ends the stories: what was served is dropped, and whoever was
\* writing leaves a row in its place, or none.
LEMMA CrashStory ==
  ASSUME GInv, SInv, Crash, NEW r \in Reqs
  PROVE  Story(r)' /\ Account(r)'
<1>1. /\ UNCHANGED <<seq, born, row>> /\ epoch' = epoch + 1
      /\ pc' = [q \in Reqs |-> IF pc[q] \in {"new", "done"} THEN pc[q]
                               ELSE "dropped"]
  BY DEF Crash
<1>2. pc'[r] \in {"new", "done", "dropped"}
  BY <1>1
<1>3. Story(r) /\ InOrder(r)
  BY DEF SInv, Story
<1>4. InOrder(r)'
  <2>1. CASE file' = file
    BY <1>1, <1>3, <2>1, QuietRows
  <2>2. CASE file' # file
    <3>1. PICK q \in Reqs : pc[q] = "audit" /\ file' \in Remains(q)
      BY <2>2 DEF Crash
    <3>2. CASE q = r
      BY <1>1, <1>3, <3>1, <3>2, OwnWrite
    <3>3. CASE q # r
      <4>1. Rows(r)' = Rows(r) /\ \A i \in Rows(r) : file'[i] = file[i]
        BY <1>1, <3>1, <3>3, OtherRows
      <4> QED BY <1>3, <4>1 DEF InOrder
    <3> QED BY <3>2, <3>3
  <2> QED BY <2>1, <2>2
<1>5. ~(seq'[r] > 0 /\ born'[r] = epoch')
  BY <1>1 DEF GInv, GType, Numbered
<1> QED BY <1>2, <1>4, <1>5 DEF Story, Account, Unwritten, Between

-----------------------------------------------------------------------------

\* Every step of the gateway continues every story.
LEMMA StoryStep == GInv /\ GInv' /\ SInv /\ [Next]_vars => SInv'
<1> SUFFICES ASSUME GInv, GInv', SInv, [Next]_vars, NEW r \in Reqs
             PROVE  Story(r)' /\ Account(r)'
  BY DEF SInv
<1>1. CASE Tick \/ UNCHANGED vars
  <2>1. UNCHANGED <<file, seq, born, row, pc, epoch, healthy>>
    BY <1>1 DEF Tick, vars, shared
  <2> QED BY <2>1, QuietRows DEF SInv, Story, Account, Unwritten, Between
<1>2. CASE Crash
  BY <1>2, CrashStory
<1>3. CASE \E q \in Reqs : Handler(q)
  BY <1>3, OwnStep, OthersKeep
<1> QED BY <1>1, <1>2, <1>3 DEF Next

\* The strengthened invariant: which rows each handler has already written,
\* for every place it can be in.
THEOREM RowInvariant == Spec => [](GInv /\ SInv)
<1>1. Init => SInv
  BY DEF Init, SInv, Story, Account, Unwritten, Between, InOrder, Rows
<1> QED BY <1>1, StoryStep, GatewayInvariant, PTL DEF Spec

\* write_audit keeps the lifecycle: a request has one final row at most, and a
\* started or failed row only after its pending one, for any number of
\* requests, failed or torn writes, disconnects and crashes.
THEOREM RowsTellLifecycleHolds == Spec => []RowsTellLifecycle
<1>1. SInv => RowsTellLifecycle
  BY DEF SInv, Story, InOrder, Rows, RowsTellLifecycle
<1> QED BY <1>1, RowInvariant, PTL

\* While audit_healthy is set, a handler that numbered its request and ran to
\* its end has left a final row.
THEOREM DoneIsAccountedHolds == Spec => []DoneIsAccounted
<1>1. SInv => DoneIsAccounted
  BY DEF SInv, Account, DoneIsAccounted
<1> QED BY <1>1, RowInvariant, PTL

-----------------------------------------------------------------------------
(* Mappings and restorations.                                              *)

\* Request r of run e was rewritten with t for its value v.
Source(r, e, t, v) ==
  /\ seq[r] > 0 /\ born[r] = e /\ text[r] = t
  /\ content[r] = [kind |-> "value", value |-> v]

\* The ledger and the inputs of protect.
MType ==
  /\ LedgerOK(entries, sequence) /\ clock \in Instant
  /\ content \in [Reqs -> Contents]
  /\ DOMAIN text = Reqs
  /\ \A r \in Reqs : pc[r] \in {"new", "checked", "lock"} => text[r] = NoToken

\* Every mapping comes from a request of this run.
Sourced ==
  \A t \in DOMAIN entries : \E r \in Reqs : Source(r, epoch, t, entries[t].value)

\* Everything shown comes from a request of its run.
ShownSourced ==
  \A x \in shown : x.token \in Token /\ \E r \in Reqs : Source(r, x.epoch, x.token, x.value)

\* Every mapping and everything shown comes from a request of its epoch.
MInv == MType /\ Sourced /\ ShownSourced

\* What a handler does to the body it holds and to its number.
LEMMA TextFrame ==
  ASSUME NEW r \in Reqs, Handler(r)
  PROVE  /\ content' = content /\ clock' = clock /\ epoch' = epoch
         /\ text' = text \/ (pc[r] = "lock" /\ \E x : text' = [text EXCEPT ![r] = x])
         /\ \/ seq' = seq /\ born' = born
            \/ /\ pc[r] = "checked"
               /\ \E n : seq' = [seq EXCEPT ![r] = n]
               /\ \E n : born' = [born EXCEPT ![r] = n]
<1>1. CASE CheckIn(r) \/ Refuse(r)
  BY <1>1 DEF CheckIn, Refuse
<1>2. CASE Admit(r)
  BY <1>2 DEF Admit
<1>3. CASE Protect(r)
  <2>1. text' = text \/ \E x : text' = [text EXCEPT ![r] = x]
    BY <1>3 DEF Protect
  <2> QED BY <1>3, <2>1 DEF Protect
<1>4. CASE WriteAudit(r) \/ WriteFails(r) \/ Send(r)
  BY <1>4 DEF WriteAudit, WriteFails, Send
<1>5. CASE MarkUnhealthy(r) \/ RecordActivity(r)
  BY <1>5 DEF MarkUnhealthy, RecordActivity
<1>6. CASE UpstreamFails(r) \/ UpstreamAnswers(r)
  BY <1>6 DEF UpstreamFails, UpstreamAnswers
<1>7. CASE \E t \in DisplayTokens : ReadChunk(r, t)
  BY <1>7 DEF ReadChunk
<1>8. CASE PushChunk(r) \/ EndRelay(r) \/ Disconnect(r)
  BY <1>8 DEF PushChunk, EndRelay, Disconnect
<1> QED BY <1>1, <1>2, <1>3, <1>4, <1>5, <1>6, <1>7, <1>8 DEF Handler

\* What a mapping came from stays where it is.
LEMMA SourceKept ==
  ASSUME GInv, MType, NEW r \in Reqs, Handler(r), NEW q \in Reqs, NEW e,
         NEW t \in Token, NEW v, Source(q, e, t, v)
  PROVE  Source(q, e, t, v)'
<1>1. seq[q] > 0 /\ text[q] # NoToken
  BY NoTokenAssumption DEF Source
<1>2. pc[q] \notin {"new", "checked", "lock"}
  BY <1>1 DEF MType
<1>3. /\ content' = content
      /\ text' = text \/ (pc[r] = "lock" /\ \E x : text' = [text EXCEPT ![r] = x])
      /\ \/ seq' = seq /\ born' = born
         \/ /\ pc[r] = "checked"
            /\ \E n : seq' = [seq EXCEPT ![r] = n]
            /\ \E n : born' = [born EXCEPT ![r] = n]
  BY TextFrame
<1>4. text'[q] = text[q]
  BY <1>2, <1>3 DEF MType
<1>5. seq'[q] = seq[q] /\ born'[q] = born[q]
  BY <1>2, <1>3 DEF GInv, GType
<1> QED BY <1>3, <1>4, <1>5 DEF Source

\* Before a body is protected its handler holds none.
LEMMA TextStep ==
  ASSUME GInv, MType, NEW r \in Reqs, Handler(r), NEW q \in Reqs,
         pc'[q] \in {"new", "checked", "lock"}
  PROVE  text'[q] = NoToken
<1>1. \A p \in Reqs \ {r} : pc'[p] = pc[p]
  BY HandlerFrame
<1>2. text' = text \/ (pc[r] = "lock" /\ \E x : text' = [text EXCEPT ![r] = x])
  BY TextFrame
<1>3. CASE q # r
  BY <1>1, <1>2, <1>3 DEF MType
<1>4. CASE q = r
  <2>1. pc[r] \in {"new", "checked"}
    <3> USE DEF Goto, shared, GInv, GType
    <3>1. CASE CheckIn(r) \/ Refuse(r) \/ Admit(r)
      BY <3>1 DEF CheckIn, Refuse, Admit
    <3>2. CASE Protect(r) \/ WriteAudit(r) \/ WriteFails(r) \/ Send(r)
      BY <1>4, <3>2 DEF Protect, WriteAudit, WriteFails, Send
    <3>3. CASE MarkUnhealthy(r) \/ RecordActivity(r)
      BY <1>4, <3>3 DEF MarkUnhealthy, RecordActivity, AfterAudit
    <3>4. CASE UpstreamFails(r) \/ UpstreamAnswers(r)
      BY <1>4, <3>4 DEF UpstreamFails, UpstreamAnswers
    <3>5. CASE \E t \in DisplayTokens : ReadChunk(r, t)
      BY <1>4, <3>5 DEF ReadChunk
    <3>6. CASE PushChunk(r) \/ EndRelay(r) \/ Disconnect(r)
      BY <1>4, <3>6 DEF PushChunk, EndRelay, Disconnect
    <3> QED BY <3>1, <3>2, <3>3, <3>4, <3>5, <3>6 DEF Handler
  <2> QED BY <1>2, <1>4, <2>1 DEF MType
<1> QED BY <1>3, <1>4

\* protect adds at most a mapping of the value of its own request.
LEMMA ProtectMaps ==
  ASSUME GInv, MInv, NEW r \in Reqs, Protect(r)
  PROVE  /\ LedgerOK(entries', sequence') /\ DOMAIN text' = Reqs
         /\ \A t \in DOMAIN entries' :
              \/ t \in DOMAIN entries /\ entries'[t].value = entries[t].value
              \/ Source(r, epoch, t, entries[t].value)'
<1>1. CASE /\ UNCHANGED ledger
           /\ text' = text \/ text' = [text EXCEPT ![r] = Clean]
  BY <1>1 DEF ledger, MInv, MType
<1>2. CASE content[r].kind = "value"
  <2> DEFINE v == content[r].value
  <2>1. PICK res \in issue_tracked(entries, sequence, Scope, TokenizedClass,
                                   v, clock, Ttl) :
          /\ entries' = res.entries /\ sequence' = res.sequence
          /\ IF res.token = NoToken THEN text' = text
             ELSE text' = [text EXCEPT ![r] = res.token]
    BY <1>2 DEF Protect
  <2>2. /\ seq' = seq /\ born' = born /\ epoch' = epoch /\ content' = content
        /\ pc[r] = "lock"
    BY DEF Protect, shared
  <2>3. LedgerOK(entries, sequence) /\ clock \in Instant /\ DOMAIN text = Reqs
    BY DEF MInv, MType
  <2>4. content[r] \in [kind : {"value"}, value : Sensitive]
    <3>1. content[r] \in Contents
      BY DEF MInv, MType
    <3>2. /\ [kind |-> "malformed"].kind # "value" /\ [kind |-> "secret"].kind # "value"
          /\ [kind |-> "clean"].kind # "value"
      OBVIOUS
    <3> QED BY <1>2, <3>1, <3>2 DEF Contents
  <2>5. v \in Values /\ content[r] = [kind |-> "value", value |-> v]
    <3>1. v \in Sensitive
      BY <2>4
    <3>2. content[r] = [kind |-> "value", value |-> v]
      BY <2>4
    <3> QED BY <3>1, <3>2, GatewayAssumption
  <2> HIDE DEF v
  <2>6. LedgerOK(res.entries, res.sequence)
    BY <2>3, <2>5, IssueOK, GatewayAssumption
  <2>7. /\ \A t \in DOMAIN res.entries :
             \/ res.created /\ t = res.token
             \/ t \in DOMAIN entries /\ SameBinding(res.entries[t], entries[t])
        /\ res.token = NoToken => ~res.created
    BY <2>3, IssueMappings, GatewayAssumption
  <2>8. res.token # NoToken => res.entries[res.token].value = v
    BY <2>3, IssueValue
  <2>9. seq[r] > 0 /\ born[r] = epoch
    BY <2>2 DEF GInv, Numbered, Over
  <2>10. ASSUME NEW t \in DOMAIN entries'
         PROVE  \/ t \in DOMAIN entries /\ entries'[t].value = entries[t].value
                \/ Source(r, epoch, t, entries[t].value)'
    <3>1. CASE t \in DOMAIN entries /\ SameBinding(res.entries[t], entries[t])
      BY <2>1, <3>1 DEF SameBinding
    <3>2. CASE res.created /\ t = res.token
      <4>1. text'[r] = t /\ entries'[t].value = v
        BY <2>1, <2>3, <2>7, <2>8, <3>2
      <4> QED BY <2>2, <2>5, <2>9, <4>1 DEF Source
    <3> QED BY <2>1, <2>7, <3>1, <3>2
  <2> QED BY <2>1, <2>3, <2>6, <2>10
<1> QED BY <1>1, <1>2 DEF Protect

\* Only protect and the relay touch the ledger, and only the relay shows.
LEMMA LedgerFrame ==
  ASSUME NEW r \in Reqs, Handler(r)
  PROVE  \/ Protect(r) /\ shown' = shown
         \/ PushChunk(r)
         \/ UNCHANGED <<entries, sequence, shown, text>>
<1> USE DEF ledger
<1>1. CASE CheckIn(r) \/ Refuse(r) \/ Admit(r)
  BY <1>1 DEF CheckIn, Refuse, Admit
<1>2. CASE Protect(r)
  BY <1>2 DEF Protect
<1>3. CASE WriteAudit(r) \/ WriteFails(r) \/ Send(r)
  BY <1>3 DEF WriteAudit, WriteFails, Send
<1>4. CASE MarkUnhealthy(r) \/ RecordActivity(r)
  BY <1>4 DEF MarkUnhealthy, RecordActivity
<1>5. CASE UpstreamFails(r) \/ UpstreamAnswers(r)
  BY <1>5 DEF UpstreamFails, UpstreamAnswers
<1>6. CASE \E t \in DisplayTokens : ReadChunk(r, t)
  BY <1>6 DEF ReadChunk
<1>7. CASE EndRelay(r) \/ Disconnect(r)
  BY <1>7 DEF EndRelay, Disconnect
<1> QED BY <1>1, <1>2, <1>3, <1>4, <1>5, <1>6, <1>7 DEF Handler

\* A relay shows what the ledger holds, and keeps every binding.
LEMMA PushShows ==
  ASSUME MInv, NEW r \in Reqs, PushChunk(r)
  PROVE  /\ LedgerOK(entries', sequence') /\ text' = text
         /\ DOMAIN entries' \subseteq DOMAIN entries
         /\ \A t \in DOMAIN entries' : entries'[t].value = entries[t].value
         /\ \A x \in shown' \ shown : /\ x.token \in DOMAIN entries /\ x.epoch = epoch
                                      /\ x.value = entries[x.token].value
<1>1. /\ entries' = restore_exact(entries, sequence, Scope, chunk[r], read[r])
      /\ sequence' = Saturate(sequence) /\ text' = text
      /\ shown' = IF Owned(entries, Scope, chunk[r], read[r])
                  THEN shown \cup {[token |-> chunk[r],
                                    value |-> entries[chunk[r]].value,
                                    epoch |-> epoch]}
                  ELSE shown
  BY DEF PushChunk
<1>2. LedgerOK(entries, sequence)
  BY DEF MInv, MType
<1>3. LedgerOK(entries', sequence')
  BY <1>1, <1>2, RestoreOK
<1>4. DOMAIN entries' \subseteq DOMAIN entries
  BY <1>1, RestoreAddsNone
<1>5. \A t \in DOMAIN entries' : entries'[t].value = entries[t].value
  <2>1. \A t \in DOMAIN entries' : SameBinding(entries'[t], entries[t])
    BY <1>1, <1>2, RestoreEffect
  <2> QED BY <2>1 DEF SameBinding
<1>6. ASSUME NEW x \in shown' \ shown
      PROVE  /\ x.token \in DOMAIN entries /\ x.epoch = epoch
             /\ x.value = entries[x.token].value
  <2> DEFINE t == chunk[r]
             v == entries[t].value
  <2>1. Owned(entries, Scope, t, read[r])
        /\ x = [token |-> t, value |-> v, epoch |-> epoch]
    BY <1>1, <1>6
  <2>2. t \in DOMAIN entries
    BY <2>1 DEF Owned
  <2> HIDE DEF t, v
  <2>3. x.token = t /\ x.value = v /\ x.epoch = epoch
    BY <2>1
  <2> QED BY <2>2, <2>3 DEF v
<1> QED BY <1>1, <1>3, <1>4, <1>5, <1>6

\* Every step of a handler leaves each mapping and each restoration sourced.
LEMMA MapStep ==
  ASSUME GInv, MInv, NEW r \in Reqs, Handler(r)
  PROVE  MInv'
<1>1. content' = content /\ clock' = clock /\ epoch' = epoch
  BY TextFrame
<1>2. DOMAIN entries \subseteq Token /\ MType
  BY DEF MInv, MType, LedgerOK, LedgerType
<1>3. /\ LedgerOK(entries', sequence') /\ DOMAIN text' = Reqs
      /\ \A t \in DOMAIN entries' :
           \/ t \in DOMAIN entries /\ entries'[t].value = entries[t].value
           \/ Source(r, epoch, t, entries[t].value)'
      /\ \A x \in shown' \ shown : /\ x.token \in DOMAIN entries /\ x.epoch = epoch
                                   /\ x.value = entries[x.token].value
  <2>1. CASE Protect(r) /\ shown' = shown
    BY <2>1, ProtectMaps
  <2>2. CASE PushChunk(r)
    BY <2>2, PushShows DEF MInv, MType
  <2>3. CASE UNCHANGED <<entries, sequence, shown, text>>
    BY <2>3 DEF MInv, MType
  <2> QED BY <2>1, <2>2, <2>3, LedgerFrame
<1>4. MType'
  BY <1>1, <1>2, <1>3, TextStep DEF MType
<1>5. Sourced'
  <2> SUFFICES ASSUME NEW t \in DOMAIN entries'
               PROVE  \E q \in Reqs : Source(q, epoch, t, entries[t].value)'
    BY DEF Sourced
  <2>1. CASE Source(r, epoch, t, entries[t].value)'
    BY <2>1
  <2>2. CASE t \in DOMAIN entries /\ entries'[t].value = entries[t].value
    <3>1. PICK q \in Reqs : Source(q, epoch, t, entries[t].value)
      BY <2>2 DEF MInv, Sourced
    <3> DEFINE v == entries[t].value
               e == epoch
    <3>2. t \in Token
      BY <1>2, <2>2
    <3>3. \A w, d : Source(q, d, t, w) =>
            /\ seq'[q] > 0 /\ born'[q] = d /\ text'[q] = t
            /\ content'[q] = [kind |-> "value", value |-> w]
      BY <1>2, <3>2, SourceKept DEF Source
    <3> QED BY <1>1, <2>2, <3>1, <3>3 DEF Source
  <2> QED BY <1>3, <2>1, <2>2
<1>6. ShownSourced'
  <2> SUFFICES ASSUME NEW x \in shown'
               PROVE  /\ x.token \in Token
                      /\ \E q \in Reqs : Source(q, x.epoch, x.token, x.value)'
    BY DEF ShownSourced
  <2>1. /\ x.token \in Token
        /\ \E q \in Reqs : Source(q, x.epoch, x.token, x.value)
    <3>1. CASE x \in shown
      BY <3>1 DEF MInv, ShownSourced
    <3>2. CASE x \notin shown
      BY <1>2, <1>3, <3>2 DEF MInv, Sourced
    <3> QED BY <3>1, <3>2
  <2> QED BY <1>2, <2>1, SourceKept
<1> QED BY <1>4, <1>5, <1>6 DEF MInv

\* A crash forgets every mapping, and leaves what was shown as it was.
LEMMA MapCrash ==
  ASSUME GInv, MInv, Crash
  PROVE  MInv'
<1>1. /\ entries' = EmptyLedger /\ sequence' = 0
      /\ UNCHANGED <<clock, shown, content, seq, born, text>>
      /\ pc' = [q \in Reqs |-> IF pc[q] \in {"new", "done"} THEN pc[q] ELSE "dropped"]
  BY DEF Crash
<1>2. LedgerOK(entries', sequence') /\ DOMAIN entries' = {}
  <2>1. 0 \in 0..MaxSequence
    BY ConstantsAssumption
  <2> QED BY <1>1, <2>1, EmptyOK DEF EmptyLedger
<1>3. MType'
  BY <1>1, <1>2 DEF MInv, MType
<1>4. Sourced' /\ ShownSourced'
  BY <1>1, <1>2 DEF MInv, Sourced, ShownSourced, Source
<1> QED BY <1>3, <1>4 DEF MInv

\* Every mapping, and everything ever shown, comes from a request of its run.
THEOREM RestoreInvariant == Spec => []MInv
<1>1. Init => MInv
  <2> SUFFICES ASSUME Init PROVE MInv
    OBVIOUS
  <2>1. 0 \in 0..MaxSequence /\ 0 \in Instant
    BY ConstantsAssumption DEF Instant
  <2>2. MType
    BY <2>1, EmptyOK DEF Init, MType
  <2>3. Sourced /\ ShownSourced
    BY DEF Init, EmptyLedger, Sourced, ShownSourced
  <2> QED BY <2>2, <2>3 DEF MInv
<1>2. GInv /\ MInv /\ [Next]_vars => MInv'
  <2> SUFFICES ASSUME GInv, MInv, [Next]_vars PROVE MInv'
    OBVIOUS
  <2>1. CASE Tick
    <3>1. /\ clock < MaxTime /\ clock' = clock + 1
          /\ UNCHANGED <<entries, sequence, shown, content, seq, born, text, pc, epoch>>
      BY <2>1 DEF Tick, ledger
    <3>2. clock' \in Instant
      BY <3>1, ConstantsAssumption DEF MInv, MType, Instant
    <3> QED BY <3>1, <3>2 DEF MInv, MType, Sourced, ShownSourced, Source
  <2>2. CASE UNCHANGED vars
    BY <2>2 DEF vars, MInv, MType, Sourced, ShownSourced, Source
  <2>3. CASE Crash
    BY <2>3, MapCrash
  <2>4. CASE \E r \in Reqs : Handler(r)
    BY <2>4, MapStep
  <2> QED BY <2>1, <2>2, <2>3, <2>4 DEF Next
<1> QED BY <1>1, <1>2, GatewayInvariant, PTL DEF Spec

\* NoCrossSessionRestore: what the relay restores was submitted in the same
\* process run, under the token shown, for any number of requests, racing
\* relays, evictions, redrawn tokens and crashes.
THEOREM NoCrossSessionRestoreHolds == Spec => []NoCrossSessionRestore
<1>1. MInv => NoCrossSessionRestore
  BY DEF MInv, ShownSourced, Source, NoCrossSessionRestore
<1> QED BY <1>1, RestoreInvariant, PTL

-----------------------------------------------------------------------------

\* A request that has not passed the health check when the audit is unhealthy.
Held(r) == /\ ~healthy /\ epoch = 0 /\ MaxCrashes = 0
           /\ pc[r] \in {"new", "done"} /\ ~Sent(r)

\* It stays there.
LEMMA HeldStays ==
  ASSUME GInv, NEW r \in Reqs, Held(r), [Next]_vars
  PROVE  Held(r)'
<1>1. CASE Tick \/ UNCHANGED vars
  BY <1>1 DEF Tick, vars, shared, Held, Sent
<1>2. CASE Crash
  BY <1>2 DEF Crash, Held
<1>3. ASSUME NEW q \in Reqs, Handler(q) PROVE Held(r)'
  <2>1. epoch' = epoch /\ (healthy' => healthy)
    BY <1>3, HandlerFrame
  <2>2. /\ pc[q] \notin Over
        /\ q # r => pc'[r] = pc[r] /\ (Sent(r)' <=> Sent(r))
    BY <1>3, HandlerStep DEF GateStep
  <2>3. CASE q # r
    BY <2>1, <2>2, <2>3 DEF Held
  <2>4. CASE q = r
    <3>1. pc[r] = "new"
      BY <2>2, <2>4 DEF Held, Over
    <3>2. CheckIn(r)
      BY <1>3, <2>4, <3>1 DEF Handler, Refuse, Admit, Protect, WriteAudit,
         WriteFails, MarkUnhealthy, RecordActivity, Send, UpstreamFails,
         UpstreamAnswers, ReadChunk, PushChunk, EndRelay, Disconnect, Waiting
    <3>3. pc'[r] = "done" /\ wire' = wire
      BY <3>2 DEF CheckIn, Goto, Held, GInv, GType
    <3> QED BY <2>1, <3>3 DEF Held, Sent
  <2> QED BY <2>3, <2>4
<1> QED BY <1>1, <1>2, <1>3 DEF Next

\* LateArrivalsHeld: in a run of the process that does not crash, a request
\* that has not passed the health check when the audit turns unhealthy never
\* leaves, however the others race on.
THEOREM LateArrivalsHeldHolds ==
  ASSUME MaxCrashes = 0
  PROVE  Spec => LateArrivalsHeld
<1> SUFFICES ASSUME NEW r \in Reqs
             PROVE  Spec => []((~healthy /\ pc[r] = "new") => []~Sent(r))
  BY DEF LateArrivalsHeld
<1>1. GInv /\ Held(r) /\ [Next]_vars => Held(r)'
  BY HeldStays
<1>2. Init => epoch = 0
  BY DEF Init
<1>3. epoch = 0 /\ GInv /\ [Next]_vars => (epoch = 0)'
  BY HandlerFrame DEF Next, Tick, Crash, vars
<1>4. epoch = 0 /\ GInv /\ ~healthy /\ pc[r] = "new" => Held(r)
  BY DEF Held, GInv, Gated, BeforeSend
<1>5. Held(r) => ~Sent(r)
  BY DEF Held
<1> QED BY <1>1, <1>2, <1>3, <1>4, <1>5, GatewayInvariant, PTL DEF Spec

-----------------------------------------------------------------------------
(* The dashboard.                                                          *)

\* The newest row of r is one with this outcome and decision.
LastIs(r, outcome, decision) ==
  \E k \in Rows(r) : /\ \A j \in Rows(r) : j <= k
                     /\ file[k].outcome = outcome /\ file[k].decision = decision

Early == {"new", "checked", "lock"}

\* a is the activity of request r of this run.
ActivityOf(a, r) ==
  /\ seq[r] > 0 /\ born[r] = epoch /\ a.seq = seq[r]
  /\ pc[r] \notin Early
  /\ a.decision = row[r].decision
  /\ healthy /\ pc[r] \notin {"record", "mark"} => LastIs(r, a.outcome, a.decision)

Activities == [seq : Nat, decision : Decisions, outcome : Outcomes]

\* The board belongs to the requests of this process run and repeats their rows.
BInv ==
  /\ dashboard \in Seq(Activities) /\ Len(dashboard) <= DashboardLimit
  /\ \A i, j \in DOMAIN dashboard : dashboard[i].seq = dashboard[j].seq => i = j
  /\ \A i \in DOMAIN dashboard : \E r \in Reqs : ActivityOf(dashboard[i], r)
  /\ \A r \in Reqs : pc[r] = "record" => LastIs(r, row[r].outcome, row[r].decision)

\* The newest row stays the newest while no row is added.
LEMMA LastKept ==
  ASSUME NEW r \in Reqs, Rows(r)' = Rows(r),
         \A i \in Rows(r) : file'[i] = file[i], NEW o, NEW d, LastIs(r, o, d)
  PROVE  LastIs(r, o, d)'
<1>1. PICK k \in Rows(r) : /\ \A j \in Rows(r) : j <= k
                           /\ file[k].outcome = o /\ file[k].decision = d
  BY DEF LastIs
<1>2. /\ k \in Rows(r)' /\ \A j \in Rows(r)' : j <= k
      /\ file'[k].outcome = o /\ file'[k].decision = d
  BY <1>1
<1> QED BY <1>2 DEF LastIs

\* A step of handler r leaves the newest row of every other request.
LEMMA OthersLast ==
  ASSUME GInv, NEW r \in Reqs, Handler(r), NEW q \in Reqs, q # r,
         NEW o, NEW d, LastIs(q, o, d)
  PROVE  LastIs(q, o, d)'
<1>1. Rows(q)' = Rows(q) /\ \A i \in Rows(q) : file'[i] = file[i]
  <2>1. CASE file' = file
    BY <2>1, HandlerFrame DEF Rows, IsRowOf
  <2>2. CASE pc[r] = "audit" /\ file' \in Remains(r) /\ UNCHANGED <<seq, born>>
    BY <2>2, OtherRows
  <2> QED BY <2>1, <2>2, HandlerFrame
<1> QED BY <1>1, LastKept

\* What a handler that has protected its body does to its row and number.
LEMMA LateFrame ==
  ASSUME GInv, NEW r \in Reqs, Handler(r), pc[r] \notin Early
  PROVE  /\ seq' = seq /\ born' = born
         /\ row'[r].decision = row[r].decision /\ pc'[r] \notin Early
         /\ pc'[r] \in {"record", "mark"} \/ file' = file
         /\ pc[r] \in {"record", "mark"} => RecordActivity(r) \/ ~healthy'
<1> USE DEF Goto, shared, GInv, GType, Early
<1>1. CASE CheckIn(r) \/ Refuse(r) \/ Admit(r) \/ Protect(r)
  BY <1>1 DEF CheckIn, Refuse, Admit, Protect
<1>2. CASE WriteAudit(r) \/ WriteFails(r) \/ Send(r)
  BY <1>2 DEF WriteAudit, WriteFails, Send
<1>3. CASE MarkUnhealthy(r) \/ RecordActivity(r)
  BY <1>3 DEF MarkUnhealthy, RecordActivity, AfterAudit
<1>4. CASE UpstreamFails(r) \/ UpstreamAnswers(r)
  BY <1>4 DEF UpstreamFails, UpstreamAnswers
<1>5. CASE \E t \in DisplayTokens : ReadChunk(r, t)
  BY <1>5 DEF ReadChunk
<1>6. CASE PushChunk(r) \/ EndRelay(r) \/ Disconnect(r)
  BY <1>6 DEF PushChunk, EndRelay, Disconnect, Waiting
<1> QED BY <1>1, <1>2, <1>3, <1>4, <1>5, <1>6 DEF Handler

\* Only record_dashboard_activity touches the dashboard, and only a whole
\* write leads to it.
LEMMA BoardFrame ==
  ASSUME GInv, NEW r \in Reqs, Handler(r)
  PROVE  /\ RecordActivity(r) \/ dashboard' = dashboard
         /\ pc'[r] = "record" => WriteAudit(r)
<1> USE DEF Goto, shared, GInv, GType
<1>1. CASE CheckIn(r) \/ Refuse(r) \/ Admit(r) \/ Protect(r)
  BY <1>1 DEF CheckIn, Refuse, Admit, Protect
<1>2. CASE WriteAudit(r) \/ WriteFails(r) \/ Send(r)
  BY <1>2 DEF WriteAudit, WriteFails, Send
<1>3. CASE MarkUnhealthy(r) \/ RecordActivity(r)
  BY <1>3 DEF MarkUnhealthy, RecordActivity, AfterAudit
<1>4. CASE UpstreamFails(r) \/ UpstreamAnswers(r)
  BY <1>4 DEF UpstreamFails, UpstreamAnswers
<1>5. CASE \E t \in DisplayTokens : ReadChunk(r, t)
  BY <1>5 DEF ReadChunk
<1>6. CASE PushChunk(r) \/ EndRelay(r) \/ Disconnect(r)
  BY <1>6 DEF PushChunk, EndRelay, Disconnect
<1> QED BY <1>1, <1>2, <1>3, <1>4, <1>5, <1>6 DEF Handler

\* After a whole write the row just written is the newest.
LEMMA WrittenIsLast ==
  ASSUME GInv, NEW r \in Reqs, WriteAudit(r)
  PROVE  LastIs(r, row[r].outcome, row[r].decision)'
<1>1. /\ pc[r] = "audit" /\ file' = Append(file, FileRow(r))
      /\ seq' = seq /\ born' = born /\ row' = row
  BY DEF WriteAudit
<1>2. /\ FileRow(r) \in Line /\ FileRow(r).outcome = row[r].outcome
      /\ FileRow(r).decision = row[r].decision /\ IsRowOf(FileRow(r), r)
  BY <1>1, FileRowWhole DEF IsRowOf, GInv, Numbered, Over
<1> DEFINE n == Len(file) + 1
<1>3. /\ Rows(r) \subseteq 1..Len(file) /\ Len(file) \in Nat
      /\ file'[n] = FileRow(r) /\ Rows(r)' = Rows(r) \cup {n}
  BY <1>1, <1>2, AddedRow DEF GInv
<1>4. n \in Rows(r)' /\ \A j \in Rows(r)' : j <= n
  BY <1>3
<1>5. file'[n].outcome = row'[r].outcome /\ file'[n].decision = row'[r].decision
  BY <1>1, <1>2, <1>3
<1> HIDE DEF n
<1> QED BY <1>4, <1>5 DEF LastIs

\* The activity of any request stays its activity through a step of a
\* handler other than record_dashboard_activity.
LEMMA ActivityKept ==
  ASSUME GInv, NEW r \in Reqs, Handler(r), NEW q \in Reqs, NEW a,
         ActivityOf(a, q), ~(q = r /\ RecordActivity(r))
  PROVE  ActivityOf(a, q)'
<1>1. epoch' = epoch /\ (healthy' => healthy)
  BY HandlerFrame
<1>2. CASE q # r
  <2>1. pc'[q] = pc[q] /\ row'[q] = row[q] /\ seq'[q] = seq[q] /\ born'[q] = born[q]
    BY <1>2, HandlerFrame
  <2>2. LastIs(q, a.outcome, a.decision) => LastIs(q, a.outcome, a.decision)'
    BY <1>2, OthersLast
  <2> QED BY <1>1, <2>1, <2>2 DEF ActivityOf
<1>3. CASE q = r
  <2>1. pc[r] \notin Early
    BY <1>3 DEF ActivityOf
  <2>2. /\ seq' = seq /\ born' = born
        /\ row'[r].decision = row[r].decision /\ pc'[r] \notin Early
        /\ pc'[r] \in {"record", "mark"} \/ file' = file
        /\ pc[r] \in {"record", "mark"} => ~healthy'
    BY <1>3, <2>1, LateFrame
  <2>3. file' = file /\ LastIs(r, a.outcome, a.decision) => LastIs(r, a.outcome, a.decision)'
    <3>1. file' = file => Rows(r)' = Rows(r)
      BY <2>2 DEF Rows, IsRowOf
    <3> QED BY <3>1, LastKept
  <2> QED BY <1>1, <1>3, <2>2, <2>3 DEF ActivityOf
<1> QED BY <1>2, <1>3

\* record_dashboard_activity shows the newest row, once, within the limit.
LEMMA RecordStep ==
  ASSUME GInv, BInv, NEW r \in Reqs, RecordActivity(r)
  PROVE  /\ dashboard' \in Seq(Activities) /\ Len(dashboard') <= DashboardLimit
         /\ \A i, j \in DOMAIN dashboard' : dashboard'[i].seq = dashboard'[j].seq => i = j
         /\ \A i \in DOMAIN dashboard' : \E q \in Reqs : ActivityOf(dashboard[i], q)'
<1>1. /\ pc[r] = "record" /\ dashboard' = AfterActivity(r)
      /\ UNCHANGED <<healthy, file, epoch, seq, born, row>>
      /\ LastIs(r, row[r].outcome, row[r].decision)
      /\ row[r] \in [decision : Decisions, outcome : Outcomes] /\ seq[r] \in Nat
  BY DEF RecordActivity, BInv, GInv, GType
<1>2. seq[r] > 0 /\ born[r] = epoch
  BY <1>1 DEF GInv, Numbered, Over
<1>3. /\ dashboard \in Seq(Activities) /\ Len(dashboard) \in Nat
      /\ Len(dashboard) <= DashboardLimit /\ DOMAIN dashboard = 1..Len(dashboard)
      /\ \A i \in DOMAIN dashboard : dashboard[i] \in Activities
      /\ \A i, j \in DOMAIN dashboard : dashboard[i].seq = dashboard[j].seq => i = j
      /\ DashboardLimit \in Nat \ {0}
  BY GatewayAssumption DEF BInv
<1>4. Handler(r)
  BY DEF Handler
<1>5. pc'[r] \notin Early
  BY <1>1, <1>4, LateFrame DEF Early
<1>6. LastIs(r, row[r].outcome, row[r].decision)'
  <2>1. Rows(r)' = Rows(r)
    BY <1>1 DEF Rows, IsRowOf
  <2>2. LastIs(r, row[r].outcome, row[r].decision) <=> LastIs(r, row[r].outcome, row[r].decision)'
    BY <1>1, <2>1 DEF LastIs
  <2> QED BY <1>1, <2>2
<1>7. ASSUME NEW a, a.seq = seq[r], a.decision = row[r].decision, a.outcome = row[r].outcome
      PROVE  ActivityOf(a, r)'
  BY <1>1, <1>2, <1>5, <1>6, <1>7 DEF ActivityOf
<1>8. ASSUME NEW i \in DOMAIN dashboard, dashboard[i].seq # seq[r]
      PROVE  \E q \in Reqs : /\ seq[q] > 0 /\ born[q] = epoch
                             /\ \A a : a = dashboard[i] => ActivityOf(a, q)'
  <2>1. PICK q \in Reqs : ActivityOf(dashboard[i], q)
    BY DEF BInv
  <2>2. q # r
    BY <1>8, <2>1 DEF ActivityOf
  <2>3. \A a : ActivityOf(a, q) => ActivityOf(a, q)'
    BY <1>4, <2>2, ActivityKept
  <2> QED BY <2>1, <2>3 DEF ActivityOf
<1>9. CASE \E i \in DOMAIN dashboard : dashboard[i].seq = seq[r]
  <2> DEFINE upd(a) == [a EXCEPT !.outcome = row[r].outcome]
  <2>1. dashboard' = [i \in DOMAIN dashboard |->
                        IF dashboard[i].seq = seq[r] THEN upd(dashboard[i])
                        ELSE dashboard[i]]
    BY <1>1, <1>9 DEF AfterActivity
  <2>2. \A a \in Activities : /\ upd(a) \in Activities /\ upd(a).seq = a.seq
                              /\ upd(a).decision = a.decision
                              /\ upd(a).outcome = row[r].outcome
    BY <1>1 DEF Activities
  <2> HIDE DEF upd
  <2>3. /\ DOMAIN dashboard' = 1..Len(dashboard)
        /\ \A i \in DOMAIN dashboard : dashboard'[i] \in Activities
    BY <1>3, <2>1, <2>2
  <2>4. dashboard' \in Seq(Activities) /\ Len(dashboard') = Len(dashboard)
    BY <1>3, <2>1, <2>3
  <2>5. \A i \in DOMAIN dashboard : dashboard'[i].seq = dashboard[i].seq
    BY <1>3, <2>1, <2>2
  <2>6. ASSUME NEW i \in DOMAIN dashboard'
        PROVE  \E q \in Reqs : ActivityOf(dashboard[i], q)'
    <3>0. i \in DOMAIN dashboard
      BY <1>3, <2>3
    <3>1. CASE dashboard[i].seq = seq[r]
      <4>1. PICK q \in Reqs : ActivityOf(dashboard[i], q)
        BY <3>0 DEF BInv
      <4>2. q = r
        BY <1>2, <3>1, <4>1 DEF ActivityOf, GInv, NumbersDistinct
      <4>3. dashboard[i].decision = row[r].decision
        BY <4>1, <4>2 DEF ActivityOf
      <4>4. dashboard'[i] = upd(dashboard[i])
        BY <2>1, <3>0, <3>1
      <4> QED BY <1>3, <1>7, <2>2, <3>0, <3>1, <4>3, <4>4
    <3>2. CASE dashboard[i].seq # seq[r]
      <4>1. dashboard'[i] = dashboard[i]
        BY <2>1, <3>0, <3>2
      <4> QED BY <1>8, <3>0, <3>2, <4>1
    <3> QED BY <3>1, <3>2
  <2> QED BY <1>3, <2>3, <2>4, <2>5, <2>6
<1>10. CASE ~\E i \in DOMAIN dashboard : dashboard[i].seq = seq[r]
  <2> DEFINE a == Activity(r)
             n == IF Len(dashboard) + 1 < DashboardLimit THEN Len(dashboard) + 1
                  ELSE DashboardLimit
  <2>1. /\ a \in Activities /\ a.seq = seq[r] /\ a.decision = row[r].decision
        /\ a.outcome = row[r].outcome
    BY <1>1 DEF Activity, Activities
  <2> HIDE DEF a
  <2>2. /\ <<a>> \o dashboard \in Seq(Activities)
        /\ Len(<<a>> \o dashboard) = Len(dashboard) + 1
        /\ (<<a>> \o dashboard)[1] = a
        /\ \A i \in 2..Len(dashboard) + 1 : (<<a>> \o dashboard)[i] = dashboard[i - 1]
    BY <1>3, <2>1
  <2>3. dashboard' = SubSeq(<<a>> \o dashboard, 1, n)
    BY <1>1, <1>10, <2>2 DEF AfterActivity, a
  <2>4. n \in Nat /\ 1 <= n /\ n <= DashboardLimit /\ n <= Len(dashboard) + 1
    BY <1>3
  <2> HIDE DEF n
  <2>5. /\ dashboard' \in Seq(Activities) /\ Len(dashboard') = n
        /\ DOMAIN dashboard' = 1..n
        /\ \A i \in 1..n : dashboard'[i] = (<<a>> \o dashboard)[i]
    BY <2>2, <2>3, <2>4
  <2>6. dashboard'[1] = a
    BY <2>2, <2>4, <2>5
  <2>7. ASSUME NEW i \in 2..n
        PROVE  dashboard'[i] = dashboard[i - 1] /\ i - 1 \in DOMAIN dashboard
    BY <1>3, <2>2, <2>4, <2>5
  <2>8. \A i, j \in 1..n : dashboard'[i].seq = dashboard'[j].seq => i = j
    <3> SUFFICES ASSUME NEW i \in 1..n, NEW j \in 1..n,
                        dashboard'[i].seq = dashboard'[j].seq
                 PROVE  i = j
      OBVIOUS
    <3>1. CASE i = 1 /\ j = 1
      BY <3>1
    <3>2. CASE i = 1 /\ j \in 2..n
      BY <1>10, <2>1, <2>6, <2>7, <3>2
    <3>3. CASE i \in 2..n /\ j = 1
      BY <1>10, <2>1, <2>6, <2>7, <3>3
    <3>4. CASE i \in 2..n /\ j \in 2..n
      <4>1. i - 1 = j - 1
        BY <1>3, <2>7, <3>4
      <4> QED BY <4>1
    <3> QED BY <2>4, <3>1, <3>2, <3>3, <3>4
  <2>9. ASSUME NEW i \in DOMAIN dashboard'
        PROVE  \E q \in Reqs : ActivityOf(dashboard[i], q)'
    <3>1. CASE i = 1
      BY <1>7, <2>1, <2>6, <3>1
    <3>2. CASE i \in 2..n
      <4>1. dashboard'[i] = dashboard[i - 1] /\ i - 1 \in DOMAIN dashboard
        BY <2>7, <3>2
      <4>2. dashboard[i - 1].seq # seq[r]
        BY <1>10, <4>1
      <4> QED BY <1>8, <4>1, <4>2
    <3> QED BY <2>4, <2>5, <2>9, <3>1, <3>2
  <2> QED BY <2>4, <2>5, <2>8, <2>9
<1> QED BY <1>9, <1>10

\* Every step of a handler keeps the dashboard in step with the audit file.
LEMMA BoardStep ==
  ASSUME GInv, BInv, NEW r \in Reqs, Handler(r)
  PROVE  BInv'
<1>1. \A q \in Reqs : pc'[q] = "record" => LastIs(q, row[q].outcome, row[q].decision)'
  <2> SUFFICES ASSUME NEW q \in Reqs, pc'[q] = "record"
               PROVE  LastIs(q, row[q].outcome, row[q].decision)'
    OBVIOUS
  <2>1. CASE q = r
    BY <2>1, BoardFrame, WrittenIsLast
  <2>2. CASE q # r
    <3>1. pc[q] = "record" /\ row'[q] = row[q]
      BY <2>2, HandlerFrame
    <3>2. \A o, d : LastIs(q, o, d) => LastIs(q, o, d)'
      BY <2>2, OthersLast
    <3>3. LastIs(q, row[q].outcome, row[q].decision)
      BY <3>1 DEF BInv
    <3> QED BY <3>1, <3>2, <3>3 DEF LastIs
  <2> QED BY <2>1, <2>2
<1>2. CASE RecordActivity(r)
  BY <1>1, <1>2, RecordStep DEF BInv
<1>3. CASE dashboard' = dashboard /\ ~RecordActivity(r)
  <2>1. \A q \in Reqs : \A a : ActivityOf(a, q) => ActivityOf(a, q)'
    BY <1>3, ActivityKept
  <2>2. ASSUME NEW i \in DOMAIN dashboard'
        PROVE  \E q \in Reqs : ActivityOf(dashboard[i], q)'
    <3>1. PICK q \in Reqs : ActivityOf(dashboard[i], q)
      BY <1>3 DEF BInv
    <3> QED BY <1>3, <2>1, <3>1 DEF ActivityOf
  <2> QED BY <1>1, <1>3, <2>2 DEF BInv
<1> QED BY <1>2, <1>3, BoardFrame

\* The dashboard follows the audit file.
THEOREM BoardInvariant == Spec => []BInv
<1>1. Init => BInv
  BY GatewayAssumption DEF Init, BInv
<1>2. GInv /\ BInv /\ [Next]_vars => BInv'
  <2> SUFFICES ASSUME GInv, BInv, [Next]_vars PROVE BInv'
    OBVIOUS
  <2>1. CASE Tick \/ UNCHANGED vars
    BY <2>1 DEF Tick, vars, shared, BInv, ActivityOf, LastIs, Rows, IsRowOf
  <2>2. CASE Crash
    <3>1. dashboard' = <<>> /\ \A q \in Reqs : pc'[q] # "record"
      BY <2>2 DEF Crash
    <3>2. Len(<<>>) <= DashboardLimit /\ <<>> \in Seq(Activities)
      BY GatewayAssumption
    <3> QED BY <3>1, <3>2 DEF BInv
  <2>3. CASE \E r \in Reqs : Handler(r)
    BY <2>3, BoardStep
  <2> QED BY <2>1, <2>2, <2>3 DEF Next
<1> QED BY <1>1, <1>2, GatewayInvariant, PTL DEF Spec

\* The dashboard is bounded, shows a request once, and agrees.
THEOREM DashboardAgreesHolds == Spec => []DashboardAgrees
<1>1. GInv /\ BInv => DashboardAgrees
  <2> SUFFICES ASSUME GInv, BInv, NEW i \in DOMAIN dashboard, healthy,
                      ~Recording(dashboard[i].seq)
               PROVE  /\ LastRow(dashboard[i].seq) # 0
                      /\ file[LastRow(dashboard[i].seq)].outcome = dashboard[i].outcome
                      /\ file[LastRow(dashboard[i].seq)].decision = dashboard[i].decision
    BY DEF BInv, DashboardAgrees
  <2> DEFINE s == dashboard[i].seq
             I == {k \in 1..Len(file) :
                     file[k] # Torn /\ file[k].epoch = epoch /\ file[k].seq = s}
  <2>1. PICK r \in Reqs : ActivityOf(dashboard[i], r)
    BY DEF BInv
  <2>2. pc[r] \notin {"record", "mark"}
    BY <2>1 DEF ActivityOf, Recording
  <2>3. LastIs(r, dashboard[i].outcome, dashboard[i].decision)
    BY <2>1, <2>2 DEF ActivityOf
  <2>4. I = Rows(r)
    BY <2>1 DEF ActivityOf, Rows, IsRowOf, GInv, GType
  <2>5. LastRow(s) = IF I # {} THEN Max(I) ELSE 0
    BY DEF LastRow, SelectLastInSeq
  <2>6. PICK k \in I : /\ \A j \in I : j <= k
                       /\ file[k].outcome = dashboard[i].outcome
                       /\ file[k].decision = dashboard[i].decision
    BY <2>3, <2>4 DEF LastIs
  <2>7. I \subseteq Nat \ {0}
    OBVIOUS
  <2> HIDE DEF I
  <2>8. Max(I) = k
    <3>1. \A j \in I : k >= j
      BY <2>6, <2>7
    <3>2. Max(I) \in I /\ \A j \in I : Max(I) >= j
      BY <3>1 DEF Max
    <3> DEFINE m == Max(I)
    <3>3. m \in Nat /\ k \in Nat /\ k >= m /\ m >= k
      BY <2>7, <3>1, <3>2
    <3> HIDE DEF m
    <3>4. m = k
      BY <3>3
    <3> QED BY <3>4 DEF m
  <2> QED BY <2>5, <2>6, <2>7, <2>8
<1> QED BY <1>1, BoardInvariant, GatewayInvariant, PTL

=============================================================================
