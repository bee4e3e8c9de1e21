------------------------------- MODULE Gateway -------------------------------
(***************************************************************************)
(* src/gateway.rs: concurrent POST /v1/responses handlers around the       *)
(* privacy engine (behind a tokio Mutex), the audit sink (behind a std     *)
(* Mutex), the audit_healthy flag, the request counter, the dashboard ring *)
(* and the upstream, with response relays that restore tokens, clients     *)
(* that disconnect, audit writes that fail or tear, and process crashes.   *)
(*                                                                         *)
(* A step is what one handler does between two points at which another     *)
(* task can run: the load of audit_healthy, fetch_add, a call under the    *)
(* engine lock, a write under the sink lock, the store to audit_healthy,   *)
(* the update under the dashboard lock, and each await on the network.     *)
(* protect runs under the lock with the clock read inside it, so it is one *)
(* step here; PrivacyEngine looks inside it.                               *)
(*                                                                         *)
(* A definition whose name ends in "Bug" is a faulty variant of the one    *)
(* that follows it.  Nothing uses it: it is what that operation would be   *)
(* with one plausible mistake, kept to show that a property notices it.    *)
(***************************************************************************)
EXTENDS LedgerOps, Sequences, SequencesExt

CONSTANTS
  Reqs,            \* the requests local clients send
  Sensitive,       \* values a request may carry that the policy tokenizes
  TokenizedClass,  \* their class
  Ttl,             \* the ttl of their tokens, in clock ticks
  Scope,           \* the session scope
  DashboardLimit,  \* DASHBOARD_ACTIVITY_LIMIT
  MaxChunks,       \* bound: SSE chunks per response
  MaxFailures,     \* bound: audit writes that fail
  MaxCrashes       \* bound: times the process crashes and is started again

ASSUME GatewayAssumption ==
  /\ Scope \in Scopes
  /\ Sensitive \subseteq Values
  /\ TokenizedClass \in Classes \ HardClasses
  /\ Ttl \in Nat \ {0}
  /\ DashboardLimit \in Nat \ {0}
  /\ MaxChunks \in Nat /\ MaxFailures \in Nat /\ MaxCrashes \in Nat

VARIABLES
  clock,      \* the monotonic clock
  entries,    \* the token ledger
  sequence,   \* its usage counter
  healthy,    \* GatewayState::audit_healthy
  counter,    \* GatewayState::request_sequence
  file,       \* the audit file: rows, and the remains of torn writes
  dashboard,  \* GatewayState::dashboard_activity, newest first
  epoch,      \* how many times the process was started before this one
  failures,   \* audit writes that have failed so far
  wire,       \* the bodies the upstream has received
  shown,      \* history: the restorations shown to clients
  content,    \* what each request carries
  pc,         \* where its handler stands
  seq,        \* its request_sequence, 0 before it has one
  born,       \* the epoch in which it was numbered
  row,        \* decision and upstream outcome of its next audit row
  text,       \* its protected body
  sse,        \* its response is an event stream to restore
  chunk,      \* the token in the response chunk being handled
  read,       \* the clock reading taken when that chunk arrived
  chunks      \* chunks of its response so far

shared == <<healthy, counter, file, dashboard, failures>>
ledger == <<entries, sequence>>
relay == <<sse, chunk, read, chunks>>
vars == <<clock, entries, sequence, healthy, counter, file, dashboard, epoch,
          failures, wire, shown, content, pc, seq, born, row, text, sse, chunk,
          read, chunks>>

Torn == [torn |-> TRUE]
Clean == [clean |-> TRUE]
NoRow == [decision |-> "none", outcome |-> "none"]

(* A body that fails to parse, that holds a hard secret, that holds        *)
(* nothing sensitive, or one tokenizable value.                            *)
Contents == {[kind |-> "malformed"], [kind |-> "secret"], [kind |-> "clean"]}
              \cup [kind : {"value"}, value : Sensitive]

Waiting == {"lock", "send", "await", "relay", "relock"}
Working == {"checked", "audit", "mark", "record"}
Over == {"done", "dropped"}

Row(decision, outcome) == [decision |-> decision, outcome |-> outcome]

FileRow(r) == [epoch |-> born[r], seq |-> seq[r],
               decision |-> row[r].decision, outcome |-> row[r].outcome]

Goto(r, label) == pc' = [pc EXCEPT ![r] = label]

-----------------------------------------------------------------------------

Init ==
  /\ clock = 0
  /\ entries = EmptyLedger /\ sequence = 0
  /\ healthy = TRUE /\ counter = 0
  /\ file = <<>> /\ dashboard = <<>>
  /\ epoch = 0 /\ failures = 0
  /\ wire = {} /\ shown = {}
  /\ content \in [Reqs -> Contents]
  /\ pc = [r \in Reqs |-> "new"]
  /\ seq = [r \in Reqs |-> 0]
  /\ born = [r \in Reqs |-> 0]
  /\ row = [r \in Reqs |-> NoRow]
  /\ text = [r \in Reqs |-> NoToken]
  /\ sse = [r \in Reqs |-> FALSE]
  /\ chunk = [r \in Reqs |-> NoToken]
  /\ read = [r \in Reqs |-> 0]
  /\ chunks = [r \in Reqs |-> 0]

Tick ==
  /\ clock < MaxTime
  /\ clock' = clock + 1
  /\ UNCHANGED <<ledger, shared, epoch, wire, shown, content, pc, seq, born,
                 row, text, relay>>

CheckInBug(r) ==   \* the health check is dropped
  /\ pc[r] = "new"
  /\ Goto(r, "checked") \/ Goto(r, "done")
  /\ UNCHANGED <<clock, ledger, shared, epoch, wire, shown, content, seq, born,
                 row, text, relay>>

(* authorized, then the load of audit_healthy.                             *)
CheckIn(r) ==
  /\ pc[r] = "new"
  /\ \/ healthy /\ Goto(r, "checked")
     \/ Goto(r, "done")   \* wrong local credential, or audit unhealthy
  /\ UNCHANGED <<clock, ledger, shared, epoch, wire, shown, content, seq, born,
                 row, text, relay>>

(* Media type, upstream authentication and random_identifier.              *)
Refuse(r) ==
  /\ pc[r] = "checked"
  /\ Goto(r, "done")
  /\ UNCHANGED <<clock, ledger, shared, epoch, wire, shown, content, seq, born,
                 row, text, relay>>

(* request_sequence.fetch_add, then the wait for the engine lock.          *)
Admit(r) ==
  /\ pc[r] = "checked"
  /\ counter' = counter + 1
  /\ seq' = [seq EXCEPT ![r] = counter + 1]
  /\ born' = [born EXCEPT ![r] = epoch]
  /\ Goto(r, "lock")
  /\ UNCHANGED <<clock, ledger, healthy, file, dashboard, failures, epoch, wire,
                 shown, content, row, text, relay>>

(* A protected body goes to the fixed upstream, if its URL can be built.   *)
ForwardRow(r, decision) ==
  \/ row' = [row EXCEPT ![r] = Row(decision, "pending")]
  \/ row' = [row EXCEPT ![r] = Row(decision, "not_started")]

ProtectBug(r) ==   \* waits for a healthy audit under the lock
  /\ pc[r] = "lock" /\ healthy
  /\ row' = [row EXCEPT ![r] = Row("rejected", "not_started")]
  /\ Goto(r, "audit")
  /\ UNCHANGED <<clock, ledger, shared, epoch, wire, shown, content, seq, born,
                 text, relay>>

Protect(r) ==
  /\ pc[r] = "lock"
  /\ \/ /\ content[r].kind = "malformed"
        /\ row' = [row EXCEPT ![r] = Row("rejected", "not_started")]
        /\ UNCHANGED <<ledger, text>>
     \/ /\ content[r].kind = "secret"
        /\ row' = [row EXCEPT ![r] = Row("blocked", "not_started")]
        /\ UNCHANGED <<ledger, text>>
     \/ /\ content[r].kind = "clean"
        /\ ForwardRow(r, "allowed")
        /\ text' = [text EXCEPT ![r] = Clean]
        /\ UNCHANGED ledger
     \/ /\ content[r].kind = "value"
        /\ \E res \in issue_tracked(entries, sequence, Scope, TokenizedClass,
                                    content[r].value, clock, Ttl) :
             /\ entries' = res.entries
             /\ sequence' = res.sequence
             /\ IF res.token = NoToken
                THEN /\ row' = [row EXCEPT ![r] = Row("rejected", "not_started")]
                     /\ UNCHANGED text
                ELSE /\ ForwardRow(r, "rewritten")
                     /\ text' = [text EXCEPT ![r] = res.token]
  /\ Goto(r, "audit")
  /\ UNCHANGED <<clock, shared, epoch, wire, shown, content, seq, born, relay>>

(* AuditSink::write under its lock: the row is written, flushed, synced.   *)
WriteAudit(r) ==
  /\ pc[r] = "audit"
  /\ file' = Append(file, FileRow(r))
  /\ Goto(r, "record")
  /\ UNCHANGED <<clock, ledger, healthy, counter, dashboard, failures, epoch,
                 wire, shown, content, seq, born, row, text, relay>>

(* What an interrupted write can leave: nothing, a torn line, or the whole *)
(* row (flush or sync_data failed).                                        *)
Remains(r) == {file, Append(file, Torn), Append(file, FileRow(r))}

WriteFails(r) ==
  /\ pc[r] = "audit"
  /\ failures < MaxFailures
  /\ failures' = failures + 1
  /\ file' \in Remains(r)
  /\ Goto(r, "mark")
  /\ UNCHANGED <<clock, ledger, healthy, counter, dashboard, epoch, wire, shown,
                 content, seq, born, row, text, relay>>

AfterAuditBug(r, written) ==   \* the result of the pending write is ignored
  CASE row[r].outcome = "pending" -> "send"
    [] row[r].outcome = "started" -> "relay"
    [] OTHER                      -> "done"

(* Where the handler goes on after write_audit: only a recorded pending    *)
(* row opens the gate; the result for the other rows is ignored.           *)
AfterAudit(r, written) ==
  CASE row[r].outcome = "pending" /\ written -> "send"
    [] row[r].outcome = "started"            -> "relay"
    [] OTHER                                 -> "done"

MarkUnhealthy(r) ==
  /\ pc[r] = "mark"
  /\ healthy' = FALSE
  /\ Goto(r, AfterAudit(r, FALSE))
  /\ UNCHANGED <<clock, ledger, counter, file, dashboard, failures, epoch, wire,
                 shown, content, seq, born, row, text, relay>>

(* record_dashboard_activity: update in place, or push to the front and    *)
(* truncate.                                                               *)
Activity(r) == [seq |-> seq[r], decision |-> row[r].decision,
                outcome |-> row[r].outcome]

AfterActivityBug(r) ==   \* a later row is taken to be of the newest entry
  IF row[r].outcome \in {"started", "failed"} /\ dashboard # <<>>
  THEN [dashboard EXCEPT ![1].outcome = row[r].outcome]
  ELSE LET pushed == <<Activity(r)>> \o dashboard
       IN  SubSeq(pushed, 1, IF Len(pushed) < DashboardLimit THEN Len(pushed)
                             ELSE DashboardLimit)

AfterActivity(r) ==
  IF \E i \in DOMAIN dashboard : dashboard[i].seq = seq[r]
  THEN [i \in DOMAIN dashboard |->
          IF dashboard[i].seq = seq[r]
          THEN [dashboard[i] EXCEPT !.outcome = row[r].outcome]
          ELSE dashboard[i]]
  ELSE LET pushed == <<Activity(r)>> \o dashboard
       IN  SubSeq(pushed, 1, IF Len(pushed) < DashboardLimit THEN Len(pushed)
                             ELSE DashboardLimit)

RecordActivity(r) ==
  /\ pc[r] = "record"
  /\ dashboard' = AfterActivity(r)
  /\ Goto(r, AfterAudit(r, TRUE))
  /\ UNCHANGED <<clock, ledger, healthy, counter, file, failures, epoch, wire,
                 shown, content, seq, born, row, text, relay>>

SendBug(r) ==   \* sends while the pending row is being written
  /\ pc[r] \in {"audit", "send"} /\ row[r].outcome = "pending"
  /\ wire' = wire \cup {[req |-> r, text |-> text[r]]}
  /\ Goto(r, "await")
  /\ UNCHANGED <<clock, ledger, shared, epoch, shown, content, seq, born, row,
                 text, relay>>

(* The request body leaves the machine.                                    *)
Send(r) ==
  /\ pc[r] = "send"
  /\ wire' = wire \cup {[req |-> r, text |-> text[r]]}
  /\ Goto(r, "await")
  /\ UNCHANGED <<clock, ledger, shared, epoch, shown, content, seq, born, row,
                 text, relay>>

UpstreamFailsBug(r) ==   \* the failure is not recorded
  /\ pc[r] \in {"send", "await"}
  /\ row' = [row EXCEPT ![r].outcome = "failed"]
  /\ Goto(r, "done")
  /\ UNCHANGED <<clock, ledger, shared, epoch, wire, shown, content, seq, born,
                 text, relay>>

(* send().await fails, before or after the body left.                      *)
UpstreamFails(r) ==
  /\ pc[r] \in {"send", "await"}
  /\ row' = [row EXCEPT ![r].outcome = "failed"]
  /\ Goto(r, "audit")
  /\ UNCHANGED <<clock, ledger, shared, epoch, wire, shown, content, seq, born,
                 text, relay>>

UpstreamAnswers(r) ==
  /\ pc[r] = "await"
  /\ row' = [row EXCEPT ![r].outcome = "started"]
  /\ sse' \in {[sse EXCEPT ![r] = b] : b \in BOOLEAN}
  /\ Goto(r, "audit")
  /\ UNCHANGED <<clock, ledger, shared, epoch, wire, shown, content, seq, born,
                 text, chunk, read, chunks>>

(* The literals issued_token_pattern matches: no hard-blocked label.       *)
DisplayTokens == {t \in Token : t.label \notin HardClasses}

(* relay_upstream: a chunk arrives and the clock is read, then the relay   *)
(* waits for the engine lock.                                              *)
ReadChunk(r, t) ==
  /\ pc[r] = "relay" /\ sse[r]
  /\ chunks[r] < MaxChunks
  /\ chunks' = [chunks EXCEPT ![r] = @ + 1]
  /\ chunk' = [chunk EXCEPT ![r] = t]
  /\ read' = [read EXCEPT ![r] = clock]
  /\ Goto(r, "relock")
  /\ UNCHANGED <<clock, ledger, shared, epoch, wire, shown, content, seq, born,
                 row, text, sse>>

(* Under the lock the token is looked up with the earlier clock reading.   *)
PushChunk(r) ==
  /\ pc[r] = "relock"
  /\ entries' = restore_exact(entries, sequence, Scope, chunk[r], read[r])
  /\ sequence' = Saturate(sequence)
  /\ shown' = IF Owned(entries, Scope, chunk[r], read[r])
              THEN shown \cup {[token |-> chunk[r],
                                value |-> entries[chunk[r]].value,
                                epoch |-> epoch]}
              ELSE shown
  /\ chunk' = [chunk EXCEPT ![r] = NoToken]
  /\ read' = [read EXCEPT ![r] = 0]
  /\ Goto(r, "relay")
  /\ UNCHANGED <<clock, shared, epoch, wire, content, seq, born, row, text,
                 sse, chunks>>

EndRelayBug(r) ==   \* a broken stream is recorded once more
  /\ pc[r] = "relay"
  /\ row' = [row EXCEPT ![r].outcome = "failed"]
  /\ Goto(r, "audit")
  /\ UNCHANGED <<clock, ledger, shared, epoch, wire, shown, content, seq, born,
                 text, relay>>

(* The stream ends, breaks, or is passed through unrestored to its end.    *)
EndRelay(r) ==
  /\ pc[r] = "relay"
  /\ Goto(r, "done")
  /\ sse' = [sse EXCEPT ![r] = FALSE]
  /\ UNCHANGED <<clock, ledger, shared, epoch, wire, shown, content, seq, born,
                 row, text, chunk, read, chunks>>

(* The client goes away: hyper drops the handler or the body stream at the *)
(* await it is suspended in.  A handler that panics in the scan, under the *)
(* engine lock, is dropped in the same way (PrivacyEngine!ScanPanics).     *)
Disconnect(r) ==
  /\ pc[r] \in Waiting
  /\ Goto(r, "dropped")
  /\ sse' = [sse EXCEPT ![r] = FALSE]
  /\ chunk' = [chunk EXCEPT ![r] = NoToken]
  /\ read' = [read EXCEPT ![r] = 0]
  /\ UNCHANGED <<clock, ledger, shared, epoch, wire, shown, content, seq, born,
                 row, text, chunks>>

CrashBug ==   \* the mappings outlive the process
  /\ epoch < MaxCrashes
  /\ epoch' = epoch + 1
  /\ healthy' = TRUE /\ counter' = 0 /\ dashboard' = <<>>
  /\ pc' = [r \in Reqs |-> IF pc[r] \in {"new", "done"} THEN pc[r]
                           ELSE "dropped"]
  /\ UNCHANGED <<clock, ledger, file, failures, wire, shown, content, seq, born,
                 row, text, relay>>

(* The process dies and is started again: the ledger, the counters and the *)
(* dashboard are gone, the audit file is reopened for append as it is.     *)
Crash ==
  /\ epoch < MaxCrashes
  /\ epoch' = epoch + 1
  /\ file' \in {file} \cup UNION {Remains(r) : r \in {q \in Reqs : pc[q] = "audit"}}
  /\ entries' = EmptyLedger /\ sequence' = 0
  /\ healthy' = TRUE /\ counter' = 0 /\ dashboard' = <<>>
  /\ pc' = [r \in Reqs |-> IF pc[r] \in {"new", "done"} THEN pc[r]
                           ELSE "dropped"]
  /\ UNCHANGED <<clock, failures, wire, shown, content, seq, born, row, text,
                 relay>>

Handler(r) ==
  \/ CheckIn(r) \/ Refuse(r) \/ Admit(r) \/ Protect(r)
  \/ WriteAudit(r) \/ WriteFails(r) \/ MarkUnhealthy(r) \/ RecordActivity(r)
  \/ Send(r) \/ UpstreamFails(r) \/ UpstreamAnswers(r)
  \/ \E t \in DisplayTokens : ReadChunk(r, t)
  \/ PushChunk(r) \/ EndRelay(r) \/ Disconnect(r)

Next == Tick \/ Crash \/ \E r \in Reqs : Handler(r)

Spec == Init /\ [][Next]_vars

(* Fairness: the runtime keeps polling handlers that can go on, and the    *)
(* engine lock is fair and never held across an await.  Nothing is assumed *)
(* of clients, of the upstream (there is no read timeout) or of failures.  *)
Progress(r) ==
  \/ Refuse(r) \/ Admit(r) \/ Protect(r) \/ WriteAudit(r)
  \/ MarkUnhealthy(r) \/ RecordActivity(r) \/ PushChunk(r)

FairSpec == Spec /\ \A r \in Reqs : WF_vars(Progress(r))

-----------------------------------------------------------------------------

Outcomes == {"none", "not_started", "pending", "started", "failed"}
Decisions == {"none", "allowed", "rewritten", "blocked", "rejected"}

(* The type invariant: every handler is at a known place with a known      *)
(* audit row, and the shared counters stay within their bounds.            *)
TypeOK ==
  /\ clock \in Instant /\ sequence \in 0..MaxSequence
  /\ DOMAIN entries \subseteq Token /\ entries \in [DOMAIN entries -> Entry]
  /\ healthy \in BOOLEAN
  /\ counter \in 0..Cardinality(Reqs)
  /\ epoch \in 0..MaxCrashes /\ failures \in 0..MaxFailures
  /\ content \in [Reqs -> Contents]
  /\ pc \in [Reqs -> {"new"} \cup Waiting \cup Working \cup Over]
  /\ seq \in [Reqs -> Nat] /\ born \in [Reqs -> 0..MaxCrashes]
  /\ row \in [Reqs -> [decision : Decisions, outcome : Outcomes]]
  /\ text \in [Reqs -> Token \cup {Clean, NoToken}]
  /\ read \in [Reqs -> Instant] /\ chunks \in [Reqs -> 0..MaxChunks]

IsRowOf(line, r) ==
  line # Torn /\ seq[r] > 0 /\ line.epoch = born[r] /\ line.seq = seq[r]

HasRow(r, outcomes) ==
  \E i \in DOMAIN file : IsRowOf(file[i], r) /\ file[i].outcome \in outcomes

Sent(r) == \E m \in wire : m.req = r

(* Audit before egress: whatever fails, tears, races or crashes, a body on *)
(* the wire has the whole of its pending row in the audit file.            *)
EgressRecorded ==
  \A r \in Reqs : Sent(r) => HasRow(r, {"pending"})

(* A row is a line of its own only if the write before it was not torn:    *)
(* the next write continues the torn line.                                 *)
Readable(i) == i = 1 \/ file[i - 1] # Torn

(* docs/ARCHITECTURE.md: "A `pending` record must persist before upstream  *)
(* send": the record can be read back as a line of the JSONL file.         *)
EgressReadable ==
  \A r \in Reqs : Sent(r) =>
    \E i \in DOMAIN file :
      IsRowOf(file[i], r) /\ file[i].outcome = "pending" /\ Readable(i)

(* docs/ARCHITECTURE.md: "A write or sync failure marks audit unhealthy    *)
(* and prevents later protected egress": a request that has no pending row *)
(* yet when the audit is unhealthy never leaves.  (For behaviours without  *)
(* a crash: a restart begins healthy.)                                     *)
NoEgressAfterFailure ==
  \A r \in Reqs : []((~healthy /\ ~HasRow(r, {"pending"})) => []~Sent(r))

(* What does hold: a request that has not passed the health check when the *)
(* audit turns unhealthy never leaves, however the others race on.  (For   *)
(* behaviours without a crash: a restart begins healthy.)                  *)
LateArrivalsHeld ==
  \A r \in Reqs : []((~healthy /\ pc[r] = "new") => []~Sent(r))

(* While the audit is healthy, every request that was numbered and served  *)
(* to its end has a final row: nothing ends silently except by disconnect. *)
DoneIsAccounted ==
  \A r \in Reqs :
    (pc[r] = "done" /\ seq[r] > 0 /\ born[r] = epoch /\ healthy)
      => HasRow(r, {"not_started", "started", "failed"})

(* The audit file tells a possible story for every request: one final row  *)
(* at most, and a started or failed row only after a pending one.          *)
RowsTellLifecycle ==
  \A r \in Reqs : \A i, j \in DOMAIN file :
    (IsRowOf(file[i], r) /\ IsRowOf(file[j], r) /\ i < j) =>
      /\ file[i].outcome = "pending"
      /\ file[j].outcome \in {"started", "failed"}
      /\ file[i].decision = file[j].decision

LastRow(s) ==
  SelectLastInSeq(file, LAMBDA line :
    line # Torn /\ line.epoch = epoch /\ line.seq = s)

Recording(s) ==
  \E r \in Reqs : seq[r] = s /\ born[r] = epoch /\ pc[r] \in {"record", "mark"}

(* The dashboard is bounded, shows a request once, and agrees with the     *)
(* audit file: its outcome is that of the last row, unless that row is     *)
(* just being recorded or the audit has failed.                            *)
DashboardAgrees ==
  /\ Len(dashboard) <= DashboardLimit
  /\ \A i, j \in DOMAIN dashboard :
       dashboard[i].seq = dashboard[j].seq => i = j
  /\ \A i \in DOMAIN dashboard :
       (healthy /\ ~Recording(dashboard[i].seq)) =>
         /\ LastRow(dashboard[i].seq) # 0
         /\ file[LastRow(dashboard[i].seq)].outcome = dashboard[i].outcome
         /\ file[LastRow(dashboard[i].seq)].decision = dashboard[i].decision

(* A restored value was submitted by a request of the same process run,    *)
(* and its token is the one that request was rewritten with, although      *)
(* tokens may be evicted and drawn again: a restart forgets every mapping, *)
(* so old literals stay literals.                                          *)
NoCrossSessionRestore ==
  \A x \in shown : \E r \in Reqs :
    /\ seq[r] > 0 /\ born[r] = x.epoch
    /\ text[r] = x.token
    /\ content[r] = [kind |-> "value", value |-> x.value]

(* A handler never hangs inside the gateway: from wherever it is, it comes *)
(* to wait for its client or the upstream, or ends.                        *)
Inside == {"checked", "lock", "audit", "mark", "record", "relock"}

HandlersSettle ==
  \A r \in Reqs : pc[r] \in Inside ~> pc[r] \notin Inside

(* The gateway implements the egress gate.                                 *)
Gate == INSTANCE EgressGate WITH
  recorded <- {r \in Reqs : HasRow(r, {"pending"})},
  sent     <- {r \in Reqs : Sent(r)},
  closed   <- {r \in Reqs : pc[r] \in Over}

ImplementsGate == Gate!Spec

=============================================================================
