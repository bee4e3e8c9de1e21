# AgentVeil: a TLA+ model of the privacy gateway

AgentVeil is a local gateway between Codex and a remote model. It parses each
`POST /v1/responses` body, finds sensitive text, blocks, masks or tokenizes it,
writes an audit record, forwards the protected body, and (in its synthetic
modes) puts original values back into the streamed answer for display. This
directory holds TLA+ specifications of its core, TLC configurations that check
them on small instances, and TLAPS proofs, for every value of the constants, of
every safety property the passing runs check: the ledger, overlap resolution, the scanner, the
request payload, the engine, the gateway with its refinement of an abstract
egress gate, the SSE transformer, the launcher and the demos.

Paths below are those of the repository (`src/ledger.rs`, `docs/...`).

## Inventory

| Part | State | Operations | Interacts with | What makes it correct |
|---|---|---|---|---|
| Token ledger, `src/ledger.rs` | map token -> (scope, class, value, expiry, last use), usage counter | `issue_tracked`, `rollback_created`, `restore_exact`, `owns_token`, `entry_count`, `clear_scope`, `clear_all` | called by the engine, under its lock | bounded; one token per value; a live token keeps its value; only the least recently used entry is evicted; hard classes never enter |
| Overlap resolution, `resolve_overlaps` in `src/detector.rs` | none | pure function | called by `protect` | resolved spans disjoint and ordered; no finding handled more weakly than its own action; nothing invented |
| Detectors, `src/detector.rs` | compiled patterns | `scan`: normalized views, pattern matches mapped to source spans | called by `protect` | limits fail closed and no decoded form is skipped; the source span of a match holds all it came from |
| Request payload, `src/payload.rs` | JSON value, list of text targets | `parse`, `text`, `replace_text`, `serialize` | called by `protect` | every string of an accepted body is inspected; only rewrite targets are changed |
| Policy, `src/policy.rs` | validated rules | `validate`, `rule_for` | read by `protect` | hard classes always block and are never restorable; TTL bounds |
| Privacy engine, `src/engine.rs` | policy, scanner, ledger | `protect`, `restore_display_text`, `clear_scope` | one per gateway, behind a tokio Mutex | blocked requests allocate nothing; failures roll back; a forwarded text is the original with exactly the findings replaced |
| Gateway, `src/gateway.rs` | `audit_healthy`, `request_sequence`, dashboard ring, HTTP client | `responses`, `relay_upstream`, `write_audit`, `record_dashboard_activity` | engine lock, sink lock, dashboard lock, upstream, client | nothing is sent without a complete pending record; rows tell one story per request; no handler hangs inside |
| Audit, `src/audit.rs`, `src/audit_sink.rs` | append-only file | `open`, `write` | called by the gateway, under its own lock | a failed write is noticed and stops egress |
| SSE transformer, `src/sse.rs` | byte buffer | `push`, `finish` | one per response, fed by the relay loop | output independent of chunking; a truncated stream never ends cleanly; bounded memory |
| Dashboard, `src/dashboard.rs` | none of its own | snapshot pages | reads the gateway's ring | agrees with the audit |
| Models, health and fallback routes, `src/gateway.rs` | none | single requests | upstream | header and URL checks |
| Launcher, `src/main.rs` | listener, gateway task, Codex child | `codex`, `serve`: check, load policy, bind, start gateway, start Codex, stop both | operating system, policy, audit sink | only an enforceable policy serves; Codex never runs without its gateway; a success means what it says; the command ends |
| Synthetic demo and wire proof, `src/demo.rs`, `SyntheticWireProof` | sticky proof flag, the fake upstream's counters and bodies, two server tasks, a child, a private directory | `demo`, `codex-demo`, each with `--check`: start, check, wait, stop, clean up | gateway, Codex, operating system | a failed proof stays failed; a success means what it says; no way out leaves Codex, or Codex without its home; the command ends |

Hard behaviours: concurrent handlers that share one engine lock, one blocking
audit lock and an atomic flag read once; clients that disconnect at any await;
audit writes that fail, tear, or are cut by a crash; a restart on the same file
with a fresh counter and an empty ledger; clock readings taken before a lock is
obtained; a full ledger; responses cut into arbitrary chunks. `PROJECT.json`
lists them line by line under `hazards`, with the properties that watch them.

## Modules

| Module | Models | State and actions |
|---|---|---|
| `LedgerOps` | the operations of `src/ledger.rs` on a ledger value | operators only; random draws and HashMap order give sets of results |
| `TokenLedger` | the ledger as a component | `entries`, `sequence`, `clock`; one action per public method |
| `TokenLedgerProofs` | - | the ledger's inductive invariant and its theorems |
| `OverlapOps` | `resolve_overlaps` and `Action::precedence` | operators only |
| `OpsProofs` | - | what each ledger operation does to a sound ledger, and what `resolve_overlaps` returns for every list of findings; used by four proof modules |
| `NormalizerOps` | `ScanView` of `src/detector.rs`: decoding, canonicalization, continuations, collapsing, source maps | operators on views |
| `Scanner` | `Scanner::scan` with `composed_views`, and `resolve_overlaps` of its findings | the queue of views, the views, `findings`; one action per round of a loop and per refusal, `Detect` for a match |
| `ScannerProofs` | - | resolution, source maps, the breadth-first walk over the decoded forms, and what the source span of a match carries |
| `PrivacyEngine` | `src/engine.rs` on `LedgerOps` and `OverlapOps` | the stages of `protect` as `phase`; one action per stage and per way to fail; `RestoreDisplayText` |
| `PrivacyEngineProofs` | - | what is blocked, rolled back, rewritten and displayed |
| `EgressGate` | what the gateway promises, abstractly | sets of recorded, sent and closed requests |
| `Gateway` | `src/gateway.rs` on `LedgerOps`, with `src/audit_sink.rs` | shared state, and for each request a program counter and its local variables; one action per stretch between two points where another task can run |
| `GatewayProofs` | - | audit before egress, the refinement of the gate, what the file, the dashboard and the displays say of every request |
| `SseTransformer` | `src/sse.rs` and the relay's use of it | `stream`, `buffer`, `out`, `status`; `Push`, `Finish`, `TransportError` |
| `PayloadOps` | `ValidatedRequest::parse` of `src/payload.rs` with all its collectors | operators on JSON documents |
| `Payload` | a request body from the client's hands to the wire | `body`, `value`, `targets`, `phase`; `Put`, `Delete`, `RepeatKey` (the client), `Parse`, `Inspect`, `ReplaceText`, `Serialize` |
| `ExchangeProofs` | - | the two bodies of an exchange: every string of an accepted request is inspected, and the relayed stream does not depend on its chunks |
| `PolicyOps` | `ValidatedPolicy::validate` of `src/policy.rs` | operators only |
| `Launcher` | the commands `codex` and `serve` of `src/main.rs` on `PolicyOps`, with `build_router` | launcher stage, gateway task, child, requests in flight; one action per step of the command, per failure, and per event of the other processes |
| `LauncherProofs` | - | which policy serves, when Codex may run, and what a success means |
| `Demo` | the demo commands of `src/demo.rs` and the wire proof | command stage, check step, server tasks, child, runtime directory, proof, what the fake upstream received, requests in flight; one action per step, failure, timeout, request event |
| `DemoProofs` | - | what a verdict means, and which way out leaves what behind |
| `MC*` | - | constants for TLC |

`Gateway` refines `EgressGate` (`ImplementsGate`): recorded requests are those
with a complete pending row in the file, sent ones those on the wire, closed
ones those whose handler ended or was dropped.

### Correspondence and abstraction

- *Ledger.* Time is in clock ticks and `u64::MAX` is `MaxTime` or
  `MaxSequence`, so that checked and saturating arithmetic reach their limits.
  The class of a token stands for its label: `token_label` is injective on the
  classes the ledger accepts. `restore_exact` takes any reading not later than
  the clock, because the relay reads the clock before it waits for the lock.
  The eight attempts to draw a token are one choice: a fresh token, or failure.
- *Scanner.* A byte of a text is a symbol, and so is an escape's hexadecimal
  tail, so that a percent or JSON escape is two symbols instead of three or
  six; a line break is one (`nl`), surrogate pairs are left out. NFKC is two
  characters that change: one becomes a dot, one grows to eleven bytes. One
  character has two bytes, each of which may come from an escape. What a
  detector looks for is not modelled: any part of a view that begins and ends on
  characters may match, which includes whatever a pattern or a hand-written scan
  can report. Two of the latter slice the text at an index that may lie inside a
  character (`detector.rs:361`, one byte after the start of the character before
  a hostname, and `detector.rs:333`, 32 bytes before a number); they panic there,
  which `DetectorPanics` may do in any view that is not collapsed and has a
  character of several bytes before its end. The fourteen forms in
  which two layers of decoding can leave a text (seven views, each collapsed)
  are within `MAX_REGULAR_VIEWS`, so that limit is never met; the limits of
  scanned views and of length are.
- *Engine.* A text is a sequence of atoms (clean, sensitive, token, mask) and
  findings are half-open spans of positions. Requests are given with their
  findings, which `Scanner` shows to be spans of the source. The engine is used under a lock, so `protect` is split only to let
  it fail between any two steps. A scan that panics (`ScanPanics`) unwinds out of
  `protect`: the lock, which tokio does not poison, is released, nobody is
  answered, and the ledger is as the scan left it. In `Gateway` this is a
  disconnect at the engine lock (but for a purge of expired mappings, which the
  next call makes anyway).
- *Gateway.* `protect` is one step under the engine lock, as in the code. The
  body is malformed, secret, clean, or holds one tokenizable value. A write that
  fails or is cut by a crash leaves nothing, a torn line, or the whole row. A
  disconnect can only strike at an await. An upstream failure may come before or
  after the body left.
- *SSE.* A byte is a line feed, a carriage return, a token, a byte that makes
  its event one that is never restored, or one that makes `transform_frame`
  fail.
- *Payload.* A document is a function from paths to nodes, so the recursive
  walks of the code are sets of paths below a prefix. Texts are atoms; one of
  them is what detectors find. Targets are a set: the code's list order decides
  only the order of scanning, and no target is pushed twice
  (`EveryStringOneTarget`). Error values and field classes are not told apart.
  `Inspect` is the scan of `protect`, reduced to its verdict; `PrivacyEngine`
  has the scan itself and takes the targets as given.
- *Policy and launcher.* An optional TTL is a set of at most one number; a
  category key is its data class. The four tests of the audit path are one,
  those of the installed Codex two. An early return is followed by the drops of
  what is held at that point, one action each and latest first: the child
  (`kill_on_drop`), then the shutdown sender, which makes a gateway that still
  serves begin to drain; when `main` returns, its runtime ends the tasks where
  they are. `CodexNeedsGateway` is about the states between these. A signal to
  the `codex` command, which installs no handler, ends it without dropping
  anything: Codex may outlive it, and the property excepts this case.
- *Demo.* The gateway under test may do anything to a request: block it, forward
  it with the originals left in, without tokens, or with a header it should have
  removed, and answer what it likes; only that it forwards a request once, and
  answers a forwarded request after the upstream, is taken from
  `src/gateway.rs`. Everything else a check reads (status, texts, dashboard,
  audit) is one test that may fail. The fake upstream counts a request and
  judges it in two steps, since handlers run in parallel. What `run_checks` reads
  of a body is what the body holds; that it searches the raw bytes only is not
  told apart. The runtime directory is given up in four places, each an action:
  `new` removes a root it could not fill, for which there is no guard yet; a
  clean run with Codex removes it and looks (`Cleanup`); every other way out
  leaves it to a drop, after the servers' senders and the child were dropped.
- Definitions whose name ends in `Bug` are faulty variants of the definition
  below them; `PROJECT.json` (`mutants`) says which property refutes each.

## Runs

| Run | Checks | Bounds |
|---|---|---|
| `ledger` | `CapacityBound`, `OneTokenPerValue`, `RecencyStrict`, `LiveTokenNeverRebound`, `OnlyLruEvicted` | two scopes, two values and the empty one, two tokenizable classes and a hard one, three suffixes, capacity 2 (eviction after the third value), four ticks, a counter that saturates at 6 |
| `scan` | `NoFormSkipped`, `SpanCarriesMatch`, `DisjointAscending`, `NeverWeaker`, `NothingInvented` | every text of up to four of eight symbols and of up to three of fourteen, and longer ones with twelve views (the limit), with more, and with views that outgrow their source; three findings (a chain needs three) in one text of four positions and two where a match has several sources; one class per action and two for one action |
| `engine` | `ForwardFaithful`, `HardNeverForwarded`, `UnforwardedLeavesNoMapping`, `DanglingOnlyWhenFull`, `RoundTrip`, `DisplayExact` | capacity 2, requests with values of different lengths, repeated values, overlaps, a credential, block-only targets, token literals before and after the value that evicts them, more values than the ledger holds (so a token is evicted and drawn again within one request), a finding around a token literal |
| `gateway_audit` | `EgressRecorded`, `DoneIsAccounted`, `RowsTellLifecycle`, `DashboardAgrees`, `NoCrossSessionRestore`, `ImplementsGate` | two requests of any content, two values and one ledger entry (so tokens are evicted and redrawn), one restored chunk each, one failing write, one crash, a dashboard of one entry (an activity is pushed out by the other request's and comes back with its next row) |
| `gateway_live` | `LateArrivalsHeld`, `HandlersSettle` | two requests, one failing write, a clock that moves once, one value and one ledger entry (so a token is issued before the tick and found expired, or refused, after it) |
| `sse` | `ChunkingInvisible`, `CleanEndIsComplete`, `BufferBounded` | streams of six bytes, chunks of three, limit four: longer than a CRLF frame end and shorter than the stream |
| `payload` | `EveryStringOneTarget`, `NothingSensitiveSent`, `RewriteKeepsShape` | 18 bodies (each item type, each optional control; four `include` entries, so a fifth can be added), two changes to any of their nodes: one to place a sensitive text and one to bend the shape around it |
| `launcher` | `ServedPolicyEnforceable`, `CodexNeedsGateway`, `SuccessIsClean`, `LauncherEnds` | both commands, all machine states, the default policy with every change of one rule of a hard and of a soft class and of each default at its limits, two requests in flight |
| `demo` | `ProofHonest`, `VerdictSound`, `NoOrphans`, `SuccessIsClean`, `DemoEnds` | all four commands, a directory that any attempt may fail to remove (and a later one remove), two requests of Codex (one to fail the proof and one to pass it, in either order), every step of both scripts |

A type invariant is checked in `ledger`, where saturating and checked arithmetic
could break it (`TypeOK` of the other modules documents their variables). Two requests are enough
for the gateway's properties, which relate one request to the failure or the
row of another one. Symmetry is used for interchangeable values and requests,
never in the run with liveness. `CHECK_DEADLOCK FALSE` is set where the
modelled work ends: all requests are over, a stream has ended, the scan is
resolved or refused, a body was sent or refused, the command has exited.

### Where code and documentation disagree

Three runs are expected to fail; each states a sentence of the documentation.
(Two smaller ones, seen while modelling, have no run: findings that only touch
are resolved separately although `docs/ARCHITECTURE.md:136` says adjacent ones
are resolved together, and the limit of `docs/ARCHITECTURE.md:194` on one SSE
frame is applied only to a buffer without a frame end.)

| Run | Sentence | What the code does |
|---|---|---|
| `engine_dead_token` | `docs/ARCHITECTURE.md:168`, evicted token literals are blocked on outbound inspection | ownership is tested before the same request's own tokens are issued, which may evict the mapping. The requests of the run issue for one value at most: the first two fill the ledger, the third carries the literal of the first, which is inspected and let through, and the token for its new value evicts that mapping; the dead literal goes out. It happens only with a full ledger (`DanglingOnlyWhenFull`) and reveals nothing |
| `gateway_egress_after_failure` | `docs/ARCHITECTURE.md:185`, a write failure prevents later protected egress | health is read once per request: requests already past the check are still sent, if their own row is written. Requests that arrive later are held (`LateArrivalsHeld`) |
| `gateway_readable` | `docs/ARCHITECTURE.md:185`, a pending record must persist before upstream send | after a torn write the next record continues the torn line; its bytes are there (`EgressRecorded`) but no longer form a JSON line |

## Fairness

Safety runs use no fairness. `gateway_live` assumes weak fairness of each
handler's own steps (`Progress`): the tokio runtime polls a ready task again,
the engine lock is a fair queue that is never held across an await, and the
audit and dashboard locks are held for one call each. Nothing is assumed of
clients, of the upstream, which has a connect timeout only, or of failures.
`HandlersSettle` therefore says that a handler inside the gateway comes to wait
for client or upstream, or ends, and not that every request is answered. The locks
are not represented as such: a step under a lock is one action, and that a
waiter gets its turn is the fairness assumed, so contention itself is outside
what the run shows.

`launcher` assumes weak fairness of the launcher's own steps and of the expiry
of the five-second grace period, and nothing of Codex, of its requests or of
the gateway task. `LauncherEnds` holds for `codex` however long a request
hangs; `serve` has no grace period, so nothing is claimed of it after Ctrl-C
unless its listener fails.

`demo` assumes weak fairness of the command's own steps and of its timeouts (a
client timeout per request and one for a whole run, five seconds for each
server), and nothing of servers, Codex or requests, any of which may hang.
`DemoEnds` covers the checks from their first step, and the other two commands
from the moment there is nothing to wait for: the child or a server ended, or
the command began to stop.

## Proofs

Every theorem holds for all values of the constants, from the assumptions of the
modules: positive capacity and natural bounds (`ConstantsAssumption`), the
absent token is no token (`NoTokenAssumption`), a validated policy blocks the
hard classes and gives positive TTLs (`PolicyAssumption`, what
`ValidatedPolicy::validate` enforces), and what one component is handed by
another: `InputsAssumption` (findings are nonempty spans inside their text and
every token literal is found, which is what `Scanner` shows and what the token
pattern does), and `ScannerAssumption`. The gateway's proofs use
`GatewayAssumption` (the scope in use is a scope, the class issued is not a hard
one, a positive TTL and dashboard limit, natural bounds) beside the ledger's two;
`LateArrivalsHeldHolds` alone also supposes that the process does not crash
(`MaxCrashes = 0`). The proofs of the payload use `PayloadAssumption` (the bodies
a client starts from are documents, what it changes are nodes and keys, and
detectors find nothing in an empty text), those of the transformer
`SseAssumption` (natural limits, chunks of at least one byte).

The provers have no induction over data that could be used here, so induction is
done by least counterexample: the set of lengths for which a claim fails is a
set of naturals, and if it is not empty it has a least element
(`LeastNatural`). A recursive function is first shown to exist for every length
(`FlattenExists`, `DisplayExists` and their like); then its equations may be
used.

**Ledger** (`OpsProofs`, `TokenLedgerProofs`). `LedgerInvariant` is
`Spec => []IInv`, with the state invariants as consequences. The invariant is
stated for a ledger value and a counter (`LedgerOK`), so that each operation has
its own lemma: restriction (`RestrictOK`, which serves purge, rollback, eviction
and clearing), `TouchOK`, `InsertOK`, then `PurgeOK`, `MakeRoomOK`, `IssueOK`,
`RestoreOK`. The parts need each other: capacity after an insert needs a finite
domain and the room `MakeRoomOK` gives; uniqueness after an insert needs the
failed search (`Holders = {}`); strict recency after a touch needs that no stamp
is ahead of the counter. The action properties follow from what one call does to
the mappings that are there (`IssueEffect`, `RestoreEffect`, `RestrictKeeps`).
`evict_lru` compares stamps with `<=` only; that every survivor was used
strictly later follows from the counter having moved, so it had not saturated
and equal stamps belong to one token.

**Overlaps** (`OpsProofs`). `ResolveOverlaps`: for every list of findings the
result is ascending and disjoint, every finding lies in a span whose action is at
least as strong as its own, every span is covered by findings, and its class and
action come from findings inside it. The induction is over the rounds of the
merge loop.

**Scanner** (`ScannerProofs`). `ScanInvariant` carries over to the scan what
`ResolveOverlaps` says of its findings; `DisjointAscendingHolds`,
`NeverWeakerHolds` and `NothingInventedHolds` follow. `SpansOnCharactersHolds`:
the source map of every view, through any chain of decodings, keeps its length,
order and bounds, so the span of a match begins and ends on a character of the
text. `ComposeInvariant` and `NoFormSkippedHolds`: the queue of
`composed_views` is a breadth-first walk; whatever form is not yet listed is
reached from a view still in the queue (`Explored`), so an empty queue means
that none is missing, or a limit has refused the text.

`SpanCarriesMatchHolds`: decoding the source span of any match again, by itself,
still shows the match. The argument follows a match back to the text, one
decoding at a time. In every view the bytes come from the source one after the
other, and only the two bytes of one character share their source (`Ordered`,
kept by every transform: `RewriteOrdered`). A match is widened to a run, a part
that has its source for itself, which does not change its span (`RunAround`,
`HullIs`). `RunPulls` takes a run of a transform's output to the run of its input
it came from: the units that wrote it end where that run ends. Each transform
looks only at a few bytes around the one it is at, so it makes of that run,
taken alone, the same bytes again (`JsonPulls`, `PercentPulls`, `CollapsePulls`,
`ContinuationPulls`, `CharacterPulls`, `CanonicalPulls`). A separator or a
continuation is dropped for what stands on both sides of it; the run taken
begins and ends with a unit that writes something, so neither side is cut off. The layers of the composition are then followed one by
one (`Carried`, `StepCarried`), and at the text itself a run is the span.

**Engine** (`PrivacyEngineProofs`). `EngineInvariant` has a part for each thing
that must be known in the middle of a call for something to hold at its end: what
the scan cleared (`Cleared`, for `HardNeverForwardedHolds`), where each mapping
came from (`Traced`, for `UnforwardedLeavesNoMappingHolds`: the rollback list and
the old bindings together are everything), that pending findings lie inside the
text as rewritten so far (`Pending`), and that every token in the body is owned
unless the ledger is full of live ones (`Live`, for `DanglingOnlyWhenFullHolds`).

`DisplayExactHolds` is an induction from the last position of a text to the
first: a value of another length moves only what was already restored
(`DisplayIs`). `RewriteInvariant` says how far `apply_rewrites` has come with
each target: the text is a prefix of the original, which holds all replaced
findings still to do, followed by atoms that match the reference rewrite one by
one (`Rewriting`); a replacement moves the border to the left of its span
(`RewritingReplaces`), which is where the order from right to left is needed, and
a token stays a fit for its slot when the next one is issued, unless it was
evicted and drawn again, which needs a full ledger (`IssueFits`).
`ForwardFaithfulHolds` is the case where nothing is left to do.
`RoundTripHolds` puts the two together: showing the reference rewrite with each
slot shown as what it replaced gives the original (`SkeletonShows`, by induction
over the positions that no replaced span crosses).

**Gateway** (`GatewayProofs`). For any sets of requests and values and any number
of failing writes and crashes: `GatewayInvariant` (`Spec => []GInv`),
`EgressRecordedHolds`, and `ImplementsGateHolds`, the refinement of `EgressGate`.
`EgressRecorded` is not inductive: a row names its request by process run and
number only, so a row could come to belong to a request numbered later. `GInv`
adds that `fetch_add` gives each number once in a run and a crash begins a new
run (`Numbered`, `NumbersDistinct`), that every whole row belongs to a numbered
request (`Attributed`), and from which places of a handler the body may still
leave (`Gated`). Each action has one lemma or one case of `HandlerStep`, which
also says what the step does to the gate (`GateStep`).
`SInv` adds which rows each place in a handler has written (`Story`) and which
one it must have written (`Account`): `RowsTellLifecycleHolds` and
`DoneIsAccountedHolds`. `RestoreInvariant` traces every mapping and every
displayed value to the session that sent it (`MInv`, `Sourced`), also when a
token is evicted and drawn again: `NoCrossSessionRestoreHolds`. `BoardInvariant`
relates each dashboard entry to the rows of the file: `DashboardAgreesHolds`.
`LateArrivalsHeldHolds` needs that a request which read the flag after a failure
is marked (`Held`); it is proved for runs without a crash, since a restart clears
the flag.

**Request payload** (`ExchangeProofs`). For every document, of any depth:
`PayloadInvariant` (`PayloadSpec => []PInv`) and from it
`EveryStringOneTargetHolds`, `NothingSensitiveSentHolds` and
`RewriteKeepsShapeHolds`. The property speaks of the body that is sent, while
targets were collected from the body that arrived, so two facts about `parse`
are needed. Documents that differ only in the text of prose strings are parsed
alike (`Kin`, `KinParse`): every test and every collector reads kinds, keys and
the text of fields that are never prose. And an accepted document yields each of
its strings once (`TargetsAre`): the collectors work on fields of their own,
items are told apart by their index, and `collect_untracked_strings` takes what
they left. `replace_text` keeps the value in the relation `Kin` to the body, and
a target that only blocks still has the text that was inspected.

**SSE transformer** (`ExchangeProofs`). For streams, chunks and limits of any
length: `SseInvariant` and from it `ChunkingInvisibleHolds`,
`CleanEndIsCompleteHolds`, `BufferBoundedHolds`. The reference `CutAt` cuts a
stream byte by byte where a blank line is completed; a cut depends only on the
bytes before it and is never moved by later ones (`CutLocal`, `CutGrows`).
`find_frame_end` compares the first `LF LF` with the first `CR LF CR LF` by where
they begin, which is proved to be the first one completed (`FrameEnd`); so one
round of `push`'s loop takes the next frame off the rest of the stream
(`DrainStep`) and the loop takes all of them (`DrainedReaches`). `SInv` relates
the frames delivered, the buffer and the stream sent so far.

**Launcher and demos** (`LauncherProofs`, `DemoProofs`). One inductive invariant
each (`LInv`, `DInv`): for every stage of the command, what has been started and
not yet stopped, what was checked on the way there, and what the proof flag and
the counters then mean. The safety properties and both `SuccessIsClean` follow.
For the drops the invariant says, at each stage between a return and the exit,
what is still held (`Held`) and, on the way to a success, that all that could
make it one is already so (`Clean`): `NoOrphansHolds` and `DemoSuccessIsClean`
need both, because one way out gives things up by hand and another by drop.

Proving corrected the model. `HardNeverForwarded` said that the
session owns a forwarded literal at the end, which an eviction by the same
request breaks: it is owned when `protect` is called (`MayPass`). Within one
request a full ledger may evict a token and draw it again for another text, so
`ForwardFaithful` has that exception (`Redrawn`), and the run now reaches it. A
finding may contain a token literal, which is then replaced and not restored, so
`RoundTrip` shows as restored only the literals that `protect` let through. A
structural literal of the payload was `""` when there was none, which an object
with an empty key contradicts: it is now an option, and the client may write such
a key. The loops of the transformer are recursive functions, so that their
equations can be reasoned about.

Model-checked only: the liveness properties (`HandlersSettle`, `LauncherEnds`,
`DemoEnds`), which are out of the prover's reach.

## Not modelled

What the detectors look for (regular expressions and the hand-written scans
around them), and Unicode tables; the instant at which a late restoration finds
its token expired (the relay looks up with the reading it took before it waited
for the engine, and `DisplayExact` takes that reading as the code does); JSON shapes of response events beyond what
`SseTransformer` distinguishes; YAML syntax; the system calls of the audit
path's checks; headers and URLs of the other routes, which keep no state;
`doctor` and `policy-validate`; zeroized memory; scripts, packaging and
dashboard assets.

## Plan

The order was: the ledger and its proofs, overlap resolution, the engine on
both, the gateway on the ledger and its abstract gate, the transformer, the
payload, policy and launcher, then the scanner and the demos. What is left:

1. An abstract vault (a recency order instead of counters) refined by
   `TokenLedger`.
