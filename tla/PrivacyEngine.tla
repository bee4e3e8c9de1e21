---------------------------- MODULE PrivacyEngine ----------------------------
(***************************************************************************)
(* src/engine.rs: protect and restore_display_text on the token ledger.    *)
(*                                                                         *)
(* The engine is behind one tokio Mutex, so calls do not interleave with   *)
(* each other; protect is split into the steps between which it can fail,  *)
(* because what matters is what an unfinished call leaves in the ledger.   *)
(*                                                                         *)
(* A text is a sequence of atoms: clean atoms, sensitive atoms, token      *)
(* literals and masks.  A request is a sequence of targets, the texts that *)
(* payload.rs collects from the JSON body, each with its mode and the      *)
(* findings that the scanner reports in it as half-open spans (1-based).   *)
(*                                                                         *)
(* A definition whose name ends in "Bug" is a faulty variant of the one    *)
(* that follows it.  Nothing uses it: it is what that operation would be   *)
(* with one plausible mistake, kept to show that a property notices it.    *)
(***************************************************************************)
EXTENDS LedgerOps, OverlapOps

CONSTANTS
  Scope,          \* the session scope of the gateway
  Requests,       \* the request bodies that arrive
  Displays,       \* the texts that come back for display
  PolicyAction,   \* class |-> action (rule_for)
  Ttl,            \* class |-> ttl of its tokens, in clock ticks
  TokenClass      \* DataClass::TokenNamespace

Modes == {"rewrite", "block_only"}

ASSUME PolicyAssumption ==
  /\ Scope \in Scopes
  /\ PolicyAction \in [Classes -> Actions]
  /\ \A c \in HardClasses : PolicyAction[c] = "block"
  /\ TokenClass \in HardClasses
  /\ Ttl \in [Classes -> Nat \ {0}]

(* What payload.rs and the scanner hand to protect: each finding has a     *)
(* nonempty span inside its text, and every token literal is found.        *)
WellFormed(target) ==
  /\ target.mode \in Modes
  /\ target.text \in Seq(Range(target.text))
  /\ target.findings \in Seq([data_class : Classes, start : Nat, end : Nat])
  /\ \A j \in DOMAIN target.findings :
       /\ 1 <= target.findings[j].start
       /\ target.findings[j].start < target.findings[j].end
       /\ target.findings[j].end <= Len(target.text) + 1
  /\ \A from, to \in 1..Len(target.text) + 1 :
       SubSeq(target.text, from, to - 1) \in Values
  /\ \A p \in DOMAIN target.text : target.text[p] \in Token =>
       \E j \in DOMAIN target.findings :
         /\ target.findings[j].data_class = TokenClass
         /\ target.findings[j].start = p /\ target.findings[j].end = p + 1

ASSUME InputsAssumption ==
  /\ \A req \in Requests : /\ req \in Seq(Range(req))
                           /\ \A i \in DOMAIN req : WellFormed(req[i])
  /\ \A text \in Displays \cup Values : text \in Seq(Range(text))

VARIABLES
  entries,    \* the ledger
  sequence,   \* its usage counter
  clock,      \* the monotonic clock
  phase,      \* where protect stands: "idle" when the engine is free
  request,    \* the body being protected
  now,        \* the clock reading protect was called with
  plans,      \* per target, the resolved findings with their actions
  work,       \* the findings apply_rewrites has not yet handled
  created,    \* created_tokens
  body,       \* per target, the text as rewritten so far
  display,    \* the last text given to restore_display_text, and its result
  before      \* history: ledger and counter when protect was called

ledger == <<entries, sequence>>
job == <<request, now, plans, work, created, body, before>>
vars == <<entries, sequence, clock, phase, request, now, plans, work, created,
          body, display, before>>

Results == {"forward", "blocked", "rejected", "panicked"}

-----------------------------------------------------------------------------

Slice(text, f) == SubSeq(text, f.start, f.end - 1)

replace_range(text, f, replacement) ==
  SubSeq(text, 1, f.start - 1) \o replacement
    \o SubSeq(text, f.end, Len(text))

FindingActionModeBug(target, f) ==   \* block-only is forgotten
  IF /\ f.data_class = TokenClass
     /\ \E t \in DOMAIN entries :
          Slice(target.text, f) = <<t>> /\ Owned(entries, Scope, t, now)
  THEN "allow"
  ELSE PolicyAction[f.data_class]

FindingActionStaleBug(target, f) ==   \* ownership tested before the purge
  LET ruled == IF /\ f.data_class = TokenClass
                  /\ \E t \in DOMAIN entries : Slice(target.text, f) = <<t>>
               THEN "allow"
               ELSE PolicyAction[f.data_class]
  IN  IF target.mode = "block_only" /\ ruled # "allow" THEN "block" ELSE ruled

(* The policy's action; an owned token literal is let through, and a       *)
(* block-only target turns everything else into a block.                   *)
FindingAction(target, f) ==
  LET ruled == IF /\ f.data_class = TokenClass
                  /\ \E t \in DOMAIN entries :
                       Slice(target.text, f) = <<t>>
                         /\ Owned(entries, Scope, t, now)
               THEN "allow"
               ELSE PolicyAction[f.data_class]
  IN  IF target.mode = "block_only" /\ ruled # "allow" THEN "block" ELSE ruled

WithAction(target, f) ==
  [data_class |-> f.data_class, start |-> f.start, end |-> f.end,
   action |-> FindingAction(target, f)]

TargetPlan(target) ==
  resolve_overlaps([i \in DOMAIN target.findings |->
                      WithAction(target, target.findings[i])])

Has(plan, action) == \E j \in DOMAIN plan : plan[j].action = action

RewriteOrderBug(ps) ==   \* left to right
  FlattenSeq([i \in DOMAIN ps |->
    [j \in DOMAIN ps[i] |-> [target |-> i, finding |-> ps[i][j]]]])

(* apply_rewrites: plan by plan, the findings of a plan from right to      *)
(* left; allowed findings are skipped.                                     *)
RewriteOrder(ps) ==
  FlattenSeq([i \in DOMAIN ps |->
    [j \in DOMAIN ps[i] |->
      [target |-> i, finding |-> Reverse(ps[i])[j]]]])

Mask(c) == [mask |-> c]

HasTokenLiteral(req) ==
  \E i \in DOMAIN req : \E j \in DOMAIN req[i].findings :
    req[i].findings[j].data_class = TokenClass

-----------------------------------------------------------------------------

NoDisplay == [text |-> <<>>, shown |-> <<>>, held |-> EmptyLedger]

Init ==
  /\ entries = EmptyLedger /\ sequence = 0 /\ clock = 0
  /\ phase = "idle"
  /\ request = <<>> /\ now = 0 /\ plans = <<>> /\ work = <<>>
  /\ created = {} /\ body = <<>>
  /\ display = NoDisplay
  /\ before = [entries |-> EmptyLedger, sequence |-> 0]

Tick ==
  /\ clock < MaxTime
  /\ clock' = clock + 1
  /\ UNCHANGED <<ledger, phase, job, display>>

(* protect is entered with the engine lock held and the clock just read.   *)
BeginProtect(req) ==
  /\ phase = "idle"
  /\ phase' = "inspect"
  /\ request' = req
  /\ now' = clock
  /\ before' = [entries |-> entries, sequence |-> sequence]
  /\ body' = [i \in DOMAIN req |-> req[i].text]
  /\ plans' = <<>> /\ work' = <<>> /\ created' = {}
  /\ display' = NoDisplay
  /\ UNCHANGED <<ledger, clock>>

(* Oversize bodies, malformed JSON and unsupported shapes never reach the  *)
(* scanner.                                                                *)
RejectUnparsed ==
  /\ phase = "inspect"
  /\ phase' = "rejected"
  /\ UNCHANGED <<ledger, clock, job, display>>

(* The scanner stops in some target, after owns_token may already have     *)
(* purged the ledger for earlier ones: an error is returned (normalization *)
(* limits, invalid UTF-8).                                                 *)
ScanStops(outcome) ==
  /\ phase = "inspect"
  /\ phase' = outcome
  /\ \/ UNCHANGED entries
     \/ /\ HasTokenLiteral(Front(request))
        /\ entries' = purge_expired(entries, now)
  /\ UNCHANGED <<sequence, clock, job, display>>

RejectScan == ScanStops("rejected")

(* A detector slices the text off a character boundary: the handler's task *)
(* unwinds out of protect, and the lock is released without an answer.     *)
ScanPanics == ScanStops("panicked")

(* The scan loop of protect, summarize and the block test.                 *)
Scan ==
  /\ phase = "inspect"
  /\ LET ps == [i \in DOMAIN request |-> TargetPlan(request[i])]
     IN  /\ plans' = ps
         /\ IF \E i \in DOMAIN ps : Has(ps[i], "block")
            THEN phase' = "blocked" /\ UNCHANGED work
            ELSE phase' = "rewrite" /\ work' = RewriteOrder(ps)
  /\ entries' = IF HasTokenLiteral(request)
                THEN purge_expired(entries, now) ELSE entries
  /\ UNCHANGED <<sequence, clock, request, now, created, body, display, before>>

SkipAllowed ==
  /\ phase = "rewrite" /\ work # <<>>
  /\ Head(work).finding.action = "allow"
  /\ work' = Tail(work)
  /\ UNCHANGED <<ledger, clock, phase, request, now, plans, created, body,
                 display, before>>

MaskFinding ==
  /\ phase = "rewrite" /\ work # <<>>
  /\ LET i == Head(work).target
         f == Head(work).finding
     IN  /\ f.action = "mask"
         /\ body' = [body EXCEPT ![i] =
                       replace_range(@, f, <<Mask(f.data_class)>>)]
  /\ work' = Tail(work)
  /\ UNCHANGED <<ledger, clock, phase, request, now, plans, created, display,
                 before>>

(* issue_tracked; when it fails protect rolls back what it created.        *)
TokenizeFinding ==
  /\ phase = "rewrite" /\ work # <<>>
  /\ LET i == Head(work).target
         f == Head(work).finding
     IN  /\ f.action = "tokenize"
         /\ \E r \in issue_tracked(entries, sequence, Scope, f.data_class,
                        Slice(request[i].text, f), now, Ttl[f.data_class]) :
              /\ sequence' = r.sequence
              /\ IF r.token = NoToken
                 THEN /\ phase' = "rejected"
                      /\ entries' = rollback_created(r.entries, Scope, created)
                      /\ UNCHANGED <<work, created, body>>
                 ELSE /\ entries' = r.entries
                      /\ created' = IF r.created THEN created \cup {r.token}
                                    ELSE created
                      /\ body' = [body EXCEPT ![i] =
                                    replace_range(@, f, <<r.token>>)]
                      /\ work' = Tail(work)
                      /\ UNCHANGED phase
  /\ UNCHANGED <<clock, request, now, plans, display, before>>

RewriteFailsBug ==   \* returns without the rollback
  /\ phase = "rewrite"
  /\ phase' = "rejected"
  /\ UNCHANGED <<ledger, clock, job, display>>

(* An error of apply_rewrites that is not the ledger's (a span off a       *)
(* character boundary, a target that replace_text refuses), or of          *)
(* serialize: everything created is rolled back.                           *)
RewriteFails ==
  /\ phase = "rewrite"
  /\ phase' = "rejected"
  /\ entries' = rollback_created(entries, Scope, created)
  /\ UNCHANGED <<sequence, clock, job, display>>

Serialize ==
  /\ phase = "rewrite" /\ work = <<>>
  /\ phase' = "forward"
  /\ UNCHANGED <<ledger, clock, job, display>>

(* The lock is released and the outcome handed to the gateway.             *)
Finish ==
  /\ phase \in Results
  /\ phase' = "idle"
  /\ request' = <<>> /\ now' = 0 /\ plans' = <<>> /\ work' = <<>>
  /\ created' = {} /\ body' = <<>>
  /\ before' = [entries |-> EmptyLedger, sequence |-> 0]
  /\ UNCHANGED <<ledger, clock, display>>

(* Token literals are restored from the last to the first, each lookup a   *)
(* restore_exact of its own.                                               *)
RestoreAt(acc, i, at) ==
  LET t == acc.text[i]
      L == restore_exact(acc.entries, acc.sequence, Scope, t, at)
  IN  [entries  |-> L,
       sequence |-> Saturate(acc.sequence),
       text     |-> IF Owned(L, Scope, t, at)
                    THEN replace_range(acc.text,
                           [start |-> i, end |-> i + 1], L[t].value)
                    ELSE acc.text]

restore_display_textBug(L, seq, text, at) ==   \* first to last
  LET after[k \in 0..Len(text)] ==
        IF k = 0 THEN [entries |-> L, sequence |-> seq, text |-> text]
        ELSE IF text[k] \in Token THEN RestoreAt(after[k - 1], k, at)
        ELSE after[k - 1]
  IN  after[Len(text)]

restore_display_text(L, seq, text, at) ==
  LET after[k \in 0..Len(text)] ==
        IF k = 0 THEN [entries |-> L, sequence |-> seq, text |-> text]
        ELSE LET i == Len(text) - k + 1
             IN  IF text[i] \in Token THEN RestoreAt(after[k - 1], i, at)
                 ELSE after[k - 1]
  IN  after[Len(text)]

RestoreDisplayText(text, at) ==
  /\ phase = "idle"
  /\ LET r == restore_display_text(entries, sequence, text, at)
     IN  /\ entries' = r.entries
         /\ sequence' = r.sequence
         /\ display' = [text |-> text, shown |-> r.text,
                        held |-> purge_expired(entries, at)]
  /\ UNCHANGED <<clock, phase, job>>

Next ==
  \/ Tick
  \/ \E req \in Requests : BeginProtect(req)
  \/ RejectUnparsed
  \/ RejectScan
  \/ ScanPanics
  \/ Scan
  \/ SkipAllowed
  \/ MaskFinding
  \/ TokenizeFinding
  \/ RewriteFails
  \/ Serialize
  \/ Finish
  \/ \E text \in Displays, at \in 0..clock : RestoreDisplayText(text, at)

Spec == Init /\ [][Next]_vars

-----------------------------------------------------------------------------

(* The type invariant; texts are checked by ForwardFaithful instead.       *)
TypeOK ==
  /\ DOMAIN entries \subseteq Token
  /\ entries \in [DOMAIN entries -> Entry]
  /\ Cardinality(DOMAIN entries) <= MaxEntries
  /\ sequence \in 0..MaxSequence
  /\ clock \in Instant /\ now \in 0..clock
  /\ phase \in {"idle", "inspect", "rewrite"} \cup Results
  /\ request \in Requests \cup {<<>>}
  /\ created \subseteq Token
  /\ DOMAIN body = DOMAIN request

Replaced(i) == {j \in DOMAIN plans[i] : plans[i][j].action # "allow"}

Covers(f, p) == f.start <= p /\ p < f.end

(* Reference for the rewrite of target i, position by position: what is    *)
(* not in a replaced span survives, and a replaced span leaves one slot.   *)
Slot(f) == [slot |-> f]

Skeleton(i) ==
  FlattenSeq([p \in DOMAIN request[i].text |->
    LET over == {j \in Replaced(i) : Covers(plans[i][j], p)}
    IN  IF over = {} THEN <<request[i].text[p]>>
        ELSE LET f == plans[i][CHOOSE j \in over : TRUE]
             IN  IF f.start = p THEN <<Slot(f)>> ELSE <<>>])

\* The ledger is full and t, evicted since it was issued, was drawn again for
\* another text of this request.
Redrawn(t) ==
  /\ Cardinality(DOMAIN entries) = MaxEntries
  /\ \E i \in DOMAIN plans : \E j \in Replaced(i) :
       /\ plans[i][j].action = "tokenize"
       /\ entries[t].value = Slice(request[i].text, plans[i][j])

FillsSlot(atom, f, i) ==
  \/ f.action = "mask" /\ atom = Mask(f.data_class)
  \/ /\ f.action = "tokenize"
     /\ atom \in Token /\ atom.label = f.data_class
     /\ atom \in DOMAIN entries =>
          \/ entries[atom].value = Slice(request[i].text, f)
          \/ Redrawn(atom)

(* A forwarded text is the original with every replaced span, and nothing  *)
(* else, replaced by its mask or by a token of its class; a token still in *)
(* the ledger stands for exactly the text it replaced, unless the request  *)
(* itself filled the ledger and drew the token twice.  This is what        *)
(* right-to-left replacement over resolved spans has to achieve.           *)
ForwardFaithful ==
  phase = "forward" =>
    \A i \in DOMAIN body :
      /\ Len(body[i]) = Len(Skeleton(i))
      /\ \A p \in DOMAIN body[i] :
           \/ body[i][p] = Skeleton(i)[p]
           \/ \E j \in Replaced(i) :
                /\ Skeleton(i)[p] = Slot(plans[i][j])
                /\ FillsSlot(body[i][p], plans[i][j], i)

\* What a forwarded target may hold.
MayPass(target, f) ==
  \/ /\ f.data_class \notin HardClasses
     /\ target.mode = "rewrite" \/ PolicyAction[f.data_class] = "allow"
  \/ /\ f.data_class = TokenClass
     /\ \E t \in Token : /\ Slice(target.text, f) = <<t>>
                         /\ Owned(before.entries, Scope, t, now)

(* A body is forwarded only if every hard-blocked finding in it is a token *)
(* literal that this session owned when protect was called, and a          *)
(* block-only target holds nothing else but clean text and what the policy *)
(* allows everywhere.                                                      *)
HardNeverForwarded ==
  phase = "forward" =>
    \A i \in DOMAIN request : \A j \in DOMAIN request[i].findings :
      MayPass(request[i], request[i].findings[j])

(* A request that is not forwarded leaves no trace in the ledger.  A       *)
(* rejected one leaves no mapping that was not there before, however far   *)
(* apply_rewrites got; a blocked one, or one whose scan panicked, has used *)
(* nothing either, and at most the expired mappings are gone ("Ledger entries are allocated only after *)
(* the request has no blocking finding", docs/ARCHITECTURE.md).            *)
UnforwardedLeavesNoMapping ==
  /\ phase = "rejected" =>
       /\ DOMAIN entries \subseteq DOMAIN before.entries
       /\ \A t \in DOMAIN entries : SameBinding(entries[t], before.entries[t])
  /\ phase \in {"blocked", "panicked"} =>
       /\ sequence = before.sequence
       /\ entries \in {before.entries, purge_expired(before.entries, now)}

BodyTokens == {t \in Token : \E i \in DOMAIN body : \E p \in DOMAIN body[i] :
                 body[i][p] = t}

DanglingTokens == {t \in BodyTokens : ~Owned(entries, Scope, t, now)}

(* When the body is sealed a token in it can be dead for one reason only:  *)
(* the ledger is full, and issuing for this request evicted it.            *)
DanglingOnlyWhenFull ==
  (phase = "forward" /\ DanglingTokens # {}) =>
    Cardinality(DOMAIN entries) = MaxEntries

InboundTokens == {t \in Token : \E i \in DOMAIN request :
                    \E p \in DOMAIN request[i].text : request[i].text[p] = t}

(* docs/ARCHITECTURE.md: "Unknown, expired, evicted, or cross-scope        *)
(* AgentVeil token literals are blocked on outbound inspection": a literal *)
(* that came in with the request is not dead in the body that leaves.      *)
NoDeadTokenForwarded ==
  phase = "forward" => DanglingTokens \cap InboundTokens = {}

\* What the display shows for an atom of a text, given the live mappings.
Seen(held, atom) ==
  IF atom \in DOMAIN held /\ held[atom].scope = Scope
  THEN held[atom].value ELSE <<atom>>

\* Nothing in target i is masked, and the token of each replaced span still
\* stands for the text it replaced.
Standing(i) ==
  /\ ~Has(plans[i], "mask")
  /\ \A p \in DOMAIN body[i] : \A j \in Replaced(i) :
       Skeleton(i)[p] = Slot(plans[i][j]) =>
         /\ Owned(entries, Scope, body[i][p], now)
         /\ entries[body[i][p]].value = Slice(request[i].text, plans[i][j])

(* protect and restore_display_text are inverse on the display side: where *)
(* no token was lost, restoring the rewritten text shows the original, and *)
(* of the literals in it only those that protect let through are restored. *)
RoundTrip ==
  phase = "forward" =>
    \A i \in DOMAIN body : Standing(i) =>
      restore_display_text(entries, sequence, body[i], now).text =
        FlattenSeq([p \in DOMAIN request[i].text |->
          IF \E j \in Replaced(i) : Covers(plans[i][j], p)
          THEN <<request[i].text[p]>>
          ELSE Seen(purge_expired(entries, now), request[i].text[p])])

(* restore_display_text puts each value exactly where its token stood,     *)
(* whatever the lengths, and leaves foreign and dead tokens as they are.   *)
DisplayExact ==
  display.shown =
    FlattenSeq([p \in DOMAIN display.text |-> Seen(display.held, display.text[p])])

=============================================================================
