----------------------------- MODULE TokenLedger -----------------------------
(***************************************************************************)
(* The token ledger of src/ledger.rs as a component: one action per public *)
(* method.  `clock` is the gateway's monotonic clock; a caller hands the   *)
(* ledger the reading it took, which for restorations (gateway.rs, the     *)
(* relay loop reads the clock before it waits for the engine lock) may be  *)
(* older than the clock at the call.                                       *)
(***************************************************************************)
EXTENDS LedgerOps

CONSTANTS Ttls   \* time-to-live values a policy may ask for, in clock ticks

ASSUME TtlsAssumption == Ttls \subseteq Nat \ {0}

VARIABLES
  entries,    \* TokenLedger::entries
  sequence,   \* TokenLedger::sequence
  clock       \* the monotonic clock callers read

vars == <<entries, sequence, clock>>

(* The type invariant of the ledger: the map, its counter and the clock    *)
(* stay in range (the counter is a u64 that saturates).                    *)
TypeOK ==
  /\ DOMAIN entries \subseteq Token
  /\ entries \in [DOMAIN entries -> Entry]
  /\ sequence \in 0..MaxSequence
  /\ clock \in Instant

Init ==
  /\ entries = EmptyLedger
  /\ sequence = 0
  /\ clock = 0

Tick ==
  /\ clock < MaxTime
  /\ clock' = clock + 1
  /\ UNCHANGED <<entries, sequence>>

IssueTracked(s, c, v, ttl) ==
  /\ \E r \in issue_tracked(entries, sequence, s, c, v, clock, ttl) :
       /\ entries' = r.entries
       /\ sequence' = r.sequence
  /\ UNCHANGED clock

(* Tokens of the list that are no longer in the ledger are skipped, so the *)
(* lists worth trying are those of tokens that are.                        *)
RollbackCreated(s, tokens) ==
  /\ entries' = rollback_created(entries, s, tokens)
  /\ UNCHANGED <<sequence, clock>>

RestoreExact(s, t, now) ==
  /\ entries' = restore_exact(entries, sequence, s, t, now)
  /\ sequence' = Saturate(sequence)
  /\ UNCHANGED clock

(* owns_token and entry_count change the ledger only through their purge.  *)
OwnsToken ==
  /\ entries' = purge_expired(entries, clock)
  /\ UNCHANGED <<sequence, clock>>

ClearScope(s) ==
  /\ entries' = clear_scope(entries, s)
  /\ UNCHANGED <<sequence, clock>>

ClearAll ==
  /\ entries' = EmptyLedger
  /\ UNCHANGED <<sequence, clock>>

Next ==
  \/ Tick
  \/ \E s \in Scopes, c \in Classes, v \in Values, ttl \in Ttls :
       IssueTracked(s, c, v, ttl)
  \/ \E s \in Scopes, tokens \in SUBSET DOMAIN entries :
       RollbackCreated(s, tokens)
  \/ \E s \in Scopes, t \in Token, now \in 0..clock : RestoreExact(s, t, now)
  \/ OwnsToken
  \/ \E s \in Scopes : ClearScope(s)
  \/ ClearAll

Spec == Init /\ [][Next]_vars

-----------------------------------------------------------------------------

Expired(t) == entries[t].expires_at <= clock

(* The ledger never holds more than max_entries mappings, whatever mix of  *)
(* refreshes, failed draws, rollbacks and expiries happens (issue_tracked  *)
(* evicts before it inserts).                                              *)
CapacityBound == Cardinality(DOMAIN entries) <= MaxEntries

(* Token stability: a (scope, class, value) has at most one token at a     *)
(* time, so equal values in one session always read as the same token.     *)
(* issue_tracked searches after its purge, so no expired twin can survive. *)
OneTokenPerValue ==
  \A t, u \in DOMAIN entries : SameBinding(entries[t], entries[u]) => t = u

(* What makes evict_lru exact: until the usage counter saturates no two    *)
(* mappings share a last_used_sequence, and none is ahead of the counter.  *)
RecencyStrict ==
  \A t, u \in DOMAIN entries :
    /\ entries[t].last_used <= sequence
    /\ (t # u /\ entries[t].last_used = entries[u].last_used)
         => entries[t].last_used = MaxSequence

(* Credentials, keys, JWTs, database credentials and token literals never  *)
(* enter the ledger, and the label in a token names the class of its value *)
(* (so restoring never yields a value of another class).                   *)
LabelsMatchClasses ==
  \A t \in DOMAIN entries :
    /\ entries[t].data_class \notin HardClasses
    /\ t.label = entries[t].data_class

(* A live token is never re-bound to another value: issue_tracked draws    *)
(* until contains_key is false.  The one token the test does not protect   *)
(* is the least recently used one of a full ledger, because the call that  *)
(* evicts it may draw it again.                                            *)
LiveTokenNeverRebound ==
  [][\A t \in DOMAIN entries \cap DOMAIN entries' :
       \/ SameBinding(entries'[t], entries[t])
       \/ Expired(t)
       \/ LET P == purge_expired(entries, clock)
          IN  Cardinality(DOMAIN P) >= MaxEntries /\ t \in LruTokens(P)
    ]_vars

(* Whenever the usage counter moves (issue_tracked, restore_exact), at     *)
(* most one unexpired mapping disappears; it disappears only from a full   *)
(* ledger, and every survivor was used after it.                           *)
OnlyLruEvicted ==
  [][sequence' # sequence =>
       \A t \in DOMAIN entries \ DOMAIN entries' :
         \/ Expired(t)
         \/ /\ Cardinality({u \in DOMAIN entries : ~Expired(u)}) >= MaxEntries
            /\ \A u \in DOMAIN entries \ {t} :
                 \/ Expired(u)
                 \/ /\ u \in DOMAIN entries'
                    /\ entries[t].last_used < entries[u].last_used
    ]_vars

=============================================================================
