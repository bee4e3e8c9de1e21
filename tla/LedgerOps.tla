------------------------------ MODULE LedgerOps ------------------------------
(***************************************************************************)
(* The operations of src/ledger.rs as operators on a ledger value.         *)
(*                                                                         *)
(* A ledger is a partial function from tokens to entries (the HashMap of   *)
(* TokenLedger).  Every operation returns the next ledger, or, where the   *)
(* code depends on randomness or on the iteration order of the HashMap,    *)
(* the SET of results the call may have.  TokenLedger, PrivacyEngine and   *)
(* Gateway turn these operators into actions.                              *)
(*                                                                         *)
(* A definition whose name ends in "Bug" is a faulty variant of the one    *)
(* that follows it.  Nothing uses it: it is what that operation would be   *)
(* with one plausible mistake, kept to show that a property notices it.    *)
(***************************************************************************)
EXTENDS Integers, FiniteSets, Functions

CONSTANTS
  Scopes,       \* SessionScope values
  Classes,      \* DataClass values
  HardClasses,  \* the classes for which DataClass::hard_block is true
  Values,       \* protected texts, the empty text included
  EmptyValue,   \* the text of length 0
  Hex,          \* the 128-bit random suffixes of tokens
  MaxEntries,   \* TokenLedger::max_entries
  MaxSequence,  \* u64::MAX, where the usage counter saturates
  MaxTime,      \* u64::MAX, the largest instant, in clock ticks
  NoToken       \* absence of a token (an Err result)

ASSUME ConstantsAssumption ==
  /\ HardClasses \subseteq Classes
  /\ MaxEntries \in Nat \ {0}
  /\ MaxSequence \in Nat
  /\ MaxTime \in Nat

-----------------------------------------------------------------------------

(* Token text is "[AV_<label>_<hex>]"; token_label is injective on the     *)
(* classes that are not hard-blocked, so the class stands for the label.   *)
Token == [label : Classes, hex : Hex]

ASSUME NoTokenAssumption == NoToken \notin Token

Instant == 0..MaxTime

Entry == [scope : Scopes, data_class : Classes, value : Values,
          expires_at : Instant, last_used : 0..MaxSequence]

EmptyLedger == [t \in {} |-> t]

\* Two entries for the same value: what the search of issue_tracked compares.
SameBinding(e, f) ==
  e.scope = f.scope /\ e.data_class = f.data_class /\ e.value = f.value

SaturateBug(n) == n + 1   \* no saturation

Saturate(n) == IF n < MaxSequence THEN n + 1 ELSE MaxSequence

purge_expired(L, now) ==
  Restrict(L, {t \in DOMAIN L : L[t].expires_at > now})

(* min_by_key over HashMap order: with equal keys any minimum may come.    *)
LruTokensBug(L) ==   \* most recently used
  {t \in DOMAIN L : \A u \in DOMAIN L : L[t].last_used >= L[u].last_used}

LruTokens(L) ==
  {t \in DOMAIN L : \A u \in DOMAIN L : L[t].last_used <= L[u].last_used}

evict_lru(L) ==
  IF DOMAIN L = {} THEN {L}
  ELSE {Restrict(L, DOMAIN L \ {t}) : t \in LruTokens(L)}

MakeRoomBug(L) ==   \* makes room one entry too late
  IF Cardinality(DOMAIN L) > MaxEntries THEN evict_lru(L) ELSE {L}

MakeRoom(L) ==
  IF Cardinality(DOMAIN L) >= MaxEntries THEN evict_lru(L) ELSE {L}

IssueRefused(c, v, now, ttl) ==
  v = EmptyValue \/ c \in HardClasses \/ now + ttl > MaxTime

HoldersNoneBug(L, s, c, v) == {}   \* no lookup by value

Holders(L, s, c, v) ==
  {t \in DOMAIN L : L[t].scope = s /\ L[t].data_class = c /\ L[t].value = v}

Touch(L, t, seq, expires) ==
  [L EXCEPT ![t].last_used = seq, ![t].expires_at = expires]

Insert(L, t, e) ==
  [u \in DOMAIN L \cup {t} |-> IF u = t THEN e ELSE L[u]]

FreshTokensBug(L, c) == {t \in Token : t.label = c}   \* no contains_key

(* The candidates of the MAX_TOKEN_ATTEMPTS draws that contains_key lets   *)
(* through.                                                                *)
FreshTokens(L, c) ==
  {t \in Token : t.label = c /\ t \notin DOMAIN L}

Result(L, seq, t, created) ==
  [entries |-> L, sequence |-> seq, token |-> t, created |-> created]

(* Issuing to a value that has no mapping: room is made first, then tokens *)
(* are drawn.  getrandom may fail, or every draw may hit a live token; the *)
(* mapping evicted to make room is then lost all the same.                 *)
IssueNew(L, seq, e) ==
  UNION {
    {Result(E, seq, NoToken, FALSE)}
      \cup {Result(Insert(E, t, e), seq, t, TRUE)
              : t \in FreshTokens(E, e.data_class)}
    : E \in MakeRoom(L)}

IssueHeld(L, seq, holders, expires) ==
  {Result(Touch(L, t, seq, expires), seq, t, FALSE) : t \in holders}

issue_tracked(L, seq, s, c, v, now, ttl) ==
  IF IssueRefused(c, v, now, ttl)
  THEN {Result(L, seq, NoToken, FALSE)}
  ELSE LET P  == purge_expired(L, now)
           H  == Holders(P, s, c, v)
           sq == Saturate(seq)
       IN  IF H # {}
           THEN IssueHeld(P, sq, H, now + ttl)
           ELSE IssueNew(P, sq,
                  [scope |-> s, data_class |-> c, value |-> v,
                   expires_at |-> now + ttl, last_used |-> sq])

rollback_created(L, s, tokens) ==
  Restrict(L, {t \in DOMAIN L : ~(t \in tokens /\ L[t].scope = s)})

(* The same test serves owns_token and restore_exact.                      *)
Owned(L, s, t, now) ==
  /\ t \in DOMAIN L
  /\ L[t].scope = s
  /\ L[t].expires_at > now

restore_exactBug(L, seq, s, t, now) ==   \* stamps the old counter value
  LET P == purge_expired(L, now)
  IN  IF Owned(P, s, t, now)
      THEN Touch(P, t, seq, P[t].expires_at)
      ELSE P

(* restore_exact bumps the usage counter even when the lookup misses.      *)
restore_exact(L, seq, s, t, now) ==
  LET P == purge_expired(L, now)
  IN  IF Owned(P, s, t, now)
      THEN Touch(P, t, Saturate(seq), P[t].expires_at)
      ELSE P

clear_scope(L, s) == Restrict(L, {t \in DOMAIN L : L[t].scope # s})

=============================================================================
