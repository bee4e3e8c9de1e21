------------------------------ MODULE OpsProofs ------------------------------
(***************************************************************************)
(* What the operations that several components share do, for every value   *)
(* of the constants.  The proofs about the ledger, the scanner, the engine *)
(* and the gateway rest on them.                                           *)
(*                                                                         *)
(* LedgerOps: for every set of scopes, classes, values and random          *)
(* suffixes, every capacity and every clock and counter width, LedgerOK is *)
(* what every operation preserves; the effect lemmas say which mappings a  *)
(* call takes, keeps or adds.                                              *)
(*                                                                         *)
(* OverlapOps: for every sequence of findings, the spans resolve_overlaps  *)
(* returns are disjoint and in order, cover exactly what the findings      *)
(* cover, and none is handled more weakly than a finding in it.  The sort  *)
(* is a permutation in the order of the spans; the loop over the sorted    *)
(* findings is followed by induction on how many it has read.              *)
(***************************************************************************)
EXTENDS LedgerOps, OverlapOps, FiniteSetTheorems, WellFoundedInduction, TLAPS

-----------------------------------------------------------------------------
(* The token ledger *)

LedgerType(L) ==
  /\ DOMAIN L \subseteq Token
  /\ L \in [DOMAIN L -> Entry]

LedgerBounded(L) ==
  IsFiniteSet(DOMAIN L) /\ Cardinality(DOMAIN L) <= MaxEntries

LedgerUnique(L) ==
  \A t, u \in DOMAIN L : SameBinding(L[t], L[u]) => t = u

LedgerRecency(L, seq) ==
  \A t, u \in DOMAIN L :
    /\ L[t].last_used <= seq
    /\ (t # u /\ L[t].last_used = L[u].last_used)
         => L[t].last_used = MaxSequence

LedgerLabels(L) ==
  \A t \in DOMAIN L :
    L[t].data_class \notin HardClasses /\ t.label = L[t].data_class

LedgerOK(L, seq) ==
  /\ seq \in 0..MaxSequence
  /\ LedgerType(L)
  /\ LedgerBounded(L)
  /\ LedgerUnique(L)
  /\ LedgerRecency(L, seq)
  /\ LedgerLabels(L)

-----------------------------------------------------------------------------

(* The usage counter stays in its width and never goes back.               *)
LEMMA SaturateType ==
  ASSUME NEW n \in 0..MaxSequence
  PROVE  /\ Saturate(n) \in 0..MaxSequence
         /\ n <= Saturate(n)
         /\ Saturate(n) = n => n = MaxSequence
         /\ Saturate(n) # n => Saturate(n) = n + 1
  BY ConstantsAssumption DEF Saturate

(* Forgetting mappings (purge, rollback, clear, eviction) keeps a ledger   *)
(* sound, also when the counter has moved on.                              *)
LEMMA RestrictOK ==
  ASSUME NEW L, NEW seq, LedgerOK(L, seq), NEW S \in SUBSET DOMAIN L,
         NEW n \in 0..MaxSequence, seq <= n
  PROVE  /\ DOMAIN Restrict(L, S) = S
         /\ \A t \in S : Restrict(L, S)[t] = L[t]
         /\ LedgerOK(Restrict(L, S), n)
  <1> DEFINE R == Restrict(L, S)
  <1>1. DOMAIN R = S /\ \A t \in S : R[t] = L[t]
    BY DEF Restrict
  <1>2. R = [t \in S |-> R[t]]
    BY DEF Restrict
  <1>3. LedgerType(R)
    BY <1>1, <1>2 DEF LedgerOK, LedgerType
  <1>4. LedgerBounded(R)
    BY <1>1, FS_Subset, FS_CardinalityType, ConstantsAssumption
       DEF LedgerOK, LedgerBounded
  <1>5. LedgerUnique(R)
    BY <1>1 DEF LedgerOK, LedgerUnique
  <1>6. LedgerRecency(R, n)
    <2> SUFFICES ASSUME NEW t \in S, NEW u \in S
                 PROVE /\ R[t].last_used <= n
                       /\ (t # u /\ R[t].last_used = R[u].last_used)
                            => R[t].last_used = MaxSequence
      BY <1>1 DEF LedgerRecency
    <2>1. L[t].last_used <= seq /\ L[t].last_used \in Int
      BY ConstantsAssumption
         DEF LedgerOK, LedgerRecency, LedgerType, Entry
    <2> QED
      BY <1>1, <2>1, ConstantsAssumption DEF LedgerOK, LedgerRecency
  <1>7. LedgerLabels(R)
    BY <1>1 DEF LedgerOK, LedgerLabels
  <1> QED
    BY <1>1, <1>3, <1>4, <1>5, <1>6, <1>7 DEF LedgerOK

(* Marking a mapping as the one just used, at the next counter value,      *)
(* keeps the ledger sound: the new mark is above all others.               *)
LEMMA TouchOK ==
  ASSUME NEW L, NEW seq, LedgerOK(L, seq), NEW t \in DOMAIN L,
         NEW expires \in Instant
  PROVE  LedgerOK(Touch(L, t, Saturate(seq), expires), Saturate(seq))
  <1> DEFINE n == Saturate(seq)
             R == Touch(L, t, n, expires)
  <1>1. n \in 0..MaxSequence /\ seq \in 0..MaxSequence /\ seq <= n
    BY SaturateType DEF LedgerOK
  <1>2. DOMAIN R = DOMAIN L
    BY DEF Touch
  <1>3. \A u \in DOMAIN L : u # t => R[u] = L[u]
    BY DEF Touch, LedgerOK, LedgerType
  <1>4. /\ R[t] \in Entry
        /\ SameBinding(R[t], L[t])
        /\ R[t].last_used = n
    BY <1>1 DEF Touch, LedgerOK, LedgerType, Entry, SameBinding
  <1>5. LedgerType(R)
    <2>1. R = [u \in DOMAIN L |-> R[u]]
      BY DEF Touch, LedgerOK, LedgerType
    <2> QED
      BY <1>2, <1>3, <1>4, <2>1 DEF LedgerOK, LedgerType
  <1>6. LedgerBounded(R)
    BY <1>2 DEF LedgerOK, LedgerBounded
  <1>7. LedgerUnique(R)
    BY <1>2, <1>3, <1>4 DEF LedgerOK, LedgerUnique, SameBinding
  <1>8. LedgerRecency(R, n)
    <2>1. \A u \in DOMAIN L : /\ L[u].last_used <= seq
                              /\ L[u].last_used \in 0..MaxSequence
      BY DEF LedgerOK, LedgerRecency, LedgerType, Entry
    <2>2. ASSUME NEW u \in DOMAIN L, u # t, L[u].last_used = n
          PROVE  n = MaxSequence
      BY <2>1, <2>2, <1>1, SaturateType, ConstantsAssumption
    <2> QED
      BY <1>1, <1>2, <1>3, <1>4, <2>1, <2>2, ConstantsAssumption
         DEF LedgerOK, LedgerRecency
  <1>9. LedgerLabels(R)
    BY <1>2, <1>3, <1>4 DEF LedgerOK, LedgerLabels, SameBinding
  <1> QED
    BY <1>1, <1>5, <1>6, <1>7, <1>8, <1>9 DEF LedgerOK

(* Inserting a mapping for a value that has none, under a token that is    *)
(* not in use, into a ledger with room, at the next counter value.         *)
LEMMA InsertOK ==
  ASSUME NEW L, NEW seq, LedgerOK(L, seq),
         Cardinality(DOMAIN L) < MaxEntries,
         NEW e \in Entry, e.last_used = Saturate(seq),
         e.data_class \notin HardClasses,
         Holders(L, e.scope, e.data_class, e.value) = {},
         NEW t \in FreshTokens(L, e.data_class)
  PROVE  LedgerOK(Insert(L, t, e), Saturate(seq))
  <1> DEFINE n == Saturate(seq)
             R == Insert(L, t, e)
  <1>1. n \in 0..MaxSequence /\ seq \in 0..MaxSequence /\ seq <= n
    BY SaturateType DEF LedgerOK
  <1>2. t \in Token /\ t \notin DOMAIN L /\ t.label = e.data_class
    BY DEF FreshTokens
  <1>3. DOMAIN R = DOMAIN L \cup {t}
    BY DEF Insert
  <1>4. R[t] = e /\ \A u \in DOMAIN L : R[u] = L[u]
    BY <1>2 DEF Insert
  <1>5. LedgerType(R)
    <2>1. R = [u \in DOMAIN L \cup {t} |-> R[u]]
      BY DEF Insert
    <2> QED
      BY <1>2, <1>3, <1>4, <2>1 DEF LedgerOK, LedgerType
  <1>6. LedgerBounded(R)
    <2>1. IsFiniteSet(DOMAIN L)
      BY DEF LedgerOK, LedgerBounded
    <2>2. Cardinality(DOMAIN L) \in Nat
      BY <2>1, FS_CardinalityType
    <2>3. /\ IsFiniteSet(DOMAIN L \cup {t})
          /\ Cardinality(DOMAIN L \cup {t}) = Cardinality(DOMAIN L) + 1
      BY <1>2, <2>1, FS_AddElement
    <2> QED
      BY <1>3, <2>2, <2>3, ConstantsAssumption DEF LedgerBounded
  <1>7. LedgerUnique(R)
    <2>1. \A u \in DOMAIN L : ~SameBinding(L[u], e) /\ ~SameBinding(e, L[u])
      BY DEF Holders, SameBinding
    <2> QED
      BY <1>3, <1>4, <2>1 DEF LedgerOK, LedgerUnique
  <1>8. LedgerRecency(R, n)
    <2>1. \A u \in DOMAIN L : /\ L[u].last_used <= seq
                              /\ L[u].last_used \in 0..MaxSequence
      BY DEF LedgerOK, LedgerRecency, LedgerType, Entry
    <2>2. ASSUME NEW u \in DOMAIN L, L[u].last_used = n
          PROVE  n = MaxSequence
      BY <2>1, <2>2, <1>1, SaturateType, ConstantsAssumption
    <2> QED
      BY <1>1, <1>3, <1>4, <2>1, <2>2, ConstantsAssumption
         DEF LedgerOK, LedgerRecency
  <1>9. LedgerLabels(R)
    BY <1>2, <1>3, <1>4 DEF LedgerOK, LedgerLabels
  <1> QED
    BY <1>1, <1>5, <1>6, <1>7, <1>8, <1>9 DEF LedgerOK

(* purge_expired leaves exactly the unexpired mappings, untouched.         *)
LEMMA PurgeOK ==
  ASSUME NEW L, NEW seq, LedgerOK(L, seq), NEW now
  PROVE  /\ LedgerOK(purge_expired(L, now), seq)
         /\ DOMAIN purge_expired(L, now) \subseteq DOMAIN L
         /\ \A t \in DOMAIN purge_expired(L, now) :
              purge_expired(L, now)[t] = L[t] /\ L[t].expires_at > now
  <1> DEFINE S == {t \in DOMAIN L : L[t].expires_at > now}
  <1>1. seq \in 0..MaxSequence /\ seq <= seq
    BY ConstantsAssumption DEF LedgerOK
  <1>2. S \in SUBSET DOMAIN L
    OBVIOUS
  <1>3. /\ DOMAIN Restrict(L, S) = S
        /\ \A t \in S : Restrict(L, S)[t] = L[t]
        /\ LedgerOK(Restrict(L, S), seq)
    BY <1>1, <1>2, RestrictOK
  <1> QED
    BY <1>3 DEF purge_expired

(* Making room keeps a ledger sound, adds nothing and leaves a free place. *)
LEMMA MakeRoomOK ==
  ASSUME NEW L, NEW seq, LedgerOK(L, seq), NEW E \in MakeRoom(L)
  PROVE  /\ LedgerOK(E, seq)
         /\ Cardinality(DOMAIN E) < MaxEntries
         /\ DOMAIN E \subseteq DOMAIN L
         /\ \A t \in DOMAIN E : E[t] = L[t]
  <1>1. /\ seq \in 0..MaxSequence /\ seq <= seq
        /\ IsFiniteSet(DOMAIN L) /\ Cardinality(DOMAIN L) <= MaxEntries
    BY ConstantsAssumption DEF LedgerOK, LedgerBounded
  <1>2. Cardinality(DOMAIN L) \in Nat
    BY <1>1, FS_CardinalityType
  <1>3. CASE Cardinality(DOMAIN L) < MaxEntries
    BY <1>2, <1>3, ConstantsAssumption DEF MakeRoom
  <1>4. CASE ~(Cardinality(DOMAIN L) < MaxEntries)
    <2>1. Cardinality(DOMAIN L) >= MaxEntries
      BY <1>2, <1>4, ConstantsAssumption
    <2>2. DOMAIN L # {}
      BY <1>2, <2>1, FS_EmptySet, ConstantsAssumption
    <2>3. PICK v \in LruTokens(L) : E = Restrict(L, DOMAIN L \ {v})
      BY <2>1, <2>2 DEF MakeRoom, evict_lru
    <2>4. v \in DOMAIN L
      BY DEF LruTokens
    <2>5. Cardinality(DOMAIN L \ {v}) = Cardinality(DOMAIN L) - 1
      BY <1>1, <2>4, FS_RemoveElement
    <2>6. DOMAIN L \ {v} \in SUBSET DOMAIN L
      OBVIOUS
    <2>7. /\ DOMAIN E = DOMAIN L \ {v}
          /\ \A t \in DOMAIN L \ {v} : E[t] = L[t]
          /\ LedgerOK(E, seq)
      BY <1>1, <2>3, <2>6, RestrictOK
    <2> QED
      BY <1>1, <1>2, <2>5, <2>7, ConstantsAssumption
  <1> QED
    BY <1>3, <1>4

(* issue_tracked keeps a ledger sound on every outcome: refused, mapping   *)
(* refreshed, mapping inserted, and the failed draw after an eviction.     *)
LEMMA IssueOK ==
  ASSUME NEW L, NEW seq, LedgerOK(L, seq), NEW s \in Scopes,
         NEW c \in Classes, NEW v \in Values, NEW now \in Instant,
         NEW ttl \in Nat,
         NEW r \in issue_tracked(L, seq, s, c, v, now, ttl)
  PROVE  LedgerOK(r.entries, r.sequence)
  <1> DEFINE P == purge_expired(L, now)
             H == Holders(P, s, c, v)
             n == Saturate(seq)
             e == [scope |-> s, data_class |-> c, value |-> v,
                   expires_at |-> now + ttl, last_used |-> n]
  <1>1. CASE IssueRefused(c, v, now, ttl)
    BY <1>1 DEF issue_tracked, Result
  <1>2. CASE ~IssueRefused(c, v, now, ttl)
    <2>1. now + ttl \in Instant /\ c \notin HardClasses
      BY <1>2, ConstantsAssumption DEF IssueRefused, Instant
    <2>2. LedgerOK(P, seq)
      BY PurgeOK
    <2>3. n \in 0..MaxSequence /\ seq \in 0..MaxSequence /\ seq <= n
      BY SaturateType DEF LedgerOK
    <2>4. CASE H # {}
      <3>1. PICK t \in H : r = Result(Touch(P, t, n, now + ttl), n, t, FALSE)
        BY <1>2, <2>4 DEF issue_tracked, IssueHeld
      <3>2. t \in DOMAIN P
        BY DEF Holders
      <3>3. LedgerOK(Touch(P, t, n, now + ttl), n)
        BY <2>1, <2>2, <3>2, TouchOK
      <3> QED
        BY <3>1, <3>3 DEF Result
    <2>5. CASE H = {}
      <3>1. r \in IssueNew(P, n, e)
        BY <1>2, <2>5 DEF issue_tracked
      <3>2. PICK E \in MakeRoom(P) :
              \/ r = Result(E, n, NoToken, FALSE)
              \/ \E t \in FreshTokens(E, e.data_class) :
                   r = Result(Insert(E, t, e), n, t, TRUE)
        BY <3>1 DEF IssueNew
      <3>3. /\ LedgerOK(E, seq)
            /\ Cardinality(DOMAIN E) < MaxEntries
            /\ DOMAIN E \subseteq DOMAIN P
            /\ \A t \in DOMAIN E : E[t] = P[t]
        BY <2>2, MakeRoomOK
      <3>4. CASE r = Result(E, n, NoToken, FALSE)
        <4>1. Restrict(E, DOMAIN E) = E
          BY <3>3 DEF Restrict, LedgerOK, LedgerType
        <4>2. DOMAIN E \in SUBSET DOMAIN E
          OBVIOUS
        <4>3. LedgerOK(E, n)
          BY <2>3, <3>3, <4>1, <4>2, RestrictOK
        <4> QED
          BY <3>4, <4>3 DEF Result
      <3>5. CASE \E t \in FreshTokens(E, e.data_class) :
                   r = Result(Insert(E, t, e), n, t, TRUE)
        <4>1. PICK t \in FreshTokens(E, e.data_class) :
                r = Result(Insert(E, t, e), n, t, TRUE)
          BY <3>5
        <4>2. e \in Entry /\ e.last_used = n /\ e.data_class \notin HardClasses
          BY <2>1, <2>3 DEF Entry
        <4>3. Holders(E, e.scope, e.data_class, e.value) = {}
          BY <2>5, <3>3 DEF Holders
        <4>4. LedgerOK(Insert(E, t, e), n)
          BY <3>3, <4>2, <4>3, InsertOK
        <4> QED
          BY <4>1, <4>4 DEF Result
      <3> QED
        BY <3>2, <3>4, <3>5
    <2> QED
      BY <2>4, <2>5
  <1> QED
    BY <1>1, <1>2

(* restore_exact keeps a ledger sound, on a hit and on a miss, and with    *)
(* any clock reading, stale ones included.                                 *)
LEMMA RestoreOK ==
  ASSUME NEW L, NEW seq, LedgerOK(L, seq), NEW s, NEW t, NEW now
  PROVE  LedgerOK(restore_exact(L, seq, s, t, now), Saturate(seq))
  <1> DEFINE P == purge_expired(L, now)
             n == Saturate(seq)
  <1>1. LedgerOK(P, seq)
    BY PurgeOK
  <1>2. n \in 0..MaxSequence /\ seq \in 0..MaxSequence /\ seq <= n
    BY SaturateType DEF LedgerOK
  <1>3. CASE Owned(P, s, t, now)
    <2>1. t \in DOMAIN P
      BY <1>3 DEF Owned
    <2>2. P[t].expires_at \in Instant
      BY <1>1, <2>1 DEF LedgerOK, LedgerType, Entry
    <2>3. LedgerOK(Touch(P, t, n, P[t].expires_at), n)
      BY <1>1, <2>1, <2>2, TouchOK
    <2> QED
      BY <1>3, <2>3 DEF restore_exact
  <1>4. CASE ~Owned(P, s, t, now)
    <2>1. Restrict(P, DOMAIN P) = P
      BY <1>1 DEF Restrict, LedgerOK, LedgerType
    <2>2. DOMAIN P \in SUBSET DOMAIN P
      OBVIOUS
    <2>3. LedgerOK(P, n)
      BY <1>1, <1>2, <2>1, <2>2, RestrictOK
    <2> QED
      BY <1>4, <2>3 DEF restore_exact
  <1> QED
    BY <1>3, <1>4

-----------------------------------------------------------------------------

(* The empty ledger is sound.                                              *)
LEMMA EmptyOK ==
  ASSUME NEW seq \in 0..MaxSequence
  PROVE  LedgerOK(EmptyLedger, seq)
  <1>1. DOMAIN EmptyLedger = {}
    BY DEF EmptyLedger
  <1>2. LedgerType(EmptyLedger)
    BY DEF EmptyLedger, LedgerType
  <1>3. LedgerBounded(EmptyLedger)
    BY <1>1, FS_EmptySet, ConstantsAssumption DEF LedgerBounded
  <1> QED
    BY <1>1, <1>2, <1>3
       DEF LedgerOK, LedgerUnique, LedgerRecency, LedgerLabels

-----------------------------------------------------------------------------

(* The mappings that survive purge_expired are those not expired at now.   *)
LEMMA PurgeDomain ==
  ASSUME NEW L, NEW now
  PROVE  DOMAIN purge_expired(L, now)
           = {t \in DOMAIN L : L[t].expires_at > now}
  BY DEF purge_expired, Restrict

(* Marking a mapping as used changes no binding.                           *)
LEMMA TouchKeepsBindings ==
  ASSUME NEW L, LedgerType(L), NEW t \in DOMAIN L, NEW n, NEW expires
  PROVE  /\ DOMAIN Touch(L, t, n, expires) = DOMAIN L
         /\ \A u \in DOMAIN L : SameBinding(Touch(L, t, n, expires)[u], L[u])
  <1> DEFINE R == Touch(L, t, n, expires)
  <1>1. DOMAIN R = DOMAIN L
    BY DEF Touch
  <1>2. \A u \in DOMAIN L : u # t => R[u] = L[u]
    BY DEF Touch, LedgerType
  <1>3. SameBinding(R[t], L[t])
    BY DEF Touch, LedgerType, Entry, SameBinding
  <1> QED
    BY <1>1, <1>2, <1>3 DEF SameBinding

(* Making room takes at most one mapping, a least recently used one, and   *)
(* only from a full ledger.                                                *)
LEMMA MakeRoomEvicts ==
  ASSUME NEW L, NEW E \in MakeRoom(L), NEW t \in DOMAIN L \ DOMAIN E
  PROVE  /\ Cardinality(DOMAIN L) >= MaxEntries
         /\ t \in LruTokens(L)
         /\ DOMAIN L \ {t} \subseteq DOMAIN E
  <1>1. Cardinality(DOMAIN L) >= MaxEntries /\ E \in evict_lru(L)
    BY DEF MakeRoom
  <1>2. PICK v \in LruTokens(L) : E = Restrict(L, DOMAIN L \ {v})
    BY <1>1 DEF evict_lru
  <1>3. DOMAIN E = DOMAIN L \ {v}
    BY <1>2 DEF Restrict
  <1> QED
    BY <1>1, <1>3

(* What one call of issue_tracked does to the mappings that are there: an  *)
(* unexpired one keeps its binding and stays, unless the ledger is full    *)
(* and it is the least recently used one, and then no other goes.          *)
LEMMA IssueEffect ==
  ASSUME NEW L, NEW seq, LedgerOK(L, seq), NEW s, NEW c, NEW v,
         NEW now \in Instant, NEW ttl,
         NEW r \in issue_tracked(L, seq, s, c, v, now, ttl),
         NEW t \in DOMAIN L, L[t].expires_at > now
  PROVE  LET P == purge_expired(L, now)
             victim == Cardinality(DOMAIN P) >= MaxEntries /\ t \in LruTokens(P)
         IN  /\ t \in DOMAIN r.entries =>
                  SameBinding(r.entries[t], L[t]) \/ victim
             /\ t \notin DOMAIN r.entries =>
                  victim /\ DOMAIN P \ {t} \subseteq DOMAIN r.entries
  <1> DEFINE P == purge_expired(L, now)
             H == Holders(P, s, c, v)
             n == Saturate(seq)
             e == [scope |-> s, data_class |-> c, value |-> v,
                   expires_at |-> now + ttl, last_used |-> n]
             victim == Cardinality(DOMAIN P) >= MaxEntries /\ t \in LruTokens(P)
  <1> SUFFICES /\ t \in DOMAIN r.entries =>
                    SameBinding(r.entries[t], L[t]) \/ victim
               /\ t \notin DOMAIN r.entries =>
                    victim /\ DOMAIN P \ {t} \subseteq DOMAIN r.entries
    OBVIOUS
  <1>1. LedgerOK(P, seq) /\ t \in DOMAIN P /\ P[t] = L[t]
    <2>1. t \in DOMAIN P
      BY PurgeDomain
    <2>2. LedgerOK(P, seq)
      BY PurgeOK
    <2>3. \A u \in DOMAIN P : P[u] = L[u]
      BY PurgeOK
    <2> QED
      BY <2>1, <2>2, <2>3
  <1>2. CASE IssueRefused(c, v, now, ttl)
    BY <1>2 DEF issue_tracked, Result, SameBinding
  <1>3. CASE ~IssueRefused(c, v, now, ttl) /\ H # {}
    <2>1. PICK h \in H : r = Result(Touch(P, h, n, now + ttl), n, h, FALSE)
      BY <1>3 DEF issue_tracked, IssueHeld
    <2>2. h \in DOMAIN P
      BY DEF Holders
    <2>3. r.entries = Touch(P, h, n, now + ttl)
      BY <2>1 DEF Result
    <2>4. LedgerType(P)
      BY <1>1 DEF LedgerOK
    <2> QED
      BY <1>1, <2>2, <2>3, <2>4, TouchKeepsBindings
  <1>4. CASE ~IssueRefused(c, v, now, ttl) /\ H = {}
    <2>1. r \in IssueNew(P, n, e)
      BY <1>4 DEF issue_tracked
    <2>2. PICK E \in MakeRoom(P) :
            \/ r = Result(E, n, NoToken, FALSE)
            \/ \E u \in FreshTokens(E, e.data_class) :
                 r = Result(Insert(E, u, e), n, u, TRUE)
      BY <2>1 DEF IssueNew
    <2>3. \A u \in DOMAIN E : E[u] = P[u]
      BY <1>1, MakeRoomOK
    <2>4. /\ DOMAIN E \subseteq DOMAIN r.entries
          /\ \A u \in DOMAIN E : r.entries[u] = E[u]
      <3>1. CASE r = Result(E, n, NoToken, FALSE)
        BY <3>1 DEF Result
      <3>2. ASSUME NEW u \in FreshTokens(E, e.data_class),
                   r = Result(Insert(E, u, e), n, u, TRUE)
            PROVE  /\ DOMAIN E \subseteq DOMAIN r.entries
                   /\ \A w \in DOMAIN E : r.entries[w] = E[w]
        <4>1. u \notin DOMAIN E
          BY DEF FreshTokens
        <4>2. r.entries = Insert(E, u, e)
          BY <3>2 DEF Result
        <4> QED
          BY <4>1, <4>2 DEF Insert
      <3> QED
        BY <2>2, <3>1, <3>2
    <2>5. CASE t \in DOMAIN E
      <3>1. r.entries[t] = L[t] /\ t \in DOMAIN r.entries
        BY <1>1, <2>3, <2>4, <2>5
      <3> QED
        BY <3>1 DEF SameBinding
    <2>6. CASE t \notin DOMAIN E
      <3>1. t \in DOMAIN P \ DOMAIN E
        BY <1>1, <2>6
      <3>2. victim /\ DOMAIN P \ {t} \subseteq DOMAIN E
        BY <3>1, MakeRoomEvicts
      <3> QED
        BY <2>4, <3>2
    <2> QED
      BY <2>5, <2>6
  <1> QED
    BY <1>2, <1>3, <1>4

(* restore_exact takes no mapping that is unexpired at its clock reading   *)
(* and changes no binding.                                                 *)
LEMMA RestoreEffect ==
  ASSUME NEW L, NEW seq, LedgerOK(L, seq), NEW s, NEW t, NEW now
  PROVE  /\ \A u \in DOMAIN L : L[u].expires_at > now =>
              u \in DOMAIN restore_exact(L, seq, s, t, now)
         /\ \A u \in DOMAIN restore_exact(L, seq, s, t, now) :
              SameBinding(restore_exact(L, seq, s, t, now)[u], L[u])
  <1> DEFINE P == purge_expired(L, now)
  <1>1. /\ LedgerType(P)
        /\ DOMAIN P = {u \in DOMAIN L : L[u].expires_at > now}
        /\ \A u \in DOMAIN P : P[u] = L[u]
    BY PurgeOK, PurgeDomain DEF LedgerOK
  <1>2. CASE Owned(P, s, t, now)
    <2>1. t \in DOMAIN P
      BY <1>2 DEF Owned
    <2>2. restore_exact(L, seq, s, t, now)
            = Touch(P, t, Saturate(seq), P[t].expires_at)
      BY <1>2 DEF restore_exact
    <2> QED
      BY <1>1, <2>1, <2>2, TouchKeepsBindings
  <1>3. CASE ~Owned(P, s, t, now)
    BY <1>1, <1>3 DEF restore_exact, SameBinding
  <1> QED
    BY <1>2, <1>3

(* Forgetting mappings re-binds none of those that are kept.               *)
LEMMA RestrictKeeps ==
  ASSUME NEW L, NEW S \in SUBSET DOMAIN L
  PROVE  /\ DOMAIN Restrict(L, S) = S
         /\ \A t \in S : SameBinding(Restrict(L, S)[t], L[t])
  BY DEF Restrict, SameBinding

-----------------------------------------------------------------------------

(* The three ways issue_tracked can end, with the ledger each leaves.      *)
LEMMA IssueCases ==
  ASSUME NEW L, NEW seq, NEW s, NEW c, NEW v, NEW now, NEW ttl,
         NEW r \in issue_tracked(L, seq, s, c, v, now, ttl)
  PROVE  LET P == purge_expired(L, now)
             n == Saturate(seq)
             e == [scope |-> s, data_class |-> c, value |-> v,
                   expires_at |-> now + ttl, last_used |-> n]
         IN  \/ r.entries = L /\ r.token = NoToken /\ ~r.created
             \/ /\ ~r.created
                /\ r.token \in Holders(P, s, c, v)
                /\ r.entries = Touch(P, r.token, n, now + ttl)
             \/ \E E \in MakeRoom(P) :
                  \/ r.entries = E /\ r.token = NoToken /\ ~r.created
                  \/ /\ r.created /\ r.token \in FreshTokens(E, c)
                     /\ r.entries = Insert(E, r.token, e)
  <1> DEFINE P == purge_expired(L, now)
             H == Holders(P, s, c, v)
             n == Saturate(seq)
             e == [scope |-> s, data_class |-> c, value |-> v,
                   expires_at |-> now + ttl, last_used |-> n]
  <1>1. CASE IssueRefused(c, v, now, ttl)
    BY <1>1 DEF issue_tracked, Result
  <1>2. CASE ~IssueRefused(c, v, now, ttl) /\ H # {}
    <2>1. PICK t \in H : r = Result(Touch(P, t, n, now + ttl), n, t, FALSE)
      BY <1>2 DEF issue_tracked, IssueHeld
    <2> QED
      BY <1>2, <2>1 DEF Result, IssueRefused
  <1>3. CASE ~IssueRefused(c, v, now, ttl) /\ H = {}
    <2>1. r \in IssueNew(P, n, e)
      BY <1>3 DEF issue_tracked
    <2>2. PICK E \in MakeRoom(P) :
            \/ r = Result(E, n, NoToken, FALSE)
            \/ \E t \in FreshTokens(E, c) : r = Result(Insert(E, t, e), n, t, TRUE)
      BY <2>1 DEF IssueNew
    <2>3. CASE r = Result(E, n, NoToken, FALSE)
      BY <2>3 DEF Result
    <2>4. CASE \E t \in FreshTokens(E, c) : r = Result(Insert(E, t, e), n, t, TRUE)
      BY <2>4 DEF Result
    <2> QED
      BY <2>2, <2>3, <2>4
  <1> QED
    BY <1>1, <1>2, <1>3

(* What marking a mapping as used leaves in it.                            *)
LEMMA TouchIs ==
  ASSUME NEW L, LedgerType(L), NEW t \in DOMAIN L, NEW n, NEW expires
  PROVE  /\ DOMAIN Touch(L, t, n, expires) = DOMAIN L
         /\ \A u \in DOMAIN L : u # t => Touch(L, t, n, expires)[u] = L[u]
         /\ SameBinding(Touch(L, t, n, expires)[t], L[t])
         /\ Touch(L, t, n, expires)[t].expires_at = expires
  <1> DEFINE R == Touch(L, t, n, expires)
  <1>1. DOMAIN R = DOMAIN L /\ \A u \in DOMAIN L : u # t => R[u] = L[u]
    BY DEF Touch, LedgerType
  <1>2. SameBinding(R[t], L[t]) /\ R[t].expires_at = expires
    BY DEF Touch, LedgerType, Entry, SameBinding
  <1> QED
    BY <1>1, <1>2

(* A full ledger has one mapping less after room was made, and is full     *)
(* again once the new one is in; only a full one loses any.                *)
LEMMA RefilledIsFull ==
  ASSUME NEW L, NEW seq, LedgerOK(L, seq), NEW E \in MakeRoom(L), NEW e,
         NEW t, t \notin DOMAIN E,
         DOMAIN E # DOMAIN L \/ Cardinality(DOMAIN L) = MaxEntries
  PROVE  Cardinality(DOMAIN Insert(E, t, e)) = MaxEntries
  <1>1. IsFiniteSet(DOMAIN L) /\ Cardinality(DOMAIN L) <= MaxEntries
        /\ Cardinality(DOMAIN L) \in Nat
    BY FS_CardinalityType DEF LedgerOK, LedgerBounded
  <1>2. Cardinality(DOMAIN L) >= MaxEntries
    BY <1>1, ConstantsAssumption DEF MakeRoom
  <1>3. Cardinality(DOMAIN L) = MaxEntries
    BY <1>1, <1>2, ConstantsAssumption
  <1>4. DOMAIN L # {}
    BY <1>3, FS_EmptySet, ConstantsAssumption
  <1>5. PICK v \in LruTokens(L) : E = Restrict(L, DOMAIN L \ {v})
    BY <1>2, <1>4 DEF MakeRoom, evict_lru
  <1>6. v \in DOMAIN L /\ DOMAIN E = DOMAIN L \ {v}
    BY <1>5 DEF LruTokens, Restrict
  <1>7. IsFiniteSet(DOMAIN E) /\ Cardinality(DOMAIN E) = Cardinality(DOMAIN L) - 1
    BY <1>1, <1>6, FS_RemoveElement
  <1>8. DOMAIN Insert(E, t, e) = DOMAIN E \cup {t}
    BY DEF Insert
  <1>9. Cardinality(DOMAIN E \cup {t}) = Cardinality(DOMAIN E) + 1
    BY <1>7, FS_AddElement
  <1> QED
    BY <1>1, <1>3, <1>7, <1>8, <1>9, ConstantsAssumption

(* issue_tracked adds at most the mapping of the token it returns, which   *)
(* this scope owns then; it leaves no expired mapping, and loses a live    *)
(* one only to fill its place again.                                       *)
LEMMA IssueMappings ==
  ASSUME NEW L, NEW seq, LedgerOK(L, seq), NEW s, NEW c, NEW v,
         NEW now \in Instant, NEW ttl \in Nat \ {0},
         NEW r \in issue_tracked(L, seq, s, c, v, now, ttl)
  PROVE  /\ \A t \in DOMAIN r.entries :
              \/ r.created /\ t = r.token /\ r.entries[t].scope = s
              \/ t \in DOMAIN L /\ SameBinding(r.entries[t], L[t])
         /\ r.token = NoToken => ~r.created
         /\ r.token # NoToken =>
              /\ r.token \in Token
              /\ Owned(r.entries, s, r.token, now)
              /\ \A t \in DOMAIN r.entries : r.entries[t].expires_at > now
              /\ \A t \in DOMAIN L : L[t].expires_at > now =>
                   \/ t \in DOMAIN r.entries
                   \/ Cardinality(DOMAIN r.entries) = MaxEntries
              /\ /\ Cardinality(DOMAIN L) = MaxEntries
                 /\ \A t \in DOMAIN L : L[t].expires_at > now
                 => Cardinality(DOMAIN r.entries) = MaxEntries
  <1> DEFINE P == purge_expired(L, now)
             n == Saturate(seq)
             e == [scope |-> s, data_class |-> c, value |-> v,
                   expires_at |-> now + ttl, last_used |-> n]
  <1>1. /\ LedgerOK(P, seq) /\ LedgerType(P)
        /\ DOMAIN P = {t \in DOMAIN L : L[t].expires_at > now}
        /\ \A t \in DOMAIN P : P[t] = L[t]
    BY PurgeOK, PurgeDomain DEF LedgerOK
  <1>2. now + ttl > now /\ now \in Nat
    BY ConstantsAssumption DEF Instant
  <1>3. CASE r.entries = L /\ r.token = NoToken /\ ~r.created
    BY <1>3 DEF SameBinding
  <1>4. CASE /\ ~r.created
             /\ r.token \in Holders(P, s, c, v)
             /\ r.entries = Touch(P, r.token, n, now + ttl)
    <2>1. r.token \in DOMAIN P /\ P[r.token].scope = s
      BY <1>4 DEF Holders
    <2> HIDE DEF P, n
    <2>2. /\ DOMAIN r.entries = DOMAIN P
          /\ \A u \in DOMAIN P : u # r.token => r.entries[u] = P[u]
          /\ SameBinding(r.entries[r.token], P[r.token])
          /\ r.entries[r.token].expires_at = now + ttl
      BY <1>1, <1>4, <2>1, TouchIs
    <2>3. r.token \in Token
      BY <1>1, <2>1 DEF LedgerType
    <2>4. \A t \in DOMAIN r.entries : t \in DOMAIN L /\ SameBinding(r.entries[t], L[t])
      BY <1>1, <2>1, <2>2 DEF SameBinding
    <2>5. \A t \in DOMAIN r.entries : r.entries[t].expires_at > now
      BY <1>1, <1>2, <2>2
    <2>6. Owned(r.entries, s, r.token, now)
      BY <2>1, <2>2, <2>5 DEF Owned, SameBinding
    <2>7. (\A t \in DOMAIN L : L[t].expires_at > now) => DOMAIN r.entries = DOMAIN L
      BY <1>1, <2>2
    <2> QED
      BY <1>1, <2>2, <2>3, <2>4, <2>5, <2>6, <2>7, NoTokenAssumption
  <1>5. ASSUME NEW E \in MakeRoom(P),
               \/ r.entries = E /\ r.token = NoToken /\ ~r.created
               \/ /\ r.created /\ r.token \in FreshTokens(E, c)
                  /\ r.entries = Insert(E, r.token, e)
        PROVE  /\ \A t \in DOMAIN r.entries :
                    \/ r.created /\ t = r.token /\ r.entries[t].scope = s
                    \/ t \in DOMAIN L /\ SameBinding(r.entries[t], L[t])
               /\ r.token = NoToken => ~r.created
               /\ r.token # NoToken =>
                    /\ r.token \in Token
                    /\ Owned(r.entries, s, r.token, now)
                    /\ \A t \in DOMAIN r.entries : r.entries[t].expires_at > now
                    /\ \A t \in DOMAIN L : L[t].expires_at > now =>
                         \/ t \in DOMAIN r.entries
                         \/ Cardinality(DOMAIN r.entries) = MaxEntries
                    /\ /\ Cardinality(DOMAIN L) = MaxEntries
                       /\ \A t \in DOMAIN L : L[t].expires_at > now
                       => Cardinality(DOMAIN r.entries) = MaxEntries
    <2> HIDE DEF P
    <2>1. DOMAIN E \subseteq DOMAIN P /\ \A t \in DOMAIN E : E[t] = P[t]
      BY <1>1, MakeRoomOK
    <2>2. CASE r.entries = E /\ r.token = NoToken /\ ~r.created
      BY <1>1, <2>1, <2>2 DEF SameBinding
    <2>3. CASE /\ r.created /\ r.token \in FreshTokens(E, c)
               /\ r.entries = Insert(E, r.token, e)
      <3>1. r.token \in Token /\ r.token \notin DOMAIN E /\ r.token # NoToken
        BY <2>3, NoTokenAssumption DEF FreshTokens
      <3>2. e.scope = s /\ e.expires_at = now + ttl
        OBVIOUS
      <3> HIDE DEF e
      <3>3. /\ DOMAIN r.entries = DOMAIN E \cup {r.token} /\ r.entries[r.token] = e
            /\ \A u \in DOMAIN E : r.entries[u] = E[u]
        BY <2>3, <3>1 DEF Insert
      <3>4. \A t \in DOMAIN r.entries :
              \/ t = r.token /\ r.entries[t].scope = s
              \/ t \in DOMAIN L /\ SameBinding(r.entries[t], L[t])
        BY <1>1, <2>1, <3>2, <3>3 DEF SameBinding
      <3>5. \A t \in DOMAIN r.entries : r.entries[t].expires_at > now
        BY <1>1, <1>2, <2>1, <3>2, <3>3
      <3>6. Owned(r.entries, s, r.token, now)
        BY <3>2, <3>3, <3>5 DEF Owned
      <3>7. DOMAIN E # DOMAIN P => Cardinality(DOMAIN r.entries) = MaxEntries
        BY <1>1, <2>3, <3>1, RefilledIsFull
      <3>8. Cardinality(DOMAIN P) = MaxEntries =>
              Cardinality(DOMAIN r.entries) = MaxEntries
        BY <1>1, <2>3, <3>1, RefilledIsFull
      <3>9. (\A t \in DOMAIN L : L[t].expires_at > now) => DOMAIN P = DOMAIN L
        BY <1>1
      <3>10. \A t \in DOMAIN L : L[t].expires_at > now =>
               \/ t \in DOMAIN r.entries
               \/ Cardinality(DOMAIN r.entries) = MaxEntries
        BY <1>1, <3>3, <3>7
      <3> QED
        BY <2>3, <3>1, <3>4, <3>5, <3>6, <3>8, <3>9, <3>10
    <2> QED
      BY <1>5, <2>2, <2>3
  <1> QED
    BY <1>3, <1>4, <1>5, IssueCases

(* Purging leaves the live mappings as they are, and owned tokens owned.   *)
LEMMA PurgeKeepsOwned ==
  ASSUME NEW L, NEW s, NEW t, NEW now, Owned(L, s, t, now)
  PROVE  Owned(purge_expired(L, now), s, t, now)
  BY DEF Owned, purge_expired, Restrict

(* The token that issue_tracked returns stands for the value it was given. *)
LEMMA IssueValue ==
  ASSUME NEW L, NEW seq, LedgerOK(L, seq), NEW s, NEW c, NEW v, NEW now, NEW ttl,
         NEW r \in issue_tracked(L, seq, s, c, v, now, ttl), r.token # NoToken
  PROVE  r.entries[r.token].value = v
  <1> DEFINE P == purge_expired(L, now)
             n == Saturate(seq)
             e == [scope |-> s, data_class |-> c, value |-> v,
                   expires_at |-> now + ttl, last_used |-> n]
  <1>1. LedgerType(P)
    BY PurgeOK DEF LedgerOK
  <1>2. e.value = v
    OBVIOUS
  <1>3. \/ /\ r.token \in Holders(P, s, c, v)
           /\ r.entries = Touch(P, r.token, n, now + ttl)
        \/ \E E \in MakeRoom(P) : r.entries = Insert(E, r.token, e)
    BY IssueCases
  <1> HIDE DEF P, n, e
  <1>4. CASE /\ r.token \in Holders(P, s, c, v)
             /\ r.entries = Touch(P, r.token, n, now + ttl)
    <2>1. r.token \in DOMAIN P /\ P[r.token].value = v
      BY <1>4 DEF Holders
    <2> QED
      BY <1>1, <1>4, <2>1, TouchIs DEF SameBinding
  <1>5. ASSUME NEW E \in MakeRoom(P), r.entries = Insert(E, r.token, e)
        PROVE  r.entries[r.token].value = v
    <2>1. r.entries[r.token] = e
      BY <1>5 DEF Insert
    <2> QED
      BY <1>2, <2>1
  <1> QED
    BY <1>3, <1>4, <1>5

(* restore_exact adds no mapping.                                          *)
LEMMA RestoreAddsNone ==
  ASSUME NEW L, NEW seq, NEW s, NEW t, NEW now
  PROVE  DOMAIN restore_exact(L, seq, s, t, now) \subseteq DOMAIN L
  <1> DEFINE P == purge_expired(L, now)
  <1>1. DOMAIN P \subseteq DOMAIN L
    BY PurgeDomain
  <1>2. \A n, x : DOMAIN Touch(P, t, n, x) = DOMAIN P
    BY DEF Touch
  <1> HIDE DEF P
  <1>3. DOMAIN restore_exact(L, seq, s, t, now) = DOMAIN P
    BY <1>2 DEF restore_exact, P
  <1> QED
    BY <1>1, <1>3

-----------------------------------------------------------------------------
(* Overlap resolution *)

\* Findings with classes in C: spans are not empty.
Finding(C) ==
  {f \in [data_class : C, action : Actions, start : Nat, end : Nat] :
     f.start < f.end}

\* The fields of a finding.
LEMMA FindingFields ==
  ASSUME NEW C, NEW f \in Finding(C)
  PROVE  /\ f.data_class \in C /\ f.action \in Actions
         /\ f.start \in Nat /\ f.end \in Nat /\ f.start < f.end
BY DEF Finding

\* Every action has a precedence.
LEMMA PrecedenceType ==
  ASSUME NEW action \in Actions
  PROVE  precedence(action) \in 1..4
BY DEF Actions, precedence

\* Every nonempty set of naturals has a least element.
LEMMA LeastNatural ==
  ASSUME NEW T \in SUBSET Nat, T # {}
  PROVE  \E n \in T : \A m \in T : n <= m
<1> DEFINE R == {ss \in Nat \X Nat : ss[1] < ss[2]}
<1>1. IsWellFoundedOn(R, Nat)
  BY NatLessThanWellFounded DEF OpToRel
<1>2. PICK n \in T : \A m \in T : <<m, n>> \notin R
  <2> HIDE DEF R
  <2> QED BY <1>1, WFMin DEF R
<1>3. ASSUME NEW m \in T PROVE n <= m
  <2>1. <<m, n>> \notin R BY <1>2
  <2>2. <<m, n>> \in Nat \X Nat /\ <<m, n>>[1] = m /\ <<m, n>>[2] = n
    OBVIOUS
  <2> QED BY <2>1, <2>2
<1> QED BY <1>3

\* The size of the domain of a sequence.
LEMMA Counting ==
  ASSUME NEW n \in Nat
  PROVE  IsFiniteSet(1..n) /\ Cardinality(1..n) = n
BY FS_Interval

-----------------------------------------------------------------------------
(* The sort *)

\* Precedes orders the indices strictly and totally.
LEMMA PrecedesOrders ==
  ASSUME NEW C, NEW fs \in Seq(Finding(C))
  PROVE  \A i, j, k \in DOMAIN fs :
           /\ ~Precedes(fs, i, i)
           /\ i # j => Precedes(fs, i, j) \/ Precedes(fs, j, i)
           /\ Precedes(fs, i, j) /\ Precedes(fs, j, k) => Precedes(fs, i, k)
<1>1. \A i \in DOMAIN fs : fs[i].start \in Nat /\ fs[i].end \in Nat /\ i \in Nat
  BY FindingFields
<1> SUFFICES ASSUME NEW i \in DOMAIN fs, NEW j \in DOMAIN fs, NEW k \in DOMAIN fs
             PROVE  /\ ~Precedes(fs, i, i)
                    /\ i # j => Precedes(fs, i, j) \/ Precedes(fs, j, i)
                    /\ Precedes(fs, i, j) /\ Precedes(fs, j, k) => Precedes(fs, i, k)
  OBVIOUS
<1>2. ~Precedes(fs, i, i)
  BY <1>1 DEF Precedes, SpanBefore
<1>3. i # j => Precedes(fs, i, j) \/ Precedes(fs, j, i)
  BY <1>1 DEF Precedes, SpanBefore
<1>4. Precedes(fs, i, j) /\ Precedes(fs, j, k) => Precedes(fs, i, k)
  BY <1>1, SMTT(30) DEF Precedes, SpanBefore
<1> QED BY <1>2, <1>3, <1>4

\* A finding that comes later has a higher place.
LEMMA PlaceIncreases ==
  ASSUME NEW C, NEW fs \in Seq(Finding(C))
  PROVE  /\ \A i \in DOMAIN fs : Place(fs, i) \in 1..Len(fs)
         /\ \A i, j \in DOMAIN fs :
              Precedes(fs, i, j) => Place(fs, i) < Place(fs, j)
<1> DEFINE Upto(i) == {j \in DOMAIN fs : j = i \/ Precedes(fs, j, i)}
<1>1. Len(fs) \in Nat /\ DOMAIN fs = 1..Len(fs)
  OBVIOUS
<1>2. IsFiniteSet(DOMAIN fs) /\ Cardinality(DOMAIN fs) = Len(fs)
  BY <1>1, Counting
<1>3. \A i \in DOMAIN fs : IsFiniteSet(Upto(i)) /\ Cardinality(Upto(i)) <= Len(fs)
  BY <1>2, FS_Subset
<1>4. \A i \in DOMAIN fs : Cardinality(Upto(i)) \in Nat
  BY <1>3, FS_CardinalityType
<1>5. \A i \in DOMAIN fs : Cardinality(Upto(i)) # 0
  <2> SUFFICES ASSUME NEW i \in DOMAIN fs PROVE Cardinality(Upto(i)) # 0
    OBVIOUS
  <2>1. i \in Upto(i)
    OBVIOUS
  <2> QED BY <1>3, <2>1, FS_EmptySet
<1>6. ASSUME NEW i \in DOMAIN fs, NEW j \in DOMAIN fs, Precedes(fs, i, j)
      PROVE  Cardinality(Upto(i)) < Cardinality(Upto(j))
  <2>1. Upto(i) \subseteq Upto(j)
    BY <1>6, PrecedesOrders
  <2>2. j \in Upto(j) /\ j \notin Upto(i)
    BY <1>6, PrecedesOrders
  <2>3. Upto(i) # Upto(j)
    BY <2>2
  <2> HIDE DEF Upto
  <2>4. Cardinality(Upto(i)) <= Cardinality(Upto(j))
        /\ Cardinality(Upto(i)) # Cardinality(Upto(j))
    BY <1>3, <2>1, <2>3, FS_Subset
  <2> QED BY <1>4, <2>4
<1>7. \A i \in DOMAIN fs : Place(fs, i) = Cardinality(Upto(i))
  BY DEF Place
<1> HIDE DEF Upto
<1> QED BY <1>1, <1>3, <1>4, <1>5, <1>6, <1>7

\* Every place is taken, by one finding.
LEMMA PlaceOnto ==
  ASSUME NEW C, NEW fs \in Seq(Finding(C)), NEW k \in DOMAIN fs
  PROVE  \E i \in DOMAIN fs : Place(fs, i) = k
<1> DEFINE S == DOMAIN fs
           p == [i \in S |-> Place(fs, i)]
<1>1. Len(fs) \in Nat /\ S = 1..Len(fs)
  OBVIOUS
<1>2. IsFiniteSet(S) /\ Cardinality(S) = Len(fs)
  BY <1>1, Counting
<1>3. \A i \in S : Place(fs, i) \in S
  BY <1>1, PlaceIncreases
<1>4. \A i, j \in S : i # j => Place(fs, i) # Place(fs, j)
  <2> SUFFICES ASSUME NEW i \in S, NEW j \in S, i # j
               PROVE  Place(fs, i) # Place(fs, j)
    OBVIOUS
  <2>1. Place(fs, i) \in Nat /\ Place(fs, j) \in Nat
    BY <1>1, <1>3
  <2>2. Precedes(fs, i, j) \/ Precedes(fs, j, i)
    BY PrecedesOrders
  <2> QED BY <2>1, <2>2, PlaceIncreases
<1> SUFFICES ASSUME \A i \in S : Place(fs, i) # k PROVE FALSE
  OBVIOUS
<1>5. p \in [S -> S \ {k}]
  BY <1>3
<1>6. IsFiniteSet(S \ {k}) /\ Cardinality(S \ {k}) = Cardinality(S) - 1
  BY <1>2, FS_RemoveElement
<1>7. Cardinality(S \ {k}) < Cardinality(S)
  BY <1>1, <1>2, <1>6
<1>8. \E i, j \in S : i # j /\ p[i] = p[j]
  <2> HIDE DEF p, S
  <2> QED BY <1>2, <1>5, <1>6, <1>7, FS_PigeonHole
<1> QED BY <1>4, <1>8

\* SortedBySpan is a permutation of the findings, in the order of the spans.
LEMMA SortedIs ==
  ASSUME NEW C, NEW fs \in Seq(Finding(C))
  PROVE  /\ SortedBySpan(fs) \in Seq(Finding(C))
         /\ Len(SortedBySpan(fs)) = Len(fs)
         /\ \A k \in DOMAIN fs : \E i \in DOMAIN fs : SortedBySpan(fs)[k] = fs[i]
         /\ \A i \in DOMAIN fs : \E k \in DOMAIN fs : SortedBySpan(fs)[k] = fs[i]
         /\ \A k, l \in DOMAIN fs :
              k < l => SortedBySpan(fs)[k].start <= SortedBySpan(fs)[l].start
<1> DEFINE S == DOMAIN fs
           At(k) == CHOOSE i \in S : Place(fs, i) = k
<1>1. Len(fs) \in Nat /\ S = 1..Len(fs) /\ \A i \in S : fs[i] \in Finding(C)
  OBVIOUS
<1>2. \A k \in S : At(k) \in S /\ Place(fs, At(k)) = k
  BY PlaceOnto
<1>3. \A i \in S : Place(fs, i) \in S
  BY <1>1, PlaceIncreases
<1>4. \A i \in S : At(Place(fs, i)) = i
  <2> SUFFICES ASSUME NEW i \in S, At(Place(fs, i)) # i PROVE FALSE
    OBVIOUS
  <2> DEFINE j == At(Place(fs, i))
  <2>1. j \in S /\ Place(fs, j) = Place(fs, i)
    BY <1>2, <1>3
  <2>2. Precedes(fs, i, j) \/ Precedes(fs, j, i)
    BY <2>1, PrecedesOrders
  <2>3. Place(fs, i) \in Nat
    BY <1>1, <1>3
  <2> HIDE DEF j
  <2> QED BY <2>1, <2>2, <2>3, PlaceIncreases
<1>5. SortedBySpan(fs) = [k \in S |-> fs[At(k)]]
  BY DEF SortedBySpan
<1> HIDE DEF At
<1>6. SortedBySpan(fs) \in Seq(Finding(C)) /\ Len(SortedBySpan(fs)) = Len(fs)
  BY <1>1, <1>2, <1>5
<1>7. ASSUME NEW k \in S, NEW l \in S, k < l
      PROVE  fs[At(k)].start <= fs[At(l)].start
  <2>1. At(k) \in S /\ At(l) \in S
    BY <1>2
  <2>2. At(k) # At(l)
    BY <1>2, <1>7, <1>1
  <2>3. ~Precedes(fs, At(l), At(k))
    <3> SUFFICES ASSUME Precedes(fs, At(l), At(k)) PROVE FALSE
      OBVIOUS
    <3>1. Place(fs, At(l)) < Place(fs, At(k))
      BY <2>1, PlaceIncreases
    <3> QED BY <1>1, <1>2, <1>7, <3>1
  <2>4. Precedes(fs, At(k), At(l))
    BY <2>1, <2>2, <2>3, PrecedesOrders
  <2>5. fs[At(k)].start \in Nat /\ fs[At(l)].start \in Nat
    BY <1>1, <2>1, FindingFields
  <2> QED BY <2>4, <2>5 DEF Precedes, SpanBefore
<1> QED BY <1>2, <1>3, <1>4, <1>5, <1>6, <1>7

-----------------------------------------------------------------------------
(* The loop *)

\* A step of the loop on the components so far.
MergeStep(h, s, n) == IF n = 0 THEN <<>> ELSE Absorb(h[n - 1], s[n])

\* The recursion of Components has a solution.
LEMMA MergedExists ==
  ASSUME NEW s, NEW N \in Nat
  PROVE  \E h : h = [n \in 0..N |-> MergeStep(h, s, n)]
<1> DEFINE Solves(h, k) == h = [n \in 0..k |-> MergeStep(h, s, n)]
           Bad == {k \in Nat : ~\E h : Solves(h, k)}
<1>1. Bad = {}
  <2> SUFFICES ASSUME Bad # {} PROVE FALSE
    OBVIOUS
  <2>1. PICK k \in Bad : \A m \in Bad : k <= m
    <3>1. Bad \in SUBSET Nat
      OBVIOUS
    <3> HIDE DEF Bad
    <3> QED BY <3>1, LeastNatural
  <2>2. k # 0
    <3>1. Solves([n \in 0..0 |-> <<>>], 0)
      BY DEF MergeStep
    <3> QED BY <3>1, <2>1
  <2>3. k - 1 \in Nat /\ k - 1 \notin Bad
    BY <2>1, <2>2
  <2>4. PICK h : Solves(h, k - 1)
    BY <2>3
  <2> DEFINE g == [n \in 0..k |-> IF n = k THEN Absorb(h[k - 1], s[k]) ELSE h[n]]
  <2>5. Solves(g, k)
    BY <2>1, <2>2, <2>4 DEF MergeStep
  <2> QED BY <2>1, <2>5
<1> QED BY <1>1

\* Components runs the loop from no component to the last finding.
LEMMA ComponentsIs ==
  ASSUME NEW s, Len(s) \in Nat
  PROVE  \E h : /\ h[0] = <<>>
                /\ \A n \in 1..Len(s) : h[n] = Absorb(h[n - 1], s[n])
                /\ Components(s) = h[Len(s)]
<1> DEFINE merged == CHOOSE h : h = [n \in 0..Len(s) |-> MergeStep(h, s, n)]
<1>1. Components(s) = merged[Len(s)]
  BY DEF Components, MergeStep
<1>2. merged = [n \in 0..Len(s) |-> MergeStep(merged, s, n)]
  BY MergedExists
<1> HIDE DEF merged
<1>3. merged[0] = <<>>
  BY <1>2 DEF MergeStep
<1>4. \A n \in 1..Len(s) : merged[n] = Absorb(merged[n - 1], s[n])
  BY <1>2 DEF MergeStep
<1> QED BY <1>1, <1>3, <1>4

Component(C) == [start : Nat, end : Nat, best : Finding(C)]

Within(f, c) == c.start <= f.start /\ f.end <= c.end

\* In order, without overlap.
Apart(cs) ==
  /\ \A j \in DOMAIN cs : cs[j].start < cs[j].end
  /\ \A i, j \in DOMAIN cs : i < j => cs[i].end <= cs[j].start

\* Each of the first n findings is in a component that is at least as strong.
Contained(cs, s, n) ==
  \A k \in 1..n : \E j \in DOMAIN cs :
    Within(s[k], cs[j]) /\ precedence(s[k].action) <= precedence(cs[j].best.action)

\* The strongest finding of a component is one of those in it.
Founded(cs, s, n) ==
  \A j \in DOMAIN cs : \E k \in 1..n : cs[j].best = s[k] /\ Within(s[k], cs[j])

\* A component covers nothing that no finding covers.
Covering(cs, s, n) ==
  \A j \in DOMAIN cs : \A p \in cs[j].start..cs[j].end - 1 :
    \E k \in 1..n : s[k].start <= p /\ p < s[k].end

\* What the components of the first n findings are.
Merges(C, cs, s, n) ==
  /\ cs \in Seq(Component(C))
  /\ Apart(cs) /\ Contained(cs, s, n) /\ Founded(cs, s, n) /\ Covering(cs, s, n)

Ascending(s) == \A k, l \in DOMAIN s : k < l => s[k].start <= s[l].start

\* Widening a component to a finding that overlaps it.
LEMMA WidenIs ==
  ASSUME NEW C, NEW c \in Component(C), NEW f \in Finding(C), c.start <= f.start
  PROVE  /\ Widen(c, f) \in Component(C)
         /\ Widen(c, f).start = c.start
         /\ Widen(c, f).end \in {c.end, f.end}
         /\ c.end <= Widen(c, f).end /\ f.end <= Widen(c, f).end
         /\ Widen(c, f).best \in {c.best, f}
         /\ precedence(c.best.action) <= precedence(Widen(c, f).best.action)
         /\ precedence(f.action) <= precedence(Widen(c, f).best.action)
<1>1. c.start \in Nat /\ c.end \in Nat /\ c.best \in Finding(C)
  BY DEF Component
<1>2. f.start \in Nat /\ f.end \in Nat
  BY FindingFields
<1>3. precedence(c.best.action) \in Nat /\ precedence(f.action) \in Nat
  BY <1>1, FindingFields, PrecedenceType
<1>4. AtLeastAsStrong(f, c.best) => precedence(c.best.action) <= precedence(f.action)
  BY <1>3 DEF AtLeastAsStrong
<1>5. ~AtLeastAsStrong(f, c.best) => precedence(f.action) <= precedence(c.best.action)
  BY <1>1, <1>2, <1>3, FindingFields DEF AtLeastAsStrong
<1> QED BY <1>1, <1>2, <1>3, <1>4, <1>5 DEF Widen, Component

\* One more finding is absorbed.
LEMMA AbsorbStep ==
  ASSUME NEW C, NEW s \in Seq(Finding(C)), Ascending(s),
         NEW n \in Nat, n + 1 \in DOMAIN s, NEW cs, Merges(C, cs, s, n)
  PROVE  Merges(C, Absorb(cs, s[n + 1]), s, n + 1)
<1> DEFINE f == s[n + 1]
           m == Len(cs)
           ds == Absorb(cs, f)
<1>1. /\ cs \in Seq(Component(C)) /\ m \in Nat /\ DOMAIN cs = 1..m
      /\ \A j \in DOMAIN cs : /\ cs[j] \in Component(C)
                              /\ cs[j].start \in Nat /\ cs[j].end \in Nat
  <2>1. cs \in Seq(Component(C))
    BY DEF Merges
  <2>2. m \in Nat /\ DOMAIN cs = 1..m /\ \A j \in DOMAIN cs : cs[j] \in Component(C)
    BY <2>1
  <2>3. \A c \in Component(C) : c.start \in Nat /\ c.end \in Nat
    BY DEF Component
  <2> QED BY <2>1, <2>2, <2>3
<1>2. f \in Finding(C) /\ f.start \in Nat /\ f.end \in Nat /\ f.start < f.end
  BY FindingFields
<1>3. \A k \in 1..n : k \in DOMAIN s /\ s[k] \in Finding(C) /\ s[k].start <= f.start
                      /\ s[k].start \in Nat /\ s[k].end \in Nat
  BY FindingFields DEF Ascending
<1>4. \A j \in DOMAIN cs : cs[j].start <= f.start
  BY <1>1, <1>2, <1>3 DEF Merges, Founded, Within
<1>5. 1..n + 1 = 1..n \cup {n + 1}
  OBVIOUS
<1>6. CASE m # 0 /\ f.start < cs[m].end
  <2> DEFINE w == Widen(cs[m], f)
  <2>1. m \in DOMAIN cs /\ Last(cs) = cs[m] /\ cs # <<>>
    BY <1>1, <1>6 DEF Last
  <2>2. ds = [cs EXCEPT ![m] = w]
    BY <1>6, <2>1 DEF Absorb, Overlaps
  <2>3. /\ w \in Component(C) /\ w.start = cs[m].start /\ w.end \in {cs[m].end, f.end}
        /\ cs[m].end <= w.end /\ f.end <= w.end /\ w.best \in {cs[m].best, f}
        /\ precedence(cs[m].best.action) <= precedence(w.best.action)
        /\ precedence(f.action) <= precedence(w.best.action)
        /\ w.end \in Nat
    <3>1. w \in Component(C) => w.end \in Nat
      BY DEF Component
    <3> QED BY <1>1, <1>2, <1>4, <2>1, <3>1, WidenIs
  <2> HIDE DEF w, ds
  <2>4. /\ ds \in Seq(Component(C)) /\ DOMAIN ds = 1..m /\ ds[m] = w
        /\ \A j \in 1..m : j # m => ds[j] = cs[j]
    BY <1>1, <2>1, <2>2, <2>3
  <2>5. Apart(ds)
    <3>0. /\ \A j \in 1..m : cs[j].start < cs[j].end
          /\ \A i, j \in 1..m : i < j => cs[i].end <= cs[j].start
      BY <1>1 DEF Merges, Apart
    <3>1. ASSUME NEW j \in 1..m PROVE ds[j].start < ds[j].end
      <4>1. CASE j = m
        <5>1. cs[m].start \in Nat /\ cs[m].end \in Nat /\ cs[m].start < cs[m].end
          BY <1>1, <2>1, <3>0, <4>1
        <5>2. w.start < w.end
          BY <2>3, <5>1
        <5> QED BY <2>4, <4>1, <5>2
      <4>2. CASE j # m
        BY <2>4, <3>0, <4>2
      <4> QED BY <4>1, <4>2
    <3>2. ASSUME NEW i \in 1..m, NEW j \in 1..m, i < j
          PROVE  ds[i].end <= ds[j].start
      <4>1. i # m /\ cs[i].end <= cs[j].start
        <5>1. m \in Nat
          BY <1>1
        <5> HIDE DEF m
        <5> QED BY <3>0, <3>2, <5>1
      <4>2. ds[j].start = cs[j].start
        BY <2>3, <2>4
      <4> QED BY <2>4, <4>1, <4>2
    <3> QED BY <2>4, <3>1, <3>2 DEF Apart
  <2>6. Contained(ds, s, n + 1)
    <3> SUFFICES ASSUME NEW k \in 1..n + 1
                 PROVE  \E j \in DOMAIN ds :
                          /\ Within(s[k], ds[j])
                          /\ precedence(s[k].action) <= precedence(ds[j].best.action)
      BY DEF Contained
    <3>1. CASE k = n + 1
      <4>1. Within(f, w)
        BY <1>4, <2>1, <2>3 DEF Within
      <4>2. m \in DOMAIN ds
        BY <1>1, <2>1, <2>4
      <4> HIDE DEF f, m
      <4> QED BY <2>3, <2>4, <3>1, <4>1, <4>2 DEF f
    <3>2. CASE k \in 1..n
      <4>1. PICK j \in DOMAIN cs :
              /\ Within(s[k], cs[j])
              /\ precedence(s[k].action) <= precedence(cs[j].best.action)
        BY <3>2 DEF Merges, Contained
      <4>2. CASE j # m
        BY <1>1, <2>4, <4>1, <4>2
      <4>3. CASE j = m
        <5>1. Within(s[k], w)
          BY <1>1, <1>3, <2>1, <2>3, <3>2, <4>1, <4>3 DEF Within
        <5>2. /\ precedence(s[k].action) \in Nat
              /\ precedence(cs[m].best.action) \in Nat
              /\ precedence(w.best.action) \in Nat
          <6>1. \A x \in Finding(C) : precedence(x.action) \in Nat
            BY FindingFields, PrecedenceType
          <6>2. \A c \in Component(C) : c.best \in Finding(C)
            BY DEF Component
          <6>3. s[k] \in Finding(C) /\ cs[m] \in Component(C) /\ w \in Component(C)
            BY <1>1, <1>3, <2>1, <2>3, <3>2
          <6> QED BY <6>1, <6>2, <6>3
        <5>3. m \in DOMAIN ds
          BY <1>1, <2>1, <2>4
        <5>4. precedence(s[k].action) <= precedence(w.best.action)
          BY <2>3, <4>1, <4>3, <5>2
        <5> QED BY <2>4, <5>1, <5>3, <5>4
      <4> QED BY <4>2, <4>3
    <3> QED BY <1>5, <3>1, <3>2
  <2>7. Founded(ds, s, n + 1)
    <3> SUFFICES ASSUME NEW j \in DOMAIN ds
                 PROVE  \E k \in 1..n + 1 : ds[j].best = s[k] /\ Within(s[k], ds[j])
      BY DEF Founded
    <3>1. j \in DOMAIN cs
      BY <1>1, <2>4
    <3>2. PICK k \in 1..n : cs[j].best = s[k] /\ Within(s[k], cs[j])
      BY <3>1 DEF Merges, Founded
    <3>3. CASE j # m
      BY <1>5, <2>4, <3>2, <3>3
    <3>4. CASE j = m /\ w.best = f
      <4>1. Within(f, w)
        BY <1>4, <2>1, <2>3 DEF Within
      <4> QED BY <1>5, <2>4, <3>4, <4>1
    <3>5. CASE j = m /\ w.best = cs[m].best
      <4>1. Within(s[k], w)
        BY <1>1, <1>3, <2>1, <2>3, <3>2, <3>5 DEF Within
      <4> QED BY <1>5, <2>4, <3>2, <3>5, <4>1
    <3> QED BY <2>3, <3>3, <3>4, <3>5
  <2>8. Covering(ds, s, n + 1)
    <3> SUFFICES ASSUME NEW j \in DOMAIN ds, NEW p \in ds[j].start..ds[j].end - 1
                 PROVE  \E k \in 1..n + 1 : s[k].start <= p /\ p < s[k].end
      BY DEF Covering
    <3>1. j \in DOMAIN cs
      BY <1>1, <2>4
    <3>2. CASE p \in cs[j].start..cs[j].end - 1
      BY <1>5, <3>1, <3>2 DEF Merges, Covering
    <3>3. CASE p \notin cs[j].start..cs[j].end - 1
      <4>1. j = m
        BY <2>4, <3>3
      <4>2. p \in w.start..w.end - 1
        BY <2>4, <4>1
      <4>3. f.start <= p /\ p < f.end
        BY <1>1, <1>2, <1>6, <2>1, <2>3, <3>3, <4>1, <4>2, SMTT(30)
      <4> QED BY <1>5, <4>3
    <3> QED BY <3>2, <3>3
  <2> QED BY <2>4, <2>5, <2>6, <2>7, <2>8 DEF Merges, ds
<1>7. CASE m = 0 \/ ~(f.start < cs[m].end)
  <2> DEFINE c == StartComponent(f)
  <2>1. ds = Append(cs, c)
    <3>1. cs # <<>> => m # 0
      BY <1>1
    <3>2. ~(cs # <<>> /\ Overlaps(f, Last(cs)))
      BY <1>7, <3>1 DEF Overlaps, Last
    <3> QED BY <3>2 DEF Absorb
  <2>2. c \in Component(C) /\ c.start = f.start /\ c.end = f.end /\ c.best = f
    BY <1>2 DEF StartComponent, Component
  <2> HIDE DEF c, ds
  <2>3. /\ ds \in Seq(Component(C)) /\ DOMAIN ds = 1..m + 1 /\ ds[m + 1] = c
        /\ \A j \in 1..m : ds[j] = cs[j]
    BY <1>1, <2>1, <2>2
  <2>4. \A j \in DOMAIN cs : cs[j].end <= f.start
    <3> SUFFICES ASSUME NEW j \in DOMAIN cs PROVE cs[j].end <= f.start
      OBVIOUS
    <3>1. m # 0 /\ m \in DOMAIN cs /\ cs[m].end <= f.start
      BY <1>1, <1>2, <1>7
    <3>2. CASE j = m
      BY <3>1, <3>2
    <3>3. CASE j # m
      <4>1. cs[j].end <= cs[m].start /\ cs[m].start < cs[m].end
        BY <1>1, <3>1, <3>3 DEF Merges, Apart
      <4> QED BY <1>1, <1>2, <3>1, <4>1, SMTT(30)
    <3> QED BY <3>2, <3>3
  <2>5. Apart(ds)
    <3>1. \A j \in DOMAIN ds : ds[j].start < ds[j].end
      BY <1>1, <1>2, <2>2, <2>3 DEF Merges, Apart
    <3>2. \A i, j \in DOMAIN cs : i < j => cs[i].end <= cs[j].start
      BY <1>1 DEF Merges, Apart
    <3>3. ASSUME NEW i \in DOMAIN ds, NEW j \in DOMAIN ds, i < j
          PROVE  ds[i].end <= ds[j].start
      <4>1. m \in Nat /\ DOMAIN cs = 1..m /\ i \in 1..m
        BY <1>1, <2>3, <3>3
      <4>2. CASE j \in 1..m
        BY <2>3, <3>2, <3>3, <4>1, <4>2
      <4>3. CASE j \notin 1..m
        <5>1. j = m + 1
          BY <2>3, <4>1, <4>3
        <5> QED BY <2>2, <2>3, <2>4, <4>1, <5>1
      <4> QED BY <4>2, <4>3
    <3> QED BY <3>1, <3>3 DEF Apart
  <2>6. Within(f, c)
    BY <1>2, <2>2 DEF Within
  <2>7. Contained(ds, s, n + 1)
    <3> SUFFICES ASSUME NEW k \in 1..n + 1
                 PROVE  \E j \in DOMAIN ds :
                          /\ Within(s[k], ds[j])
                          /\ precedence(s[k].action) <= precedence(ds[j].best.action)
      BY DEF Contained
    <3>1. CASE k = n + 1
      <4>1. precedence(f.action) \in Nat
        BY <1>2, FindingFields, PrecedenceType
      <4> QED BY <1>1, <2>2, <2>3, <2>6, <3>1, <4>1
    <3>2. CASE k \in 1..n
      <4>1. PICK j \in DOMAIN cs :
              /\ Within(s[k], cs[j])
              /\ precedence(s[k].action) <= precedence(cs[j].best.action)
        BY <3>2 DEF Merges, Contained
      <4> QED BY <1>1, <2>3, <4>1, SMTT(30)
    <3> QED BY <1>5, <3>1, <3>2
  <2>8. Founded(ds, s, n + 1)
    <3> SUFFICES ASSUME NEW j \in DOMAIN ds
                 PROVE  \E k \in 1..n + 1 : ds[j].best = s[k] /\ Within(s[k], ds[j])
      BY DEF Founded
    <3>1. CASE j = m + 1
      BY <1>5, <2>2, <2>3, <2>6, <3>1
    <3>2. CASE j \in DOMAIN cs
      BY <1>1, <1>5, <2>3, <3>2 DEF Merges, Founded
    <3> QED BY <1>1, <2>3, <3>1, <3>2
  <2>9. Covering(ds, s, n + 1)
    <3> SUFFICES ASSUME NEW j \in DOMAIN ds, NEW p \in ds[j].start..ds[j].end - 1
                 PROVE  \E k \in 1..n + 1 : s[k].start <= p /\ p < s[k].end
      BY DEF Covering
    <3>1. CASE j = m + 1
      <4>1. f.start <= p /\ p < f.end
        BY <1>2, <2>2, <2>3, <3>1
      <4> QED BY <1>5, <4>1
    <3>2. CASE j \in DOMAIN cs
      BY <1>1, <1>5, <2>3, <3>2 DEF Merges, Covering
    <3> QED BY <1>1, <2>3, <3>1, <3>2
  <2> QED BY <2>3, <2>5, <2>7, <2>8, <2>9 DEF Merges, ds
<1> QED BY <1>6, <1>7

\* The whole loop.
LEMMA ComponentsMerge ==
  ASSUME NEW C, NEW s \in Seq(Finding(C)), Ascending(s)
  PROVE  Merges(C, Components(s), s, Len(s))
<1>1. PICK h : /\ h[0] = <<>>
               /\ \A n \in 1..Len(s) : h[n] = Absorb(h[n - 1], s[n])
               /\ Components(s) = h[Len(s)]
  BY ComponentsIs
<1> DEFINE Bad == {n \in 0..Len(s) : ~Merges(C, h[n], s, n)}
<1>2. Bad = {}
  <2> SUFFICES ASSUME Bad # {} PROVE FALSE
    OBVIOUS
  <2>1. PICK n \in Bad : \A k \in Bad : n <= k
    <3>1. Bad \in SUBSET Nat
      OBVIOUS
    <3> HIDE DEF Bad
    <3> QED BY <3>1, LeastNatural
  <2>2. n # 0
    <3>1. Merges(C, <<>>, s, 0)
      BY DEF Merges, Apart, Contained, Founded, Covering
    <3> QED BY <1>1, <2>1, <3>1
  <2>3. n - 1 \in Nat /\ n - 1 \in 0..Len(s) /\ n \in DOMAIN s /\ n \in 1..Len(s)
    BY <2>1, <2>2
  <2>4. Merges(C, h[n - 1], s, n - 1)
    BY <2>1, <2>3
  <2>5. Merges(C, Absorb(h[n - 1], s[(n - 1) + 1]), s, (n - 1) + 1)
    BY <2>3, <2>4, AbsorbStep
  <2> QED BY <1>1, <2>1, <2>3, <2>5
<1> QED BY <1>1, <1>2

-----------------------------------------------------------------------------
(* The result *)

\* What rs must be for the findings fs: disjoint and in order; each finding
\* inside one of rs that is at least as strong; each of rs with the class and
\* the action of a finding inside it, and over nothing but findings.
Resolves(C, rs, fs) ==
  /\ rs \in Seq(Finding(C))
  /\ Apart(rs)
  /\ \A i \in DOMAIN fs : \E j \in DOMAIN rs :
       Within(fs[i], rs[j]) /\ precedence(fs[i].action) <= precedence(rs[j].action)
  /\ \A j \in DOMAIN rs : \E i \in DOMAIN fs :
       /\ Within(fs[i], rs[j])
       /\ rs[j].action = fs[i].action /\ rs[j].data_class = fs[i].data_class
  /\ \A j \in DOMAIN rs : \A p \in rs[j].start..rs[j].end - 1 :
       \E i \in DOMAIN fs : fs[i].start <= p /\ p < fs[i].end

\* resolve_overlaps resolves any findings, however many, however they overlap
\* and in whatever order the detectors reported them: what apply_rewrites
\* replaces is disjoint, covers every finding and nothing else, and nothing
\* found is handled more weakly than the policy said.
THEOREM ResolveOverlaps ==
  ASSUME NEW C, NEW fs \in Seq(Finding(C))
  PROVE  Resolves(C, resolve_overlaps(fs), fs)
<1> DEFINE s == SortedBySpan(fs)
           cs == Components(s)
           rs == resolve_overlaps(fs)
<1>1. /\ s \in Seq(Finding(C)) /\ Len(s) = Len(fs)
      /\ \A k \in DOMAIN fs : \E i \in DOMAIN fs : s[k] = fs[i]
      /\ \A i \in DOMAIN fs : \E k \in DOMAIN fs : s[k] = fs[i]
      /\ \A k, l \in DOMAIN fs : k < l => s[k].start <= s[l].start
  BY SortedIs
<1> HIDE DEF s
<1>2. DOMAIN s = 1..Len(s) /\ DOMAIN fs = 1..Len(s) /\ Len(s) \in Nat
  BY <1>1
<1>3. Merges(C, cs, s, Len(s))
  BY <1>1, <1>2, ComponentsMerge DEF Ascending
<1>4. rs = [i \in DOMAIN cs |->
             [cs[i].best EXCEPT !.start = cs[i].start, !.end = cs[i].end]]
  BY DEF resolve_overlaps, s
<1> HIDE DEF cs, rs
<1>5. cs \in Seq(Component(C))
  BY <1>3 DEF Merges
<1>6. \A j \in DOMAIN cs : /\ cs[j].best \in Finding(C)
                           /\ cs[j].start \in Nat /\ cs[j].end \in Nat
  <2>1. \A c \in Component(C) : c.best \in Finding(C) /\ c.start \in Nat /\ c.end \in Nat
    BY DEF Component
  <2> QED BY <1>5, <2>1
<1>7. \A j \in DOMAIN cs :
        /\ rs[j] \in Finding(C)
        /\ rs[j].start = cs[j].start /\ rs[j].end = cs[j].end
        /\ rs[j].action = cs[j].best.action
        /\ rs[j].data_class = cs[j].best.data_class
  <2> SUFFICES ASSUME NEW j \in DOMAIN cs
               PROVE  /\ rs[j] \in Finding(C)
                      /\ rs[j].start = cs[j].start /\ rs[j].end = cs[j].end
                      /\ rs[j].action = cs[j].best.action
                      /\ rs[j].data_class = cs[j].best.data_class
    OBVIOUS
  <2>1. cs[j].start < cs[j].end
    BY <1>3 DEF Merges, Apart
  <2>2. rs[j] = [cs[j].best EXCEPT !.start = cs[j].start, !.end = cs[j].end]
    BY <1>4
  <2> DEFINE f == cs[j].best
             a == cs[j].start
             b == cs[j].end
  <2>3. f \in Finding(C) /\ a \in Nat /\ b \in Nat /\ a < b
    BY <1>6, <2>1
  <2>4. rs[j] = [f EXCEPT !.start = a, !.end = b]
    BY <2>2
  <2> HIDE DEF f, a, b
  <2>5. /\ rs[j] \in Finding(C) /\ rs[j].start = a /\ rs[j].end = b
        /\ rs[j].action = f.action /\ rs[j].data_class = f.data_class
    BY <2>3, <2>4 DEF Finding
  <2> QED BY <2>5 DEF f, a, b
<1>8. DOMAIN rs = DOMAIN cs /\ rs \in Seq(Finding(C))
  <2>1. DOMAIN cs = 1..Len(cs) /\ Len(cs) \in Nat
    BY <1>5
  <2>2. DOMAIN rs = 1..Len(cs)
    BY <1>4, <2>1
  <2>3. rs = [i \in 1..Len(cs) |-> rs[i]]
    BY <1>4, <2>1
  <2> QED BY <1>7, <2>1, <2>2, <2>3
<1>9. Apart(rs)
  BY <1>3, <1>7, <1>8 DEF Merges, Apart
<1>10. ASSUME NEW i \in DOMAIN fs
       PROVE  \E j \in DOMAIN rs :
                /\ Within(fs[i], rs[j])
                /\ precedence(fs[i].action) <= precedence(rs[j].action)
  <2>1. PICK k \in 1..Len(s) : s[k] = fs[i]
    BY <1>1, <1>2
  <2>2. PICK j \in DOMAIN cs :
          Within(s[k], cs[j]) /\ precedence(s[k].action) <= precedence(cs[j].best.action)
    BY <1>3 DEF Merges, Contained
  <2>3. Within(fs[i], rs[j])
    BY <1>7, <2>1, <2>2 DEF Within
  <2> QED BY <1>7, <1>8, <2>1, <2>2, <2>3
<1>11. ASSUME NEW j \in DOMAIN rs
       PROVE  \E i \in DOMAIN fs :
                /\ Within(fs[i], rs[j])
                /\ rs[j].action = fs[i].action /\ rs[j].data_class = fs[i].data_class
  <2>1. PICK k \in 1..Len(s) : cs[j].best = s[k] /\ Within(s[k], cs[j])
    BY <1>3, <1>8 DEF Merges, Founded
  <2>2. PICK i \in DOMAIN fs : s[k] = fs[i]
    BY <1>1, <1>2
  <2>3. Within(fs[i], rs[j])
    BY <1>7, <1>8, <2>1, <2>2 DEF Within
  <2> QED BY <1>7, <1>8, <2>1, <2>2, <2>3
<1>12. ASSUME NEW j \in DOMAIN rs, NEW p \in rs[j].start..rs[j].end - 1
       PROVE  \E i \in DOMAIN fs : fs[i].start <= p /\ p < fs[i].end
  <2>1. PICK k \in 1..Len(s) : s[k].start <= p /\ p < s[k].end
    BY <1>3, <1>7, <1>8 DEF Merges, Covering
  <2> QED BY <1>1, <1>2, <2>1
<1> QED BY <1>8, <1>9, <1>10, <1>11, <1>12 DEF Resolves, rs

=============================================================================
