-------------------------- MODULE TokenLedgerProofs --------------------------
(***************************************************************************)
(* Proofs about the token ledger, for every set of scopes, classes, values *)
(* and random suffixes, every capacity and every clock and counter width.  *)
(*                                                                         *)
(* The invariants the runs check are not inductive one by one: the search  *)
(* in issue_tracked finds all twins only because every operation keeps the *)
(* twins unique, and the capacity argument needs the domain to be finite.  *)
(* LedgerOK collects them; OpsProofs shows that each operation of          *)
(* LedgerOps preserves it.                                                 *)
(***************************************************************************)
EXTENDS TokenLedger, OpsProofs

IInv == LedgerOK(entries, sequence) /\ clock \in Instant

-----------------------------------------------------------------------------

(* Every step of the ledger preserves IInv: one case per public method.    *)
LEMMA IInvStep == IInv /\ [Next]_vars => IInv'
  <1> SUFFICES ASSUME IInv, [Next]_vars
               PROVE  IInv'
    OBVIOUS
  <1> USE DEF IInv
  <1>0. sequence \in 0..MaxSequence /\ sequence <= sequence
    BY ConstantsAssumption DEF LedgerOK
  <1>1. CASE Tick
    BY <1>1, ConstantsAssumption DEF Tick, Instant
  <1>2. ASSUME NEW s \in Scopes, NEW c \in Classes, NEW v \in Values,
               NEW ttl \in Ttls, IssueTracked(s, c, v, ttl)
        PROVE  IInv'
    <2>1. PICK r \in issue_tracked(entries, sequence, s, c, v, clock, ttl) :
            entries' = r.entries /\ sequence' = r.sequence
      BY <1>2 DEF IssueTracked
    <2>2. ttl \in Nat
      BY TtlsAssumption
    <2>3. LedgerOK(r.entries, r.sequence)
      BY <2>2, IssueOK
    <2> QED
      BY <1>2, <2>1, <2>3 DEF IssueTracked
  <1>3. ASSUME NEW s \in Scopes, NEW tokens \in SUBSET DOMAIN entries,
               RollbackCreated(s, tokens)
        PROVE  IInv'
    <2> DEFINE S == {t \in DOMAIN entries :
                       ~(t \in tokens /\ entries[t].scope = s)}
    <2>1. LedgerOK(Restrict(entries, S), sequence)
      BY <1>0, RestrictOK
    <2> QED
      BY <1>3, <2>1 DEF RollbackCreated, rollback_created
  <1>4. ASSUME NEW s \in Scopes, NEW t \in Token, NEW now \in 0..clock,
               RestoreExact(s, t, now)
        PROVE  IInv'
    <2>1. LedgerOK(restore_exact(entries, sequence, s, t, now),
                   Saturate(sequence))
      BY RestoreOK
    <2> QED
      BY <1>4, <2>1 DEF RestoreExact
  <1>5. CASE OwnsToken
    <2>1. LedgerOK(purge_expired(entries, clock), sequence)
      BY PurgeOK
    <2> QED
      BY <1>5, <2>1 DEF OwnsToken
  <1>6. ASSUME NEW s \in Scopes, ClearScope(s)
        PROVE  IInv'
    <2> DEFINE S == {t \in DOMAIN entries : entries[t].scope # s}
    <2>1. LedgerOK(Restrict(entries, S), sequence)
      BY <1>0, RestrictOK
    <2> QED
      BY <1>6, <2>1 DEF ClearScope, clear_scope
  <1>7. CASE ClearAll
    <2>1. LedgerOK(EmptyLedger, sequence)
      BY <1>0, EmptyOK
    <2> QED
      BY <1>7, <2>1 DEF ClearAll
  <1>8. CASE UNCHANGED vars
    BY <1>8 DEF vars
  <1> QED
    BY <1>1, <1>2, <1>3, <1>4, <1>5, <1>6, <1>7, <1>8 DEF Next

(* IInv is an invariant of the ledger.                                     *)
THEOREM LedgerInvariant == Spec => []IInv
  <1>1. Init => IInv
    BY EmptyOK, ConstantsAssumption DEF Init, IInv, Instant
  <1> QED
    BY <1>1, IInvStep, PTL DEF Spec

(* IInv is as strong as the type invariant and the four safety invariants  *)
(* of the ledger together.                                                 *)
LEMMA IInvImplies ==
  IInv => /\ TypeOK /\ CapacityBound /\ OneTokenPerValue
          /\ RecencyStrict /\ LabelsMatchClasses
  BY DEF IInv, LedgerOK, LedgerType, LedgerBounded, LedgerUnique,
         LedgerRecency, LedgerLabels, TypeOK, CapacityBound,
         OneTokenPerValue, RecencyStrict, LabelsMatchClasses

(* The ledger map stays well-typed through every method of TokenLedger.    *)
THEOREM TypeCorrect == Spec => []TypeOK
  BY LedgerInvariant, IInvImplies, PTL

(* The ledger never outgrows max_entries (issue_tracked, evict_lru).       *)
THEOREM CapacityHolds == Spec => []CapacityBound
  BY LedgerInvariant, IInvImplies, PTL

(* At most one token per (scope, class, value) (issue_tracked's search).   *)
THEOREM OneTokenPerValueHolds == Spec => []OneTokenPerValue
  BY LedgerInvariant, IInvImplies, PTL

(* last_used_sequence orders the mappings strictly until saturation.       *)
THEOREM RecencyStrictHolds == Spec => []RecencyStrict
  BY LedgerInvariant, IInvImplies, PTL

(* No hard-blocked class in the ledger, and labels name classes.           *)
THEOREM LabelsMatchClassesHold == Spec => []LabelsMatchClasses
  BY LedgerInvariant, IInvImplies, PTL

-----------------------------------------------------------------------------

(* The action of LiveTokenNeverRebound.                                    *)
ReboundStep ==
  \A t \in DOMAIN entries \cap DOMAIN entries' :
    \/ SameBinding(entries'[t], entries[t])
    \/ Expired(t)
    \/ LET P == purge_expired(entries, clock)
       IN  Cardinality(DOMAIN P) >= MaxEntries /\ t \in LruTokens(P)

(* A step of the ledger re-binds no live token but the victim of a full    *)
(* ledger: only issue_tracked binds, all the other methods forget or touch.*)
LEMMA ReboundStepHolds == IInv /\ [Next]_vars => ReboundStep \/ UNCHANGED vars
  <1> SUFFICES ASSUME IInv, Next,
                      NEW t \in DOMAIN entries, t \in DOMAIN entries',
                      ~Expired(t)
               PROVE  \/ SameBinding(entries'[t], entries[t])
                      \/ LET P == purge_expired(entries, clock)
                         IN  /\ Cardinality(DOMAIN P) >= MaxEntries
                             /\ t \in LruTokens(P)
    BY DEF ReboundStep
  <1>0. /\ LedgerOK(entries, sequence) /\ clock \in Instant
        /\ entries[t].expires_at > clock
    <2>1. entries[t] \in Entry
      BY DEF IInv, LedgerOK, LedgerType
    <2> QED
      BY <2>1, ConstantsAssumption DEF IInv, Expired, Entry, Instant
  <1>1. CASE Tick
    BY <1>1 DEF Tick, SameBinding
  <1>2. ASSUME NEW s \in Scopes, NEW c \in Classes, NEW v \in Values,
               NEW ttl \in Ttls, IssueTracked(s, c, v, ttl)
        PROVE  \/ SameBinding(entries'[t], entries[t])
               \/ LET P == purge_expired(entries, clock)
                  IN  /\ Cardinality(DOMAIN P) >= MaxEntries
                      /\ t \in LruTokens(P)
    <2>1. PICK r \in issue_tracked(entries, sequence, s, c, v, clock, ttl) :
            entries' = r.entries
      BY <1>2 DEF IssueTracked
    <2> QED
      BY <1>0, <2>1, IssueEffect
  <1>3. ASSUME NEW s \in Scopes, NEW tokens \in SUBSET DOMAIN entries,
               RollbackCreated(s, tokens)
        PROVE  SameBinding(entries'[t], entries[t])
    BY <1>3, RestrictKeeps DEF RollbackCreated, rollback_created
  <1>4. ASSUME NEW s \in Scopes, NEW u \in Token, NEW now \in 0..clock,
               RestoreExact(s, u, now)
        PROVE  SameBinding(entries'[t], entries[t])
    BY <1>0, <1>4, RestoreEffect DEF RestoreExact
  <1>5. CASE OwnsToken
    BY <1>5, RestrictKeeps DEF OwnsToken, purge_expired
  <1>6. ASSUME NEW s \in Scopes, ClearScope(s)
        PROVE  SameBinding(entries'[t], entries[t])
    BY <1>6, RestrictKeeps DEF ClearScope, clear_scope
  <1>7. CASE ClearAll
    BY <1>7 DEF ClearAll, EmptyLedger
  <1> QED
    BY <1>1, <1>2, <1>3, <1>4, <1>5, <1>6, <1>7 DEF Next

(* issue_tracked never hands a live token to another value, except the one *)
(* it has just evicted from a full ledger.                                 *)
THEOREM LiveTokenNeverReboundHolds == Spec => LiveTokenNeverRebound
  <1>1. IInv /\ [Next]_vars => [ReboundStep]_vars
    BY ReboundStepHolds
  <1>2. Spec => [][ReboundStep]_vars
    BY <1>1, LedgerInvariant, PTL DEF Spec
  <1> QED
    BY <1>2 DEF LiveTokenNeverRebound, ReboundStep

(* The action of OnlyLruEvicted.                                           *)
EvictionStep ==
  sequence' # sequence =>
    \A t \in DOMAIN entries \ DOMAIN entries' :
      \/ Expired(t)
      \/ /\ Cardinality({u \in DOMAIN entries : ~Expired(u)}) >= MaxEntries
         /\ \A u \in DOMAIN entries \ {t} :
              \/ Expired(u)
              \/ /\ u \in DOMAIN entries'
                 /\ entries[t].last_used < entries[u].last_used

(* A step that moves the usage counter takes no live mapping but the one   *)
(* used before all others of a full ledger.  LruTokens only compares with  *)
(* <=; it is strict because the counter has not saturated yet.             *)
LEMMA EvictionStepHolds == IInv /\ [Next]_vars => EvictionStep
  <1> SUFFICES ASSUME IInv, Next, sequence' # sequence,
                      NEW t \in DOMAIN entries, t \notin DOMAIN entries',
                      ~Expired(t)
               PROVE  /\ Cardinality({u \in DOMAIN entries : ~Expired(u)})
                           >= MaxEntries
                      /\ \A u \in DOMAIN entries \ {t} :
                           \/ Expired(u)
                           \/ /\ u \in DOMAIN entries'
                              /\ entries[t].last_used < entries[u].last_used
    BY DEF EvictionStep, vars
  <1> DEFINE P == purge_expired(entries, clock)
  <1>1. /\ LedgerOK(entries, sequence) /\ clock \in Instant
        /\ sequence \in 0..MaxSequence
    BY DEF IInv, LedgerOK
  <1>2. \A u \in DOMAIN entries :
          /\ entries[u].expires_at \in Instant
          /\ entries[u].last_used \in 0..MaxSequence
          /\ entries[u].last_used <= sequence
    BY <1>1 DEF LedgerOK, LedgerType, LedgerRecency, Entry
  <1>3. \A u \in DOMAIN entries : ~Expired(u) <=> entries[u].expires_at > clock
    BY <1>1, <1>2, ConstantsAssumption DEF Expired, Instant
  <1>4. DOMAIN P = {u \in DOMAIN entries : ~Expired(u)}
    <2>1. DOMAIN P = {u \in DOMAIN entries : entries[u].expires_at > clock}
      BY PurgeDomain
    <2> QED
      BY <1>3, <2>1
  <1>5. \A u \in DOMAIN P : P[u] = entries[u]
    BY <1>1, PurgeOK
  <1>6. ASSUME NEW s \in Scopes, NEW c \in Classes, NEW v \in Values,
               NEW ttl \in Ttls, IssueTracked(s, c, v, ttl)
        PROVE  /\ sequence < MaxSequence
               /\ Cardinality(DOMAIN P) >= MaxEntries
               /\ t \in LruTokens(P)
               /\ DOMAIN P \ {t} \subseteq DOMAIN entries'
    <2>1. PICK r \in issue_tracked(entries, sequence, s, c, v, clock, ttl) :
            entries' = r.entries /\ sequence' = r.sequence
      BY <1>6 DEF IssueTracked
    <2>2. entries[t].expires_at > clock
      BY <1>3
    <2>3. /\ Cardinality(DOMAIN P) >= MaxEntries
          /\ t \in LruTokens(P)
          /\ DOMAIN P \ {t} \subseteq DOMAIN entries'
      BY <1>1, <2>1, <2>2, IssueEffect
    <2>4. r.sequence \in {sequence, Saturate(sequence)}
      BY DEF issue_tracked, IssueHeld, IssueNew, Result
    <2>5. sequence < MaxSequence
      BY <1>1, <2>1, <2>4, ConstantsAssumption DEF Saturate
    <2> QED
      BY <2>3, <2>5
  <1>7. ASSUME NEW s \in Scopes, NEW u \in Token, NEW now \in 0..clock,
               RestoreExact(s, u, now)
        PROVE  FALSE
    <2>1. entries[t].expires_at > now
      BY <1>1, <1>2, <1>3, ConstantsAssumption DEF Instant
    <2>2. entries' = restore_exact(entries, sequence, s, u, now)
      BY <1>7 DEF RestoreExact
    <2>3. t \in DOMAIN restore_exact(entries, sequence, s, u, now)
      BY <1>1, <2>1, RestoreEffect
    <2> QED
      BY <2>2, <2>3
  <1>8. /\ sequence < MaxSequence
        /\ Cardinality(DOMAIN P) >= MaxEntries
        /\ t \in LruTokens(P)
        /\ DOMAIN P \ {t} \subseteq DOMAIN entries'
    BY <1>6, <1>7
       DEF Next, Tick, RollbackCreated, OwnsToken, ClearScope, ClearAll
  <1>9. ASSUME NEW u \in DOMAIN entries \ {t}, ~Expired(u)
        PROVE  entries[t].last_used < entries[u].last_used
    <2>1. t \in DOMAIN P /\ u \in DOMAIN P
      BY <1>4, <1>9
    <2>2. entries[t].last_used <= entries[u].last_used
      BY <1>5, <1>8, <2>1 DEF LruTokens
    <2>3. entries[t].last_used = entries[u].last_used
            => entries[t].last_used = MaxSequence
      BY <1>1 DEF LedgerOK, LedgerRecency
    <2> QED
      BY <1>1, <1>2, <1>8, <2>2, <2>3, ConstantsAssumption
  <1> QED
    BY <1>4, <1>8, <1>9

(* issue_tracked and restore_exact forget at most one unexpired mapping,   *)
(* from a full ledger, and every survivor was used after it.               *)
THEOREM OnlyLruEvictedHolds == Spec => OnlyLruEvicted
  <1>1. IInv /\ [Next]_vars => [EvictionStep]_vars
    BY EvictionStepHolds
  <1>2. Spec => [][EvictionStep]_vars
    BY <1>1, LedgerInvariant, PTL DEF Spec
  <1> QED
    BY <1>2 DEF OnlyLruEvicted, EvictionStep

=============================================================================
