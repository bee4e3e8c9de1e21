------------------------------ MODULE EgressGate ------------------------------
(***************************************************************************)
(* What the gateway promises about egress, without saying how: a request   *)
(* body is sent at most once, only while the request is still being        *)
(* served, and only after a complete pending record of it is in the audit  *)
(* log; records are never taken back.                                      *)
(***************************************************************************)
CONSTANT Reqs

VARIABLES
  recorded,   \* requests with a complete pending record
  sent,       \* requests whose body has left
  closed      \* requests that are over: refused, answered, or abandoned

gate == <<recorded, sent, closed>>

Init == recorded = {} /\ sent = {} /\ closed = {}

Record(r) ==
  /\ r \notin recorded \cup closed
  /\ recorded' = recorded \cup {r}
  /\ UNCHANGED <<sent, closed>>

Send(r) ==
  /\ r \in recorded \ (sent \cup closed)
  /\ sent' = sent \cup {r}
  /\ UNCHANGED <<recorded, closed>>

Close(r) ==
  /\ r \notin closed
  /\ closed' = closed \cup {r}
  /\ UNCHANGED <<recorded, sent>>

(* A crash ends several requests at once; the record one of them was       *)
(* writing may have become complete.                                       *)
Fail(S, R) ==
  /\ R \subseteq S /\ S \cap closed = {}
  /\ closed' = closed \cup S
  /\ recorded' = recorded \cup R
  /\ UNCHANGED sent

Next ==
  \/ \E r \in Reqs : Record(r) \/ Send(r) \/ Close(r)
  \/ \E S \in SUBSET Reqs : \E R \in SUBSET S : Fail(S, R)

Spec == Init /\ [][Next]_gate

=============================================================================
