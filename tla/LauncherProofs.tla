--------------------------- MODULE LauncherProofs ---------------------------
(***************************************************************************)
(* Proofs about the launcher, for any policy file and any number of        *)
(* requests in flight: what is served can be enforced, Codex has its       *)
(* gateway, and success means a clean end.                                 *)
(*                                                                         *)
(* None of these is inductive alone.  LInv says for each stage of the      *)
(* command which checks are behind it and what the child and the gateway   *)
(* task can be doing meanwhile.                                            *)
(***************************************************************************)
EXTENDS Launcher, TLAPS

Starting == {"arguments", "preflight", "policy", "session", "bind"}
Ended == {"ended", "failed", "aborted"}
Leaving == {"drop_child", "drop_gateway", "end_main"}

LType ==
  /\ cmd \in Commands
  /\ stage \in Starting \cup {"router", "spawn", "waiting", "stopping",
                              "reaping", "exited"} \cup Leaving
  /\ gateway \in {"none", "bound", "serving", "draining"} \cup Ended
  /\ codex \in {"none", "running", "succeeded", "failed", "killed"}
  /\ inflight \in Nat
  /\ exit \in {"none", "ok", "error", "killed"}

\* The checks behind each stage.
Checked ==
  /\ stage \notin {"arguments", "preflight", "policy", "exited"} \cup Leaving
       => validate(policy)
  /\ gateway \notin {"none", "bound"} => validate(policy) /\ RouterAccepts

\* The gateway task at each stage, and its requests.
GatewayAt ==
  /\ stage \in Starting \cup {"exited"} => gateway = "none"
  /\ stage = "router" => gateway = "bound"
  /\ stage \in {"spawn", "waiting", "stopping", "reaping"}
       => gateway \notin {"none", "bound"}
  /\ stage = "reaping" => gateway = "failed"
  /\ gateway = "aborted" => stage \in Leaving
  /\ stage = "end_main" => gateway \notin {"bound", "serving"}
  /\ stage \in {"spawn", "waiting"} /\ cmd.command = "codex"
       => gateway \in {"serving", "failed"}
  /\ gateway \in {"none", "bound", "ended"} => inflight = 0

\* The child at each stage.
CodexAt ==
  /\ stage \in Starting \cup {"router", "spawn"} => codex = "none"
  /\ stage = "stopping" => codex \in {"succeeded", "failed"}
  /\ stage \in {"reaping", "drop_gateway", "end_main"} => codex # "running"
  /\ stage = "drop_child" /\ codex = "running" => gateway \in {"serving", "failed"}
  /\ cmd.command = "serve" => codex = "none" /\ stage # "spawn"
  /\ stage = "exited" => codex # "running" \/ exit = "killed"

LInv ==
  /\ LType /\ Checked /\ GatewayAt /\ CodexAt
  /\ stage \in Leaving \cup {"exited"} <=> exit # "none"

-----------------------------------------------------------------------------

\* Returning, from anywhere: a child that still runs was being waited for, so
\* its gateway serves, or has failed unnoticed.
LEMMA ReturnStep ==
  ASSUME LInv, NEW result \in {"ok", "error"}, Return(result), UNCHANGED inputs,
         stage \notin Leaving \cup {"exited"}
  PROVE  LInv'
<1> USE DEF LInv, Return, inputs, Leaving
<1>1. LType' BY DEF LType
<1>2. Checked'
  BY DEF Checked, RouterAccepts, audit_open, ensure_private_directory
<1>3. GatewayAt' BY DEF GatewayAt, LType, Starting
<1>4. CodexAt' BY DEF CodexAt, GatewayAt, LType, Starting, Ended, Commands
<1> QED BY <1>1, <1>2, <1>3, <1>4

\* What is dropped, in its order.
LEMMA DropStep ==
  ASSUME LInv, DropChild \/ DropGateway \/ EndMain
  PROVE  LInv'
<1> USE DEF LInv, LType, Checked, GatewayAt, CodexAt, inputs, Starting, Ended,
            Leaving, RouterAccepts, audit_open, ensure_private_directory
<1>1. CASE DropChild
  BY <1>1 DEF DropChild
<1>2. CASE DropGateway
  BY <1>2 DEF DropGateway
<1>3. CASE EndMain
  BY <1>3 DEF EndMain
<1> QED BY <1>1, <1>2, <1>3

\* A check that passes moves on, one that fails leaves.
LEMMA CheckStep ==
  ASSUME LInv, NEW at \in Starting, NEW ok,
         NEW next \in Starting \cup {"router"}, Check(at, ok, next),
         next = "router" => ~ok,
         at \in {"session", "bind"} \/ (at = "policy" /\ ok => validate(policy)),
         at \in {"arguments", "preflight"} => next \in {"preflight", "policy"}
  PROVE  LInv'
<1>1. CASE ok
  BY <1>1 DEF Check, Proceed, LInv, LType, Checked, GatewayAt, CodexAt, inputs,
     Starting, Ended, Leaving, RouterAccepts, audit_open, ensure_private_directory
<1>2. CASE ~ok
  BY <1>2, ReturnStep DEF Check, Starting, Leaving
<1> QED BY <1>1, <1>2

\* The steps of the command.
LEMMA LaunchStep ==
  ASSUME LInv, Launch
  PROVE  LInv'
<1> USE DEF LInv, LType, Checked, GatewayAt, CodexAt, inputs, Starting, Ended, Leaving,
            RouterAccepts, audit_open, ensure_private_directory
<1>1. CASE CheckArguments
  BY <1>1, CheckStep DEF CheckArguments
<1>2. CASE Preflight
  BY <1>2, CheckStep DEF Preflight
<1>3. CASE LoadPolicy
  BY <1>3, CheckStep DEF LoadPolicy
<1>4. CASE OpenSession
  BY <1>4, CheckStep DEF OpenSession
<1>5. CASE Bind
  BY <1>5 DEF Bind
<1>6. CASE BuildRouter
  <2>1. CASE RouterAccepts
    BY <1>6, <2>1 DEF BuildRouter, Commands
  <2>2. CASE ~RouterAccepts
    BY <1>6, <2>2, ReturnStep DEF BuildRouter
  <2> QED BY <2>1, <2>2
<1>7. CASE SpawnCodex
  BY <1>7 DEF SpawnCodex
<1>8. CASE ChildExited
  BY <1>8 DEF ChildExited
<1>9. CASE GatewayStopped
  BY <1>9 DEF GatewayStopped
<1>10. CASE Reap \/ GatewayEnded \/ ServeEnded
  BY <1>10, ReturnStep DEF Reap, GatewayEnded, ServeEnded
<1> QED BY <1>1, <1>2, <1>3, <1>4, <1>5, <1>6, <1>7, <1>8, <1>9, <1>10, DropStep
  DEF Launch

\* Failures, signals, and what the gateway task and the child do.
LEMMA OtherStep ==
  ASSUME LInv,
         \/ GraceExpires \/ Failures \/ Request \/ RequestEnds
         \/ GatewayDrained \/ CodexEnds
  PROVE  LInv'
<1> USE DEF LInv, LType, Checked, GatewayAt, CodexAt, inputs, Starting, Ended, Leaving,
            RouterAccepts, audit_open, ensure_private_directory
<1>1. CASE GraceExpires
  BY <1>1 DEF GraceExpires
<1>2. CASE ReadPolicyFails \/ RandomFails \/ BindFails \/ SpawnFails \/ WaitFails
  BY <1>2, ReturnStep DEF ReadPolicyFails, RandomFails, BindFails, SpawnFails,
     WaitFails, Check
<1>3. CASE GatewayFails
  BY <1>3 DEF GatewayFails
<1>4. CASE InterruptServe
  BY <1>4 DEF InterruptServe
<1>5. CASE InterruptCodex
  BY <1>5 DEF InterruptCodex
<1>6. CASE Request \/ RequestEnds
  BY <1>6 DEF Request, RequestEnds
<1>7. CASE GatewayDrained
  BY <1>7 DEF GatewayDrained
<1>8. CASE CodexEnds
  BY <1>8 DEF CodexEnds
<1> QED BY <1>1, <1>2, <1>3, <1>4, <1>5, <1>6, <1>7, <1>8 DEF Failures

-----------------------------------------------------------------------------

\* What each stage of codex and serve has behind it, on every way through.
THEOREM LauncherInvariant == Spec => []LInv
<1>1. Init => LInv
  BY DEF Init, LInv, LType, Checked, GatewayAt, CodexAt, Starting, Ended, Leaving
<1>2. LInv /\ [Next]_vars => LInv'
  <2>1. LInv /\ UNCHANGED vars => LInv'
    BY DEF vars, LInv, LType, Checked, GatewayAt, CodexAt, RouterAccepts,
           audit_open, ensure_private_directory
  <2> QED BY <2>1, LaunchStep, OtherStep DEF Next
<1> QED BY <1>1, <1>2, PTL DEF Spec

\* build_router serves only a validated policy, one the engine can index and
\* the ledger can issue under, on loopback, and never the demo policy or
\* restoration against the live upstream.
THEOREM ServedPolicyEnforceableHolds == Spec => []ServedPolicyEnforceable
<1>1. LInv => ServedPolicyEnforceable
  <2> SUFFICES ASSUME LInv, gateway \in {"serving", "draining"}
               PROVE  ServedPolicyEnforceable
    BY DEF ServedPolicyEnforceable
  <2>1. validate(policy) /\ RouterAccepts
    BY DEF LInv, Checked
  <2>2. ASSUME NEW class \in AllDataClasses
        PROVE  Enforceable(class, policy.categories[class])
    <3>1. validate_rule(class, policy.categories[class])
      BY <2>1 DEF validate
    <3> QED BY <3>1 DEF validate_rule, Enforceable
  <2>3. policy.ledger_max_entries \in 1..MaxLedgerEntries
    BY <2>1 DEF validate
  <2> QED BY <2>1, <2>2, <2>3 DEF ServedPolicyEnforceable, RouterAccepts
<1> QED BY <1>1, LauncherInvariant, PTL

\* launch_codex kills the child before it reports that the gateway stopped, and
\* by kill_on_drop before the gateway's sender is dropped, on every early return.
THEOREM CodexNeedsGatewayHolds == Spec => []CodexNeedsGateway
<1>1. LInv => CodexNeedsGateway
  BY DEF LInv, LType, GatewayAt, CodexAt, CodexNeedsGateway, Starting,
     Leaving, Commands
<1> QED BY <1>1, LauncherInvariant, PTL

\* The action of SuccessIsClean.
CleanStep ==
  exit = "none" /\ exit' = "ok" =>
    /\ inflight = 0
    /\ gateway = "ended"
    /\ cmd.command = "codex" => codex = "succeeded"

\* The exit status is a success only after a graceful shutdown that had waited
\* for every request, and with codex only if the child succeeded.
THEOREM SuccessIsCleanHolds == Spec => SuccessIsClean
<1>1. LInv /\ [Next]_vars => [CleanStep]_vars
  <2> SUFFICES ASSUME LInv, Next, exit = "none", exit' = "ok"
               PROVE  /\ inflight = 0
                      /\ gateway = "ended"
                      /\ cmd.command = "codex" => codex = "succeeded"
    BY DEF CleanStep
  <2>1. GatewayEnded \/ ServeEnded
    BY DEF Next, Launch, Failures, CheckArguments, Preflight, LoadPolicy,
       OpenSession, Bind, BuildRouter, SpawnCodex, ChildExited, GatewayStopped,
       Reap, GraceExpires, ReadPolicyFails, RandomFails, BindFails, SpawnFails,
       WaitFails, GatewayFails, InterruptServe, InterruptCodex, Request,
       RequestEnds, GatewayDrained, CodexEnds, DropChild, DropGateway, EndMain,
       Check, Proceed, Return
  <2>2. gateway = "ended" /\ (cmd.command = "codex" => codex = "succeeded")
    BY <2>1 DEF GatewayEnded, ServeEnded, Return
  <2> QED BY <2>2 DEF LInv, GatewayAt
<1> QED BY <1>1, LauncherInvariant, PTL DEF Spec, SuccessIsClean, CleanStep

=============================================================================
