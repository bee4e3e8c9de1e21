------------------------------ MODULE Launcher ------------------------------
(***************************************************************************)
(* One run of the agentveil command (main.rs): `codex`, which starts a     *)
(* gateway task and a Codex child behind it, and `serve`, which is only    *)
(* the gateway.  The launcher goes through its checks in order and leaves  *)
(* at the first that fails; then the launcher, the gateway task, the child *)
(* and the requests in flight run concurrently until one of them ends.     *)
(*                                                                         *)
(* What the command finds (its arguments, the policy file, the installed   *)
(* Codex, the audit path, the environment) is chosen in the initial state. *)
(***************************************************************************)
EXTENDS PolicyOps

CONSTANTS Policies,      \* contents the policy file may have
          MaxInFlight    \* bound on concurrent requests

VARIABLES cmd,           \* the command line
          host,          \* what the machine offers
          policy,        \* the policy file
          stage,         \* where the launcher is
          gateway,       \* the gateway task and its listener
          codex,         \* the child process
          inflight,      \* requests being handled
          exit           \* how the command ended

vars == <<cmd, host, policy, stage, gateway, codex, inflight, exit>>
inputs == <<cmd, host, policy>>

Commands ==
  [command : {"codex"}, model : {"supported", "other"},
   args : {"plain", "routing"}, bind : {"loopback", "public"},
   upstream : {"openai"}, restore : {FALSE}]
  \union
  \* clap: restore_display_text requires test_upstream
  {c \in [command : {"serve"}, model : {"supported"}, args : {"plain"},
          bind : {"loopback", "public"}, upstream : {"openai", "loopback", "remote"},
          restore : BOOLEAN] : c.restore => c.upstream # "openai"}

Hosts == [codex : {"missing", "unready", "ready"},
          audit : {"absent", "private", "shared", "unsafe"},
          session : {"good", "absent", "weak"}]

Init ==
  /\ cmd \in Commands
  /\ policy \in Policies
  /\ host \in Hosts
  /\ stage = "arguments"
  /\ gateway = "none"
  /\ codex = "none"
  /\ inflight = 0
  /\ exit = "none"

-----------------------------------------------------------------------------
(* Leaving *)

\* An early return, or the last one: what run still holds is dropped next, and
\* until then child, gateway task and requests go on.
Return(result) ==
  /\ stage' = "drop_child"
  /\ exit' = result
  /\ UNCHANGED <<gateway, codex, inflight>>

\* The child was spawned last and is dropped first: kill_on_drop.
DropChild ==
  /\ stage = "drop_child"
  /\ stage' = "drop_gateway"
  /\ codex' = IF codex = "running" THEN "killed" ELSE codex
  /\ UNCHANGED <<gateway, inflight, exit, inputs>>

\* A dropped sender wakes the receiver, so a gateway that still serves begins
\* its shutdown; its handle is only detached.  A listener without a task closes.
DropGateway ==
  /\ stage = "drop_gateway"
  /\ stage' = "end_main"
  /\ gateway' = CASE gateway = "serving" -> "draining"
                  [] gateway = "bound"   -> "none"
                  [] OTHER               -> gateway
  /\ UNCHANGED <<codex, inflight, exit, inputs>>

\* main returns: the tasks of its runtime end where they are.
EndMain ==
  /\ stage = "end_main"
  /\ stage' = "exited"
  /\ gateway' = "none"
  /\ inflight' = 0
  /\ UNCHANGED <<codex, exit, inputs>>

Proceed(next) ==
  /\ stage' = next
  /\ UNCHANGED <<gateway, codex, inflight, exit>>

\* A step that either goes on or is the early return of an error.
Check(at, ok, next) ==
  /\ stage = at
  /\ IF ok THEN Proceed(next) ELSE Return("error")
  /\ UNCHANGED inputs

-----------------------------------------------------------------------------
(* Starting *)

supported_model == cmd.model = "supported"

reject_routing_overrides == cmd.args = "plain"

CheckArguments ==
  Check("arguments",
        cmd.command = "codex" =>
          supported_model /\ reject_routing_overrides /\ cmd.bind = "loopback",
        IF cmd.command = "codex" THEN "preflight" ELSE "policy")

\* An executable that is not in the workspace.
resolve_codex == host.codex # "missing"

\* Of the verified version, and logged in.
preflight_codex == host.codex = "ready"

Preflight == Check("preflight", resolve_codex /\ preflight_codex, "policy")

LoadPolicy == Check("policy", validate(policy), "session")

ReadPolicyFails == Check("policy", FALSE, "session")

validate_loopback_test_url == cmd.upstream # "remote"

\* serve takes its secrets from the environment and parses its upstream; codex
\* draws its own.
OpenSession ==
  Check("session",
        cmd.command = "serve" =>
          host.session # "absent" /\ validate_loopback_test_url,
        "bind")

RandomFails == cmd.command = "codex" /\ Check("session", FALSE, "bind")

Bind ==
  /\ stage = "bind"
  /\ stage' = "router"
  /\ gateway' = "bound"
  /\ UNCHANGED <<codex, inflight, exit, inputs>>

BindFails == Check("bind", FALSE, "router")

\* An absent directory is created, a shared one is refused.
ensure_private_directory == host.audit # "shared"

\* The audit file is opened, or created, where only the user can read it.
audit_open == ensure_private_directory /\ host.audit # "unsafe"

\* build_router: address, session token, restoration and demo policy against
\* the live upstream, and the audit file.
RouterAccepts ==
  /\ cmd.bind = "loopback"
  /\ cmd.command = "serve" => host.session = "good"
  /\ cmd.restore => cmd.upstream # "openai"
  /\ policy.name = "demo" => cmd.upstream # "openai"
  /\ audit_open

BuildRouter ==
  /\ stage = "router"
  /\ IF RouterAccepts
     THEN /\ stage' = IF cmd.command = "codex" THEN "spawn" ELSE "waiting"
          /\ gateway' = "serving"
          /\ UNCHANGED <<codex, inflight, exit>>
     ELSE Return("error")
  /\ UNCHANGED inputs

SpawnCodex ==
  /\ stage = "spawn"
  /\ stage' = "waiting"
  /\ codex' = "running"
  /\ UNCHANGED <<gateway, inflight, exit, inputs>>

SpawnFails == Check("spawn", FALSE, "waiting")

-----------------------------------------------------------------------------
(* Waiting for the child, or for the gateway *)

\* child.wait() comes first: the gateway is told to shut down.
ChildExited ==
  /\ stage = "waiting"
  /\ codex \in {"succeeded", "failed"}
  /\ stage' = "stopping"
  /\ gateway' = IF gateway = "serving" THEN "draining" ELSE gateway
  /\ UNCHANGED <<codex, inflight, exit, inputs>>

WaitFails == cmd.command = "codex" /\ Check("waiting", FALSE, "stopping")

\* The gateway's failure is reported without a look at the child.
GatewayStoppedBug ==
  /\ stage = "waiting"
  /\ gateway = "failed"
  /\ cmd.command = "codex"
  /\ stage' = "reaping"
  /\ UNCHANGED <<gateway, codex, inflight, exit, inputs>>

\* The gateway task ends first: the child is killed before the error is told.
GatewayStopped ==
  /\ stage = "waiting"
  /\ gateway = "failed"
  /\ cmd.command = "codex"
  /\ stage' = "reaping"
  /\ codex' = IF codex = "running" THEN "killed" ELSE codex
  /\ UNCHANGED <<gateway, inflight, exit, inputs>>

\* child.wait() after start_kill
Reap ==
  /\ stage = "reaping"
  /\ codex # "running"
  /\ Return("error")
  /\ UNCHANGED inputs

\* The child's status is not looked at.
GatewayEndedBug ==
  /\ stage = "stopping"
  /\ gateway \in {"ended", "failed"}
  /\ Return(IF gateway = "ended" THEN "ok" ELSE "error")
  /\ UNCHANGED inputs

GatewayEnded ==
  /\ stage = "stopping"
  /\ gateway \in {"ended", "failed"}
  /\ Return(IF gateway = "ended" /\ codex = "succeeded" THEN "ok" ELSE "error")
  /\ UNCHANGED inputs

\* The shutdown is awaited without a timeout.
GraceExpiresBug == FALSE

\* tokio::time::timeout of five seconds, then abort: axum runs a connection as
\* a task of its own, so the requests are left until main ends.
GraceExpires ==
  /\ stage = "stopping"
  /\ gateway = "draining"
  /\ stage' = "drop_child"
  /\ gateway' = "aborted"
  /\ exit' = "error"
  /\ UNCHANGED <<codex, inflight, inputs>>

\* serve waits for its own listener only.
ServeEnded ==
  /\ cmd.command = "serve"
  /\ stage = "waiting"
  /\ gateway \in {"ended", "failed"}
  /\ Return(IF gateway = "ended" THEN "ok" ELSE "error")
  /\ UNCHANGED inputs

-----------------------------------------------------------------------------
(* The gateway task, the child and the terminal *)

Request ==
  /\ gateway = "serving"
  /\ cmd.command = "codex" => codex = "running"
  /\ inflight < MaxInFlight
  /\ inflight' = inflight + 1
  /\ UNCHANGED <<stage, gateway, codex, exit, inputs>>

RequestEnds ==
  /\ inflight > 0
  /\ inflight' = inflight - 1
  /\ UNCHANGED <<stage, gateway, codex, exit, inputs>>

GatewayFails ==
  /\ gateway \in {"serving", "draining"}
  /\ gateway' = "failed"
  /\ UNCHANGED <<stage, codex, inflight, exit, inputs>>

\* with_graceful_shutdown waits for the connections.
GatewayDrained ==
  /\ gateway = "draining"
  /\ inflight = 0
  /\ gateway' = "ended"
  /\ UNCHANGED <<stage, codex, inflight, exit, inputs>>

CodexEnds ==
  /\ codex = "running"
  /\ codex' \in {"succeeded", "failed"}
  /\ UNCHANGED <<stage, gateway, inflight, exit, inputs>>

\* Ctrl-C: serve listens for it (shutdown_signal) and drains.
InterruptServe ==
  /\ cmd.command = "serve"
  /\ stage = "waiting"
  /\ gateway = "serving"
  /\ gateway' = "draining"
  /\ UNCHANGED <<stage, codex, inflight, exit, inputs>>

\* codex installs no handler: the launcher dies as it is, and nothing is
\* dropped; the child lives until it ends by itself.
InterruptCodex ==
  /\ cmd.command = "codex"
  /\ stage # "exited"
  /\ stage' = "exited"
  /\ exit' = "killed"
  /\ gateway' = "none"
  /\ inflight' = 0
  /\ UNCHANGED <<codex, inputs>>

-----------------------------------------------------------------------------

Launch ==
  \/ CheckArguments \/ Preflight \/ LoadPolicy \/ OpenSession \/ Bind
  \/ BuildRouter \/ SpawnCodex \/ ChildExited \/ GatewayStopped \/ Reap
  \/ GatewayEnded \/ ServeEnded \/ DropChild \/ DropGateway \/ EndMain

Failures ==
  \/ ReadPolicyFails \/ RandomFails \/ BindFails \/ SpawnFails \/ WaitFails
  \/ GatewayFails \/ InterruptServe \/ InterruptCodex

Next ==
  Launch \/ GraceExpires \/ Failures \/ Request \/ RequestEnds
  \/ GatewayDrained \/ CodexEnds

Spec == Init /\ [][Next]_vars

\* The launcher's own steps are never postponed for ever and five seconds do
\* pass.  Nothing is asked of Codex, of its requests or of the gateway task.
FairSpec == Spec /\ WF_vars(Launch) /\ WF_vars(GraceExpires)

-----------------------------------------------------------------------------
(* Properties *)

\* A rule the engine can act on.
Enforceable(class, rule) ==
  /\ hard_block(class) => rule.action = "block"
  /\ rule.action = "tokenize" =>
       ~hard_block(class) /\ EffectiveTtl(rule) \in 1..MaxRestorationTtl

\* What serves can be enforced.  The engine indexes the categories without a
\* fallback and issues tokens with the rule's TTL: every class has a rule, a
\* hard class is blocked, and a tokenized class is one the ledger accepts, with
\* a TTL it can add to any instant; the live upstream meets neither the demo
\* policy nor restoration, on a loopback listener only.
ServedPolicyEnforceable ==
  gateway \in {"serving", "draining"} =>
    /\ \A class \in AllDataClasses : Enforceable(class, policy.categories[class])
    /\ policy.ledger_max_entries \in 1..MaxLedgerEntries
    /\ cmd.upstream = "openai" => policy.name # "demo" /\ ~cmd.restore
    /\ cmd.bind = "loopback"

\* Codex never runs without a gateway to talk to: if the gateway stops first,
\* Codex is killed before it is reaped, and on every early return, of a failed
\* wait included, it is killed before the gateway is told to stop.  (A launcher
\* that dies by a signal takes the gateway along and leaves Codex.)
CodexNeedsGateway ==
  codex = "running" =>
    \/ gateway = "serving"
    \/ gateway = "failed" /\ stage \in {"waiting", "drop_child"}
    \/ exit = "killed"

\* Success says that Codex succeeded and that the gateway had finished every
\* request: none was cut by the exit.
SuccessIsClean ==
  [][exit = "none" /\ exit' = "ok" =>
       /\ inflight = 0
       /\ gateway = "ended"
       /\ cmd.command = "codex" => codex = "succeeded"]_vars

\* docs/ARCHITECTURE.md:63: the launcher "shuts the gateway down after Codex
\* exits, with a bounded grace period", however long a request hangs; nor does
\* it outlive a gateway that failed.
LauncherEnds ==
  (codex \in {"succeeded", "failed", "killed"} \/ gateway = "failed")
    ~> stage = "exited"

=============================================================================
