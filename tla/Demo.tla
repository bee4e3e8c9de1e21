-------------------------------- MODULE Demo --------------------------------
(***************************************************************************)
(* The synthetic demonstrations (src/demo.rs): `demo`, `demo --check`,     *)
(* `codex-demo` and `codex-demo --check`.  Each starts a capturing fake    *)
(* upstream and a gateway in front of it, and sends requests through both: *)
(* a scripted client does in three of them, the Codex child in the fourth. *)
(* What the fake upstream sees decides the wire proof, the sticky flag the *)
(* dashboard shows (SyntheticWireProof of src/gateway.rs).                 *)
(*                                                                         *)
(* A check is worth what it catches, so the gateway may be wrong: it may   *)
(* block or forward any request, with originals left in, tokens lost, or a *)
(* header it should have removed, and answer what it likes.  Of two things *)
(* it is taken to be incapable: it sends the upstream one request for one  *)
(* of the client, and answers a request it has sent only after the         *)
(* upstream has.  What a body holds is what the checks can see of it: that *)
(* run_checks looks for raw bytes, and no encoded form, is left out.       *)
(*                                                                         *)
(* A request holds some of "secret" (a credential), "original" (the email  *)
(* and the address to tokenize) and "tokens" (it is JSON, with one token   *)
(* for each).                                                              *)
(*                                                                         *)
(* A definition whose name ends in "Bug" is a faulty variant of the one    *)
(* that follows it.  Nothing uses it: it is what that operation would be   *)
(* with one plausible mistake, kept to show that a property notices it.    *)
(***************************************************************************)
EXTENDS Integers, Sequences, FiniteSets

CONSTANTS
  Slots,          \* requests that may be in flight at once
  MaxCodexWire    \* bound on the requests of Codex that reach the upstream

ASSUME DemoAssumption == Slots # {} /\ MaxCodexWire \in Nat

VARIABLES
  command,    \* which demonstration
  stage,      \* where the command is
  step,       \* the step of the check script
  server,     \* the two server tasks
  codex,      \* the child
  runtime,    \* the private runtime directory: "absent", "present", or "stuck"
              \* once the file system refused to remove it
  proof,      \* the wire proof
  wire,       \* the requests the fake upstream received
  req,        \* the requests in flight
  outcome,    \* what the command will return
  exit        \* how it ended

traffic == <<proof, wire, req>>
vars == <<command, stage, step, server, codex, runtime, proof, wire, req,
          outcome, exit>>

WithCodexFixture == command \in {"codex_demo", "codex_check"}

NoRequest == [at |-> "none", holds |-> {}, index |-> 0]

Init ==
  /\ command \in {"demo", "demo_check", "codex_demo", "codex_check"}
  /\ stage = "root"
  /\ step = 1
  /\ server = [gateway |-> "none", fake |-> "none"]
  /\ codex = "none"
  /\ runtime = "absent"
  /\ proof = "not_measured"
  /\ wire = <<>>
  /\ req = [r \in Slots |-> NoRequest]
  /\ outcome = "none"
  /\ exit = "none"

-----------------------------------------------------------------------------
(* The wire proof *)

mark_passedBug(p) == "passed"   \* a store instead of compare_exchange

mark_passed(p) == IF p = "not_measured" THEN "passed" ELSE p

mark_failed(p) == "failed"

-----------------------------------------------------------------------------
(* Leaving *)

\* remove_dir_all, in the two drops, in cleanup and in new; it may fail, and a
\* later try may still succeed.
Removed(directory) ==
  IF directory = "absent" THEN {"absent"} ELSE {"absent", "stuck"}

\* An early return, or the last one: what the command still holds is dropped
\* next, latest first.
Return(result) ==
  /\ stage' = "drop_servers"
  /\ outcome' = result

\* A dropped sender wakes the receiver, so a server that still serves begins
\* its shutdown; its handle is only detached.
DropServers ==
  /\ stage = "drop_servers"
  /\ stage' = "drop_child"
  /\ server' = [s \in DOMAIN server |->
                  IF server[s] = "serving" THEN "draining" ELSE server[s]]
  /\ UNCHANGED <<command, step, codex, runtime, traffic, outcome, exit>>

\* kill_on_drop
DropChild ==
  /\ stage = "drop_child"
  /\ stage' = "drop_runtime"
  /\ codex' = IF codex = "running" THEN "killed" ELSE codex
  /\ UNCHANGED <<command, step, server, runtime, traffic, outcome, exit>>

\* RuntimeGuard::drop, CodexDemoRuntime::drop
DropRuntime ==
  /\ stage = "drop_runtime"
  /\ stage' = "end_main"
  /\ runtime' \in Removed(runtime)
  /\ UNCHANGED <<command, step, server, codex, traffic, outcome, exit>>

\* main returns: the tasks of its runtime end where they are.
EndMain ==
  /\ stage = "end_main"
  /\ stage' = "exited"
  /\ exit' = outcome
  /\ server' = [s \in DOMAIN server |-> "none"]
  /\ req' = [r \in Slots |-> NoRequest]
  /\ UNCHANGED <<command, step, codex, runtime, proof, wire, outcome>>

\* Both shutdown signals are sent; then each task is awaited in turn.
StopServers(result) ==
  /\ stage' = "stop_gateway"
  /\ outcome' = result
  /\ server' = [s \in DOMAIN server |->
                  IF server[s] = "serving" THEN "draining" ELSE server[s]]

-----------------------------------------------------------------------------
(* Starting *)

\* demo has a guard but only a path yet: the audit sink makes the directory.
\* CodexDemoRuntime::new makes the root before there is a guard for it.
MakeRoot ==
  /\ stage = "root"
  /\ IF WithCodexFixture THEN stage' = "fill" /\ runtime' = "present"
     ELSE stage' = "servers" /\ UNCHANGED runtime
  /\ UNCHANGED <<command, step, server, codex, traffic, outcome, exit>>

\* Randomness, the pinned Codex, or the root itself: there is nothing to drop.
MakeRootFails ==
  /\ stage = "root"
  /\ stage' = "end_main"
  /\ outcome' = "error"
  /\ UNCHANGED <<command, step, server, codex, runtime, traffic, exit>>

FillRoot ==
  /\ stage = "fill"
  /\ stage' = "servers"
  /\ UNCHANGED <<command, step, server, codex, runtime, traffic, outcome, exit>>

FillFailsBug ==   \* the root is left to a guard that does not exist yet
  /\ stage = "fill"
  /\ stage' = "end_main"
  /\ outcome' = "error"
  /\ UNCHANGED <<command, step, server, codex, runtime, traffic, exit>>

\* A subdirectory or the catalog could not be made: new removes the root.
FillFails ==
  /\ stage = "fill"
  /\ stage' = "end_main"
  /\ outcome' = "error"
  /\ runtime' \in Removed(runtime)
  /\ UNCHANGED <<command, step, server, codex, traffic, exit>>

StartServers ==
  /\ stage = "servers"
  /\ stage' = IF command = "codex_demo" THEN "spawn" ELSE "check"
  /\ server' = [s \in DOMAIN server |-> "serving"]
  /\ runtime' = "present"
  /\ UNCHANGED <<command, step, codex, traffic, outcome, exit>>

\* Randomness, the policy, either listener or the router, before any task is
\* spawned; the audit sink may have made the directory before it failed.
StartFails ==
  /\ stage = "servers"
  /\ runtime' \in {runtime, "present"}
  /\ Return("error")
  /\ UNCHANGED <<command, step, server, codex, traffic, exit>>

SpawnCodex ==
  /\ stage = "spawn"
  /\ stage' = "waiting"
  /\ codex' = "running"
  /\ UNCHANGED <<command, step, server, runtime, traffic, outcome, exit>>

\* Its configuration could not be written: the servers are only dropped.
ConfigureFails ==
  /\ stage = "spawn"
  /\ Return("error")
  /\ UNCHANGED <<command, step, server, codex, runtime, traffic, exit>>

SpawnFails ==
  /\ stage = "spawn"
  /\ StopServers("error")
  /\ UNCHANGED <<command, step, codex, runtime, traffic, exit>>

-----------------------------------------------------------------------------
(* Requests, from the client through the gateway to the fake upstream.     *)

InFlight == {r \in Slots : req[r].at \in {"gateway", "fake", "answering"}}

Submit(r, content) ==
  req' = [req EXCEPT ![r] = [at |-> "gateway", holds |-> content, index |-> 0]]

\* What a gateway, right or wrong, may make of a request.
Forwards(content) ==
  {body \in SUBSET {"secret", "original", "tokens"} :
     body \ {"tokens"} \subseteq content}

\* The fake upstream counts the request and keeps it, or its traces.
GatewayForwards(r) ==
  /\ req[r].at = "gateway"
  /\ server.fake = "serving"
  /\ \E body \in Forwards(req[r].holds), header \in {"clean", "forbidden"} :
       wire' = Append(wire, [body |-> body, header |-> header, dealt |-> FALSE])
  /\ req' = [req EXCEPT ![r] = [@ EXCEPT !.at = "fake", !.index = Len(wire')]]
  /\ UNCHANGED <<command, stage, step, server, codex, runtime, proof,
                 outcome, exit>>

codex_demo_contains_original(w) == "original" \in w.body

codex_demo_tokens(w) == "tokens" \in w.body

\* codex_demo_responses: what the fixture refuses.
Rejects(w) ==
  \/ w.header = "forbidden"
  \/ codex_demo_contains_original(w)
  \/ ~codex_demo_tokens(w)

\* fake_responses only records; codex_demo_responses judges.
FakeResponds(r) ==
  /\ req[r].at = "fake"
  /\ LET i == req[r].index
     IN  /\ wire' = [wire EXCEPT ![i].dealt = TRUE]
         /\ proof' = CASE ~WithCodexFixture -> proof
                       [] WithCodexFixture /\ Rejects(wire[i]) -> mark_failed(proof)
                       [] OTHER -> mark_passed(proof)
  /\ req' = [req EXCEPT ![r].at = "answering"]
  /\ UNCHANGED <<command, stage, step, server, codex, runtime, outcome, exit>>

\* An answer, of the upstream or (a block, an error) of the gateway's own.
GatewayAnswers(r) ==
  /\ req[r].at \in {"gateway", "answering"}
  /\ req' = [req EXCEPT ![r] =
               IF command = "codex_demo" THEN NoRequest
               ELSE [NoRequest EXCEPT !.at = "answered"]]
  /\ UNCHANGED <<command, stage, step, server, codex, runtime, proof, wire,
                 outcome, exit>>

-----------------------------------------------------------------------------
(* The scripted client: run_checks and codex_demo_check *)

\* What each request of the script holds: a credential, a safe text, the
\* originals in a message, and in a tool output, or the tokens replayed.
Script ==
  IF WithCodexFixture
  THEN <<{"secret"}, {"original"}, {"tokens"}>>
  ELSE <<{"secret"}, {}, {"original"}, {"original"}>>

\* The scripted client has one request at a time.
Client == CHOOSE r \in Slots : TRUE

CheckSends ==
  /\ stage = "check"
  /\ step \in DOMAIN Script
  /\ req[Client].at = "none"
  /\ Submit(Client, Script[step])
  /\ UNCHANGED <<command, stage, step, server, codex, runtime, proof, wire,
                 outcome, exit>>

ExpectedCountBug ==   \* the blocked request is not looked at
  CASE WithCodexFixture /\ step < 3 -> TRUE
    [] WithCodexFixture /\ step = 3 -> Len(wire) = 2
    [] OTHER                        -> Len(wire) = step - 1

\* request_count, and the label for Codex, after the answer to this step.
ExpectedCount ==
  CASE WithCodexFixture /\ step = 1 -> wire = <<>> /\ proof = "not_measured"
    [] WithCodexFixture /\ step = 2 -> TRUE
    [] WithCodexFixture /\ step = 3 -> Len(wire) = 2
    [] OTHER                        -> Len(wire) = step - 1

CheckAccepts ==
  /\ stage = "check"
  /\ req[Client].at = "answered"
  /\ ExpectedCount
  /\ step' = step + 1
  /\ req' = [req EXCEPT ![Client] = NoRequest]
  /\ UNCHANGED <<command, stage, server, codex, runtime, proof, wire,
                 outcome, exit>>

contains_protected_value(w) == {"secret", "original"} \cap w.body # {}

\* The evidence of the capturing upstream, after the last answer.
Evidence ==
  IF WithCodexFixture
  THEN /\ proof = "passed"
       /\ \A i \in DOMAIN wire : wire[i].dealt => wire[i].header = "clean"
  ELSE /\ Len(wire) = 3
       /\ \A i \in DOMAIN wire : /\ wire[i].header = "clean"
                                 /\ ~contains_protected_value(wire[i])
       /\ \A i \in 2..Len(wire) : "tokens" \in wire[i].body

CheckPasses ==
  /\ stage = "check"
  /\ step = Len(Script) + 1
  /\ Evidence
  /\ proof' = IF WithCodexFixture THEN proof ELSE mark_passed(proof)
  /\ IF command = "demo"
     THEN stage' = "waiting" /\ UNCHANGED <<server, outcome>>
     ELSE StopServers("ok")
  /\ UNCHANGED <<command, step, codex, runtime, wire, req, exit>>

\* Anything else the check looks at (status, text, dashboard, audit) is wrong,
\* or what it counts is; the dashboard is read again once the proof is marked.
CheckFails ==
  /\ stage = "check"
  /\ step \notin DOMAIN Script \/ req[Client].at = "answered"
  /\ \/ UNCHANGED proof
     \/ /\ step = Len(Script) + 1 /\ Evidence /\ ~WithCodexFixture
        /\ proof' = mark_passed(proof)
  /\ StopServers("error")
  /\ UNCHANGED <<command, step, codex, runtime, wire, req, exit>>

\* The client's timeout of one request, and that of the whole run.
CheckTimesOut ==
  /\ stage = "check"
  /\ InFlight # {}
  /\ StopServers("error")
  /\ UNCHANGED <<command, step, codex, runtime, traffic, exit>>

-----------------------------------------------------------------------------
(* Waiting, stopping, leaving *)

\* select: Ctrl-C, which demo waits for, or the failure of waiting for it.
Interrupt ==
  /\ stage = "waiting" /\ command = "demo"
  /\ \E signal \in {"ok", "error"} : StopServers(signal)
  /\ UNCHANGED <<command, step, codex, runtime, traffic, exit>>

\* select: the child ended.
ChildExited ==
  /\ stage = "waiting"
  /\ codex \in {"succeeded", "failed"}
  /\ StopServers(IF codex = "succeeded" THEN "ok" ELSE "error")
  /\ UNCHANGED <<command, step, codex, runtime, traffic, exit>>

\* select: the child's status cannot be read.  That is told after the servers
\* were stopped, and the child is left to drop.
WaitFails ==
  /\ stage = "waiting" /\ command = "codex_demo"
  /\ StopServers("error")
  /\ UNCHANGED <<command, step, codex, runtime, traffic, exit>>

\* select: a server ended, which is an error however it did; the child is
\* killed and reaped before the other server is stopped.
ServerStopped ==
  /\ stage = "waiting"
  /\ \E s \in DOMAIN server : server[s] \in {"ended", "failed"}
  /\ codex' = IF codex = "running" THEN "killed" ELSE codex
  /\ StopServers("error")
  /\ UNCHANGED <<command, step, runtime, traffic, exit>>

AfterStop(s) == IF s = "gateway" THEN "stop_fake" ELSE "finish"

Awaiting(s) == stage = IF s = "gateway" THEN "stop_gateway" ELSE "stop_fake"

StopServer(s) ==
  /\ Awaiting(s)
  /\ server[s] \in {"ended", "failed"}
  /\ stage' = AfterStop(s)
  /\ outcome' = IF server[s] = "ended" THEN outcome ELSE "error"
  /\ UNCHANGED <<command, step, server, codex, runtime, traffic, exit>>

StopTimesOutBug(s) == FALSE   \* the task is awaited without a timeout

\* Five seconds, then abort.
StopTimesOut(s) ==
  /\ Awaiting(s)
  /\ server[s] = "draining"
  /\ stage' = AfterStop(s)
  /\ server' = [server EXCEPT ![s] = "aborted"]
  /\ outcome' = "error"
  /\ UNCHANGED <<command, step, codex, runtime, traffic, exit>>

CleanupBug ==   \* its result is not looked at
  /\ stage = "finish"
  /\ WithCodexFixture /\ outcome = "ok"
  /\ runtime' \in Removed(runtime)
  /\ Return("ok")
  /\ UNCHANGED <<command, step, server, codex, traffic, exit>>

\* CodexDemoRuntime::cleanup: a clean codex run removes its runtime, and looks
\* whether it is gone, before it reports success.
Cleanup ==
  /\ stage = "finish"
  /\ WithCodexFixture /\ outcome = "ok"
  /\ runtime' \in Removed(runtime)
  /\ Return(IF runtime' = "absent" THEN "ok" ELSE "error")
  /\ UNCHANGED <<command, step, server, codex, traffic, exit>>

\* Every other run leaves that to drop.
Finish ==
  /\ stage = "finish"
  /\ ~WithCodexFixture \/ outcome = "error"
  /\ Return(outcome)
  /\ UNCHANGED <<command, step, server, codex, runtime, traffic, exit>>

-----------------------------------------------------------------------------
(* The child, the server tasks, the process *)

\* Codex sends its prompt and history; a gateway may forward less of it.
CodexSends(r) ==
  /\ codex = "running" /\ server.gateway = "serving"
  /\ req[r].at = "none"
  /\ Len(wire) + Cardinality(InFlight) < MaxCodexWire
  /\ Submit(r, {"original"})
  /\ UNCHANGED <<command, stage, step, server, codex, runtime, proof, wire,
                 outcome, exit>>

CodexEnds ==
  /\ codex = "running"
  /\ codex' \in {"succeeded", "failed"}
  /\ UNCHANGED <<command, stage, step, server, runtime, traffic, outcome, exit>>

\* The client went away and its request with it.
RequestDropped(r) ==
  /\ r \in InFlight
  /\ codex \in {"succeeded", "failed", "killed"} \/ outcome # "none"
  /\ req' = [req EXCEPT ![r] = NoRequest]
  /\ UNCHANGED <<command, stage, step, server, codex, runtime, proof, wire,
                 outcome, exit>>

\* A server task ends by itself, or once what it was handling is done.
ServerEnds(s) ==
  /\ \/ server[s] \in {"serving", "draining"} /\ server' = [server EXCEPT ![s] = "failed"]
     \/ server[s] = "serving" /\ server' = [server EXCEPT ![s] = "ended"]
     \/ /\ server[s] = "draining"
        /\ IF s = "gateway" THEN InFlight = {} ELSE \A r \in Slots : req[r].at # "fake"
        /\ server' = [server EXCEPT ![s] = "ended"]
  /\ UNCHANGED <<command, stage, step, codex, runtime, traffic, outcome, exit>>

\* A forced kill: nothing is dropped, Codex may live on, and what the process
\* held is lost.
Kill ==
  /\ stage # "exited"
  /\ stage' = "exited"
  /\ exit' = "killed"
  /\ server' = [s \in DOMAIN server |-> "none"]
  /\ step' = 1 /\ proof' = "not_measured" /\ wire' = <<>> /\ outcome' = "none"
  /\ req' = [r \in Slots |-> NoRequest]
  /\ UNCHANGED <<command, codex, runtime>>

-----------------------------------------------------------------------------

\* The steps of the command itself.
Command ==
  \/ MakeRoot \/ FillRoot \/ StartServers \/ SpawnCodex
  \/ CheckSends \/ CheckAccepts \/ CheckPasses \/ CheckFails
  \/ ChildExited \/ ServerStopped
  \/ \E s \in DOMAIN server : StopServer(s)
  \/ Cleanup \/ Finish \/ DropServers \/ DropChild \/ DropRuntime \/ EndMain

Timeouts == CheckTimesOut \/ \E s \in DOMAIN server : StopTimesOut(s)

Next ==
  \/ Command \/ Timeouts
  \/ MakeRootFails \/ FillFails \/ StartFails \/ ConfigureFails \/ SpawnFails
  \/ WaitFails \/ Interrupt \/ CodexEnds \/ Kill
  \/ \E r \in Slots : \/ GatewayForwards(r) \/ FakeResponds(r)
                      \/ GatewayAnswers(r) \/ CodexSends(r) \/ RequestDropped(r)
  \/ \E s \in DOMAIN server : ServerEnds(s)

Spec == Init /\ [][Next]_vars

\* The command's own steps are never postponed for ever and its timeouts
\* expire.  Nothing is asked of the servers, of Codex or of any request.
FairSpec == Spec /\ WF_vars(Command) /\ WF_vars(Timeouts)

-----------------------------------------------------------------------------
(* Properties *)

\* What the demonstrations must never show upstream.
Leaks(w) == w.header = "forbidden" \/ "original" \in w.body

\* docs/ARCHITECTURE.md:98: "a failed boundary observation is sticky".  With
\* requests handled concurrently and in any order, the dashboard never says
\* passed once the fixture has refused a request or the upstream was shown an
\* original or a forbidden header.
ProofHonest ==
  proof = "passed" =>
    \A i \in DOMAIN wire : wire[i].dealt =>
      ~Leaks(wire[i]) /\ (WithCodexFixture => ~Rejects(wire[i]))

\* A successful check says what it claims, whatever the gateway did: the
\* credential and the originals never reached the upstream, every protected
\* request did so with its tokens, and the proof was measured.
VerdictSound ==
  exit = "ok" /\ command # "codex_demo" =>
    /\ proof = "passed"
    /\ Len(wire) = Len(Script) - 1
    /\ \A i \in DOMAIN wire :
         /\ ~Leaks(wire[i]) /\ "secret" \notin wire[i].body
         /\ Script[i + 1] # {} => "tokens" \in wire[i].body

\* Directory, servers and child are acquired one after the other and given up by
\* hand on some ways out and by drop on others.  However a command returns,
\* Codex never loses its home while it runs, and neither Codex is left nor a
\* directory that nothing tried to remove.  (A kill may leave both, but never
\* Codex without its home.)
NoOrphans ==
  /\ codex = "running" => runtime = "present"
  /\ exit \in {"ok", "error"} =>
       codex # "running" /\ runtime # "present"

\* docs/PRIVACY.md:127: "AgentVeil recursively deletes and verifies that
\* isolated root on clean exit".  Success says that Codex succeeded, that both
\* servers came to their own end (a failure or an abort of either, in whichever
\* order they are awaited, is an error) and that a codex runtime is gone.
SuccessIsClean ==
  [][exit = "none" /\ exit' = "ok" =>
       /\ codex \in {"none", "succeeded"}
       /\ \A s \in DOMAIN server : server[s] = "ended"
       /\ WithCodexFixture => runtime = "absent"]_vars

\* What has nothing to wait for: a check, a command whose child or one of
\* whose servers ended, and one that has begun to stop.
Obliged ==
  \/ command \in {"demo_check", "codex_check"}
  \/ codex \in {"succeeded", "failed"}
  \/ stage = "waiting" /\ \E s \in DOMAIN server : server[s] \in {"ended", "failed"}
  \/ outcome # "none"

\* Every such command ends, although a request may hang in a server for ever.
DemoEnds == Obliged ~> stage = "exited"

=============================================================================
