----------------------------- MODULE DemoProofs -----------------------------
(***************************************************************************)
(* Proofs about the demonstrations, for any gateway in front of the fake   *)
(* upstream, any number of requests of Codex and any order of their        *)
(* events: the wire proof is honest, a verdict is sound, neither Codex nor *)
(* its directory is orphaned, and success is a clean end.                  *)
(*                                                                         *)
(* The check looks at what the fake upstream has recorded after the last   *)
(* answer.  That this is still true when the command returns needs that no *)
(* request is on its way then; that what it did not look at is clean needs *)
(* that every request before was either judged or refused by a count.  And *)
(* what is given up on the way out depends on what is held at each stage.  *)
(***************************************************************************)
EXTENDS Demo, TLAPS

Commands == {"demo", "demo_check", "codex_demo", "codex_check"}
Before == {"root", "fill", "servers", "spawn", "check", "waiting"}
Leaving == {"drop_servers", "drop_child", "drop_runtime", "end_main"}
Stopping == {"stop_gateway", "stop_fake", "finish"} \cup Leaving
Tasks == {"none", "serving", "draining", "ended", "failed", "aborted"}
Places == {"none", "gateway", "fake", "answering", "answered"}
Parts == {"secret", "original", "tokens"}

Received == [body : SUBSET Parts, header : {"clean", "forbidden"}, dealt : BOOLEAN]
Request == [at : Places, holds : SUBSET Parts, index : Nat]

DType ==
  /\ command \in Commands
  /\ stage \in Before \cup Stopping \cup {"exited"}
  /\ step \in Nat
  /\ server \in [{"gateway", "fake"} -> Tasks]
  /\ codex \in {"none", "running", "succeeded", "failed", "killed"}
  /\ runtime \in {"absent", "present", "stuck"}
  /\ proof \in {"not_measured", "passed", "failed"}
  /\ outcome \in {"none", "ok", "error"}
  /\ exit \in {"none", "ok", "error", "killed"}
  /\ wire \in Seq(Received)
  /\ req \in [Slots -> Request]

\* A request at the fake upstream is one of those it recorded.
Indexed == \A r \in Slots : req[r].at = "fake" => req[r].index \in DOMAIN wire

Flow ==
  /\ stage \in Before => outcome = "none"
  /\ stage \in Stopping => outcome # "none"
  /\ stage = "exited" <=> exit # "none"
  /\ command # "codex_demo" => codex = "none" /\ stage # "spawn"

\* The scripted client has one request at a time, that of its step.
Scripted ==
  command # "codex_demo" =>
    /\ step \in 1..Len(Script) + 1
    /\ \A r \in Slots : req[r].at # "none" => r = Client /\ step \in DOMAIN Script
    /\ \A r \in Slots : req[r].holds # {} =>
         req[r].at # "none" /\ req[r].holds = Script[step]

\* The fixture's proof fails with the first request it refuses.
Fixture ==
  WithCodexFixture =>
    \A i \in DOMAIN wire : wire[i].dealt /\ Rejects(wire[i]) => proof = "failed"

\* Without the fixture the proof is passed by the evidence only.
Plain ==
  ~WithCodexFixture =>
    /\ proof # "failed"
    /\ proof = "passed" => step = Len(Script) + 1 /\ Evidence

\* What the counts after each answer leave possible.
Counted ==
  command = "codex_check" =>
    /\ step > 1 => \A i \in DOMAIN wire : "secret" \notin wire[i].body
    /\ step = Len(Script) + 1 => Len(wire) = 2
    /\ stage \in Before =>
         \A i \in DOMAIN wire :
           wire[i].dealt \/ \E r \in Slots : req[r].at = "fake" /\ req[r].index = i

\* What a check has seen when it succeeds.
Sound ==
  /\ step = Len(Script) + 1
  /\ proof = "passed"
  /\ Len(wire) = Len(Script) - 1
  /\ \A i \in DOMAIN wire :
       /\ ~Leaks(wire[i]) /\ "secret" \notin wire[i].body
       /\ Script[i + 1] # {} => "tokens" \in wire[i].body

Verdict ==
  command # "codex_demo" /\ (stage = "waiting" \/ outcome = "ok" \/ exit = "ok")
    => Sound

\* What is held at each stage: the directory from before the child until after
\* it, and nothing that has an owner when main ends.
Held ==
  /\ stage \in Before \ {"waiting"} => codex = "none"
  /\ stage = "root" => runtime = "absent"
  /\ stage \in {"spawn", "check", "waiting"} => runtime = "present"
  /\ codex = "running" => runtime = "present"
  /\ stage \in {"drop_runtime", "end_main"} => codex # "running"
  /\ stage = "end_main" => runtime # "present"
  /\ exit \in {"ok", "error"} => codex # "running" /\ runtime # "present"

\* What is behind a success that is about to be told.
Clean ==
  outcome = "ok" =>
    /\ codex \in {"none", "succeeded"}
    /\ stage \in Stopping \ {"stop_gateway"} => server.gateway = "ended"
    /\ stage \in Leaving \cup {"finish"} => server.fake = "ended"
    /\ stage \in Leaving /\ WithCodexFixture => runtime = "absent"

DInv == /\ DType /\ Indexed /\ Flow /\ Scripted /\ Fixture /\ Plain /\ Counted
        /\ Verdict /\ Held /\ Clean

-----------------------------------------------------------------------------
(* The script *)

\* The scripted client has a slot.
LEMMA ClientSlot == Client \in Slots
BY DemoAssumption DEF Client

\* The requests of both scripts.
LEMMA ScriptIs ==
  /\ WithCodexFixture => /\ Len(Script) = 3 /\ DOMAIN Script = 1..3
                         /\ Script[1] = {"secret"} /\ Script[2] = {"original"}
                         /\ Script[3] = {"tokens"}
  /\ ~WithCodexFixture => /\ Len(Script) = 4 /\ DOMAIN Script = 1..4
                          /\ Script[1] = {"secret"} /\ Script[2] = {}
                          /\ Script[3] = {"original"} /\ Script[4] = {"original"}
BY DEF Script

\* A step of the script is not the end of it.
LEMMA ScriptEnd == Len(Script) + 1 \notin DOMAIN Script
<1>1. CASE WithCodexFixture
  BY <1>1, ScriptIs
<1>2. CASE ~WithCodexFixture
  <2>1. Len(Script) = 4 /\ DOMAIN Script = 1..4
    BY <1>2, ScriptIs
  <2> QED BY <2>1
<1> QED BY <1>1, <1>2

\* What the script requires does not change with the command.
LEMMA SameScript ==
  ASSUME UNCHANGED command
  PROVE  UNCHANGED Script /\ (WithCodexFixture' <=> WithCodexFixture)
BY DEF Script, WithCodexFixture

\* After its last answer a check has nothing on the way.
LEMMA Quiescent ==
  ASSUME DInv, command # "codex_demo", step = Len(Script) + 1
  PROVE  \A r \in Slots : req[r].at = "none"
BY ScriptIs DEF DInv, Scripted

-----------------------------------------------------------------------------
(* Steps that leave the requests alone *)

\* What the requests have shown stays so while nothing touches them.
LEMMA QuietStep ==
  ASSUME DInv, UNCHANGED <<command, step, traffic>>,
         stage' \in Before => stage \in Before
  PROVE  /\ Indexed' /\ Scripted' /\ Fixture' /\ Plain' /\ Counted'
         /\ Sound <=> Sound'
<1> USE SameScript DEF DInv, traffic
<1>1. UNCHANGED <<command, Script, step, proof, wire, req>>
      /\ (WithCodexFixture' <=> WithCodexFixture)
  OBVIOUS
<1>2. Evidence' <=> Evidence
  BY <1>1 DEF Evidence, contains_protected_value
<1>3. Indexed' BY <1>1 DEF Indexed
<1>4. Scripted' BY <1>1 DEF Scripted
<1>5. Fixture'
  BY <1>1 DEF Fixture, Rejects, codex_demo_contains_original, codex_demo_tokens
<1>6. Plain' BY <1>1, <1>2 DEF Plain
<1>7. Counted' BY <1>1 DEF Counted
<1>8. Sound <=> Sound' BY <1>1 DEF Sound, Leaks
<1> QED BY <1>3, <1>4, <1>5, <1>6, <1>7, <1>8

\* main ends: a command keeps what it has seen and nothing else.
LEMMA EndStep ==
  ASSUME DInv, EndMain
  PROVE  DInv'
<1> USE SameScript DEF DInv, EndMain
<1>1. UNCHANGED <<command, Script, step, proof, wire, outcome>>
      /\ (WithCodexFixture' <=> WithCodexFixture)
      /\ outcome \in {"ok", "error"} /\ exit' = outcome /\ exit = "none"
  BY DEF Flow, DType, Stopping, Leaving
<1>2. \A r \in Slots : req'[r] = NoRequest
  OBVIOUS
<1>3. Evidence' <=> Evidence
  BY <1>1 DEF Evidence, contains_protected_value
<1>4. DType'
  BY <1>1 DEF DType, NoRequest, Request, Places, Tasks
<1>5. Indexed' BY <1>2 DEF Indexed, NoRequest
<1>6. Flow' BY <1>1 DEF Flow, DType, Before, Stopping, Leaving
<1>7. Scripted' BY <1>1, <1>2 DEF Scripted, NoRequest
<1>8. Fixture'
  BY <1>1 DEF Fixture, Rejects, codex_demo_contains_original, codex_demo_tokens
<1>9. Plain' BY <1>1, <1>3 DEF Plain
<1>10. Counted' BY <1>1 DEF Counted, Before
<1>11. Sound' <=> Sound BY <1>1 DEF Sound, Leaks
<1>12. Verdict' BY <1>1, <1>11 DEF Verdict, Flow
<1>13. Held' BY DEF Held, Before
<1>14. Clean' BY DEF Clean, Stopping, Leaving
<1> QED BY <1>4, <1>5, <1>6, <1>7, <1>8, <1>9, <1>10, <1>12, <1>13, <1>14

\* The steps by which a command starts, and those by which it stops or leaves.
Starts ==
  \/ MakeRoot \/ MakeRootFails \/ FillRoot \/ FillFails
  \/ StartServers \/ StartFails \/ SpawnCodex \/ SpawnFails \/ ConfigureFails
Stops ==
  \/ ChildExited \/ WaitFails \/ ServerStopped \/ CheckTimesOut \/ Interrupt
  \/ \E s \in DOMAIN server : StopServer(s) \/ StopTimesOut(s)
Leaves == Cleanup \/ Finish \/ DropServers \/ DropChild \/ DropRuntime

LEMMA StageStep ==
  ASSUME DInv, Starts \/ Stops \/ Leaves
  PROVE  DInv'
<1> USE DEF Starts, Stops, Leaves, MakeRoot, MakeRootFails, FillRoot, FillFails,
            StartServers, StartFails, SpawnCodex, SpawnFails, ConfigureFails,
            ChildExited, WaitFails, ServerStopped, CheckTimesOut, Interrupt,
            StopServer, StopTimesOut, Cleanup, Finish, DropServers, DropChild,
            DropRuntime, StopServers, Awaiting, AfterStop, Return, Removed
<1>1. /\ UNCHANGED <<command, step, traffic, exit>>
      /\ stage # "exited"
      /\ stage' \in Before => stage \in Before
  BY DEF Before
<1>2. exit = "none" /\ exit' = "none" /\ UNCHANGED command
      /\ (WithCodexFixture' <=> WithCodexFixture)
  BY <1>1 DEF DInv, Flow, DType, WithCodexFixture
<1>3. DType'
  <2>1. UNCHANGED <<command, step, proof, wire, req, exit>>
    BY <1>1 DEF traffic
  <2>2. stage' \in Before \cup Stopping /\ outcome' \in {"none", "ok", "error"}
        /\ runtime' \in {"absent", "present", "stuck"}
        /\ codex' \in {"none", "running", "succeeded", "failed", "killed"}
    BY DEF DInv, DType, Before, Stopping, Leaving
  <2>3. server' \in [{"gateway", "fake"} -> Tasks]
    BY DEF DInv, DType, Tasks
  <2> QED BY <2>1, <2>2, <2>3 DEF DInv, DType
<1>4. Flow'
  BY <1>1, <1>2 DEF DInv, Flow, DType, Before, Stopping, Leaving
<1>5. Verdict'
  BY <1>1, <1>2, QuietStep DEF DInv, Verdict, Flow, DType, Before, Stopping, Leaving
<1>6. Held'
  <2>1. CASE Starts
    BY <1>2, <2>1 DEF DInv, Held, DType, Before
  <2>2. CASE Stops
    BY <1>2, <2>2 DEF DInv, Held, DType, Before
  <2>3. CASE Leaves
    BY <1>2, <2>3 DEF DInv, Held, Clean, DType, Before
  <2> QED BY <2>1, <2>2, <2>3
<1>7. Clean'
  <2>1. CASE Starts
    BY <1>2, <2>1 DEF DInv, Clean, Flow, DType, Before, Stopping, Leaving
  <2>2. CASE Stops
    BY <1>2, <2>2 DEF DInv, Clean, Flow, Held, DType, Before, Stopping, Leaving
  <2>3. CASE Leaves
    BY <1>2, <2>3 DEF DInv, Clean, Flow, DType, Before, Stopping, Leaving
  <2> QED BY <2>1, <2>2, <2>3
<1> QED BY <1>1, <1>3, <1>4, <1>5, <1>6, <1>7, QuietStep DEF DInv

\* The child and the server tasks end.
LEMMA TaskStep ==
  ASSUME DInv, CodexEnds \/ \E s \in DOMAIN server : ServerEnds(s)
  PROVE  DInv'
<1>1. UNCHANGED <<command, stage, step, runtime, traffic, outcome, exit>>
  BY DEF CodexEnds, ServerEnds
<1>2. DType'
  BY <1>1 DEF DInv, DType, Tasks, traffic, CodexEnds, ServerEnds
<1>3. Flow'
  BY <1>1 DEF DInv, Flow, DType, CodexEnds, ServerEnds
<1>4. Verdict'
  BY <1>1, QuietStep DEF DInv, Verdict
<1>5. Held'
  BY <1>1 DEF DInv, Held, Flow, DType, CodexEnds, ServerEnds
<1>6. Clean'
  BY <1>1 DEF DInv, Clean, DType, CodexEnds, ServerEnds, WithCodexFixture
<1> QED BY <1>1, <1>2, <1>3, <1>4, <1>5, <1>6, QuietStep DEF DInv

\* A forced kill loses what the process had seen.
LEMMA KillStep ==
  ASSUME DInv, Kill
  PROVE  DInv'
<1> USE DEF DInv, Kill
<1>1. /\ UNCHANGED command /\ step' = 1 /\ proof' = "not_measured"
      /\ wire' = <<>> /\ \A r \in Slots : req'[r] = NoRequest
  OBVIOUS
<1>2. DType' BY DEF DType, NoRequest, Request, Places, Tasks
<1>3. Indexed' BY <1>1 DEF Indexed, NoRequest
<1>4. Flow' BY DEF Flow, DType, Before, Stopping, Leaving
<1>5. Scripted' BY <1>1, SameScript, ScriptIs DEF Scripted, NoRequest
<1>6. Fixture' BY <1>1 DEF Fixture
<1>7. Plain' BY <1>1 DEF Plain
<1>8. Counted' BY <1>1, SameScript, ScriptIs DEF Counted, Before, WithCodexFixture
<1>9. Verdict' BY <1>1 DEF Verdict, Before
<1>10. Held' BY DEF Held, Before
<1>11. Clean' BY DEF Clean
<1> QED BY <1>2, <1>3, <1>4, <1>5, <1>6, <1>7, <1>8, <1>9, <1>10, <1>11

-----------------------------------------------------------------------------
(* The scripted client *)

\* A request of the script is submitted, or its answer accepted.
LEMMA ScriptStep ==
  ASSUME DInv, CheckSends \/ CheckAccepts
  PROVE  DInv'
<1> USE SameScript, ClientSlot DEF DInv
<1>1. /\ UNCHANGED <<command, Script, stage, proof, wire, codex, outcome, exit, server, runtime>>
      /\ WithCodexFixture' <=> WithCodexFixture
      /\ stage = "check" /\ stage \in Before /\ exit = "none" /\ outcome = "none"
  BY DEF CheckSends, CheckAccepts, Flow, Before
<1>2. Verdict' /\ Flow' /\ Held' /\ Clean' /\ Fixture'
  BY <1>1 DEF Verdict, Flow, Held, Clean, Fixture, Rejects,
     codex_demo_contains_original, codex_demo_tokens
<1>3. Evidence' <=> Evidence
  BY <1>1 DEF Evidence, contains_protected_value
<1>4. CASE CheckSends
  <2>1. /\ req' = [req EXCEPT ![Client] =
                     [at |-> "gateway", holds |-> Script[step], index |-> 0]]
        /\ step' = step /\ step \in DOMAIN Script /\ req[Client].at = "none"
    BY <1>4 DEF CheckSends, Submit
  <2>2. Script[step] \in SUBSET Parts
    BY <2>1, ScriptIs DEF Parts
  <2>3. DType'
    BY <1>1, <2>1, <2>2 DEF DType, Request, Places
  <2>4. Indexed' BY <1>1, <2>1 DEF Indexed, DType
  <2>5. Scripted' BY <1>1, <2>1 DEF Scripted, DType
  <2>6. Plain' BY <1>1, <1>3, <2>1 DEF Plain
  <2>7. Counted' BY <1>1, <2>1 DEF Counted, DType
  <2> QED BY <1>2, <2>3, <2>4, <2>5, <2>6, <2>7
<1>5. CASE CheckAccepts
  <2>1. /\ req' = [req EXCEPT ![Client] = NoRequest]
        /\ step' = step + 1 /\ req[Client].at = "answered" /\ ExpectedCount
    BY <1>5 DEF CheckAccepts
  <2>2. DType'
    BY <1>1, <2>1 DEF DType, Request, Places, NoRequest
  <2>3. Indexed' BY <1>1, <2>1 DEF Indexed, DType, NoRequest
  <2>4. command # "codex_demo" =>
          /\ step \in DOMAIN Script
          /\ \A r \in Slots : req[r].at # "fake" /\ req'[r].at = "none"
    BY <2>1 DEF Scripted, DType, NoRequest
  <2>5. Scripted'
    <3> SUFFICES ASSUME command # "codex_demo" PROVE Scripted'
      BY <1>1 DEF Scripted
    <3>1. step' \in 1..Len(Script) + 1
      BY <2>1, <2>4, ScriptIs
    <3>2. \A r \in Slots : req'[r].at = "none" /\ (req[r].at = "none" => req[r].holds = {})
      BY <2>4 DEF Scripted
    <3>3. \A r \in Slots : req'[r].holds = {}
      BY <2>1, <2>4, <3>2 DEF Scripted, DType, NoRequest
    <3> QED BY <1>1, <3>1, <3>2, <3>3 DEF Scripted
  <2>6. Plain'
    BY <1>1, <2>4, ScriptIs, SMTT(30) DEF Plain, WithCodexFixture
  <2>7. Counted'
    <3> SUFFICES ASSUME command = "codex_check" PROVE Counted'
      BY <1>1 DEF Counted
    <3>1. WithCodexFixture /\ step \in 1..3
      BY <2>4, ScriptIs DEF WithCodexFixture
    <3>2. \A i \in DOMAIN wire : "secret" \notin wire[i].body
      BY <2>1, <3>1 DEF Counted, ExpectedCount
    <3>3. step' = Len(Script) + 1 => Len(wire) = 2
      BY <2>1, <3>1, ScriptIs, SMTT(30) DEF ExpectedCount
    <3>4. \A i \in DOMAIN wire : wire[i].dealt
      BY <1>1, <2>4 DEF Counted
    <3> QED BY <1>1, <3>2, <3>3, <3>4 DEF Counted
  <2> QED BY <1>2, <2>2, <2>3, <2>5, <2>6, <2>7
<1> QED BY <1>4, <1>5

\* The evidence a check has seen after its last answer makes it sound.
LEMMA EvidenceIsSound ==
  ASSUME DInv, command # "codex_demo", stage = "check",
         step = Len(Script) + 1, Evidence
  PROVE  /\ ~WithCodexFixture => proof \in {"not_measured", "passed"}
         /\ WithCodexFixture => proof = "passed"
         /\ Len(wire) = Len(Script) - 1
         /\ \A i \in DOMAIN wire :
              /\ ~Leaks(wire[i]) /\ "secret" \notin wire[i].body
              /\ Script[i + 1] # {} => "tokens" \in wire[i].body
<1>0. DOMAIN wire = 1..Len(wire) /\ \A i \in DOMAIN wire : wire[i] \in Received
  BY DEF DInv, DType
<1>1. CASE WithCodexFixture
  <2>1. command = "codex_check"
    BY <1>1 DEF WithCodexFixture
  <2>2. \A i \in DOMAIN wire : wire[i].dealt
    BY <2>1, Quiescent DEF DInv, Counted, Before
  <2>3. \A i \in DOMAIN wire : ~Rejects(wire[i])
    BY <1>1, <2>2 DEF DInv, Fixture, Evidence
  <2>4. \A i \in DOMAIN wire : ~Leaks(wire[i]) /\ "tokens" \in wire[i].body
    BY <2>3 DEF Rejects, Leaks, codex_demo_contains_original, codex_demo_tokens
  <2>5. Len(wire) = 2 /\ \A i \in DOMAIN wire : "secret" \notin wire[i].body
    BY <2>1, <1>1, ScriptIs DEF DInv, Counted
  <2> QED BY <1>1, <2>4, <2>5, ScriptIs DEF Evidence
<1>2. CASE ~WithCodexFixture
  <2>1. Len(wire) = 3 /\ Len(Script) = 4 /\ Script[2] = {}
    BY <1>2, ScriptIs DEF Evidence
  <2>2. \A i \in DOMAIN wire : ~Leaks(wire[i]) /\ "secret" \notin wire[i].body
    BY <1>2 DEF Evidence, Leaks, contains_protected_value
  <2>3. \A i \in DOMAIN wire : Script[i + 1] # {} => "tokens" \in wire[i].body
    BY <1>0, <1>2, <2>1 DEF Evidence
  <2>4. proof \in {"not_measured", "passed"}
    BY <1>2 DEF DInv, DType, Plain
  <2> QED BY <1>2, <2>1, <2>2, <2>3, <2>4
<1> QED BY <1>1, <1>2

\* The check ends, one way or the other.
LEMMA VerdictStep ==
  ASSUME DInv, CheckPasses \/ CheckFails
  PROVE  DInv'
<1> USE SameScript, ScriptIs DEF DInv
<1>1. /\ UNCHANGED <<command, Script, step, codex, runtime, wire, req, exit>>
      /\ WithCodexFixture' <=> WithCodexFixture
      /\ stage = "check" /\ exit = "none"
      /\ stage' \in {"waiting", "stop_gateway"}
  BY DEF CheckPasses, CheckFails, StopServers, Flow
<1>2. \/ proof' = proof
      \/ /\ ~WithCodexFixture /\ step = Len(Script) + 1 /\ Evidence
         /\ proof' = mark_passed(proof)
  BY DEF CheckPasses, CheckFails
<1>3. DType'
  BY <1>1, <1>2 DEF DType, Tasks, Before, Stopping, mark_passed, CheckPasses,
     CheckFails, StopServers
<1>4. Flow'
  BY <1>1 DEF Flow, Before, Stopping, Leaving, CheckPasses, CheckFails, StopServers
<1>5. Indexed' BY <1>1 DEF Indexed
<1>6. Scripted' BY <1>1 DEF Scripted
<1>7. Fixture'
  BY <1>1, <1>2 DEF Fixture, Rejects, codex_demo_contains_original,
     codex_demo_tokens
<1>8. Plain'
  <2> SUFFICES ASSUME ~WithCodexFixture PROVE Plain'
    BY <1>1 DEF Plain
  <2>1. Evidence => Evidence'
    BY <1>1 DEF Evidence, contains_protected_value
  <2> QED BY <1>1, <1>2, <2>1 DEF Plain, mark_passed
<1>9. Counted' BY <1>1 DEF Counted, Before
<1>10. Verdict'
  <2> SUFFICES ASSUME command # "codex_demo", CheckPasses PROVE Sound'
    BY <1>1 DEF Verdict, CheckFails, StopServers
  <2>1. step = Len(Script) + 1 /\ Evidence
    BY DEF CheckPasses
  <2>2. proof' = "passed"
    BY <1>1, <2>1, EvidenceIsSound DEF CheckPasses, mark_passed
  <2> QED BY <1>1, <2>1, <2>2, EvidenceIsSound DEF Sound, Leaks
<1>11. Held'
  BY <1>1 DEF Held, Before, CheckPasses, CheckFails, StopServers
<1>12. Clean'
  BY <1>1 DEF Clean, Held, Before, Stopping, Leaving, CheckPasses, CheckFails,
     StopServers
<1> QED BY <1>3, <1>4, <1>5, <1>6, <1>7, <1>8, <1>9, <1>10, <1>11, <1>12

-----------------------------------------------------------------------------
(* The requests *)

\* The gateway lets a request through, whatever it made of it.
LEMMA ForwardStep ==
  ASSUME DInv, NEW r \in Slots, GatewayForwards(r)
  PROVE  DInv'
<1> USE SameScript, ScriptIs DEF DInv
<1>1. /\ UNCHANGED <<command, Script, stage, step, server, codex,
                     runtime, proof, outcome, exit>>
      /\ WithCodexFixture' <=> WithCodexFixture
      /\ req[r].at = "gateway" /\ wire \in Seq(Received)
  BY DEF GatewayForwards, DType
<1>2. PICK body \in Forwards(req[r].holds), header \in {"clean", "forbidden"} :
        wire' = Append(wire, [body |-> body, header |-> header, dealt |-> FALSE])
  BY DEF GatewayForwards
<1> DEFINE w == [body |-> body, header |-> header, dealt |-> FALSE]
<1>3. body \in SUBSET Parts /\ body \ {"tokens"} \subseteq req[r].holds
  BY DEF Forwards, Parts
<1>4. w \in Received
  BY <1>3 DEF Received
<1>5. /\ Len(wire') = Len(wire) + 1 /\ wire' \in Seq(Received)
      /\ DOMAIN wire' = DOMAIN wire \cup {Len(wire) + 1}
      /\ Len(wire) + 1 \notin DOMAIN wire
      /\ \A i \in DOMAIN wire : wire'[i] = wire[i]
      /\ wire'[Len(wire) + 1] = w
  BY <1>1, <1>2, <1>4
<1>6. /\ \A x \in Slots \ {r} : req'[x] = req[x]
      /\ req'[r].at = "fake" /\ req'[r].holds = req[r].holds
      /\ req'[r].index = Len(wire) + 1 /\ req' \in [Slots -> Request]
  <2>1. req' = [req EXCEPT ![r] = [req[r] EXCEPT !.at = "fake", !.index = Len(wire')]]
    BY DEF GatewayForwards, DType
  <2>2. req[r] \in Request /\ Len(wire') \in Nat
    BY <1>5 DEF DType
  <2> DEFINE q == [req[r] EXCEPT !.at = "fake", !.index = Len(wire')]
  <2>3. q \in Request /\ q.at = "fake" /\ q.holds = req[r].holds
        /\ q.index = Len(wire) + 1
    BY <1>5, <2>2 DEF Request, Places
  <2>4. req' = [req EXCEPT ![r] = q]
    BY <2>1
  <2> HIDE DEF q
  <2> QED BY <2>3, <2>4 DEF DType
<1>7. command # "codex_demo" => step \in DOMAIN Script
  BY <1>1 DEF Scripted
<1>8. DType' BY <1>1, <1>5, <1>6 DEF DType
<1>9. Indexed' BY <1>5, <1>6 DEF Indexed
<1>10. Flow' BY <1>1 DEF Flow
<1>11. Scripted' BY <1>1, <1>6 DEF Scripted
<1>12. Fixture'
  BY <1>1, <1>5 DEF Fixture, Rejects, codex_demo_contains_original,
     codex_demo_tokens
<1>13. Plain'
  <2>1. ~WithCodexFixture => proof # "passed" /\ proof # "failed"
    BY <1>7 DEF Plain, WithCodexFixture
  <2> QED BY <1>1, <2>1 DEF Plain
<1>14. Counted'
  <2> SUFFICES ASSUME command = "codex_check" PROVE Counted'
    BY <1>1 DEF Counted
  <2>1. WithCodexFixture /\ step \in 1..3
    BY <1>7 DEF WithCodexFixture
  <2>2. step > 1 => "secret" \notin body
    BY <1>3, <2>1 DEF Scripted
  <2>3. step > 1 => \A i \in DOMAIN wire' : "secret" \notin wire'[i].body
    BY <1>5, <2>2 DEF Counted
  <2>4. ASSUME stage \in Before, NEW i \in DOMAIN wire'
        PROVE  wire'[i].dealt \/ \E x \in Slots : req'[x].at = "fake" /\ req'[x].index = i
    <3>1. CASE i = Len(wire) + 1
      BY <1>6, <3>1
    <3>2. CASE i \in DOMAIN wire
      BY <1>1, <1>5, <1>6, <2>4, <3>2 DEF Counted
    <3> QED BY <1>5, <3>1, <3>2
  <2>5. step' # Len(Script) + 1
    BY <1>1, <1>7, ScriptEnd
  <2> QED BY <1>1, <2>3, <2>4, <2>5 DEF Counted
<1>15. Verdict' BY <1>1, <1>7 DEF Verdict, Sound
<1>16. Held' /\ Clean' BY <1>1 DEF Held, Clean
<1> QED BY <1>8, <1>9, <1>10, <1>11, <1>12, <1>13, <1>14, <1>15, <1>16

\* The fake upstream judges or only records.
LEMMA RespondStep ==
  ASSUME DInv, NEW r \in Slots, FakeResponds(r)
  PROVE  DInv'
<1> USE SameScript, ScriptIs DEF DInv
<1> DEFINE k == req[r].index
<1>1. /\ UNCHANGED <<command, Script, stage, step, server, codex,
                     runtime, outcome, exit>>
      /\ WithCodexFixture' <=> WithCodexFixture
      /\ req[r].at = "fake" /\ wire \in Seq(Received) /\ k \in DOMAIN wire
  BY DEF FakeResponds, DType, Indexed
<1>2. /\ wire' = [wire EXCEPT ![k].dealt = TRUE]
      /\ proof' = CASE ~WithCodexFixture -> proof
                    [] WithCodexFixture /\ Rejects(wire[k]) -> mark_failed(proof)
                    [] OTHER -> mark_passed(proof)
  BY DEF FakeResponds
<1>3. /\ Len(wire') = Len(wire) /\ wire' \in Seq(Received)
      /\ DOMAIN wire' = DOMAIN wire
      /\ \A i \in DOMAIN wire : /\ wire'[i].body = wire[i].body
                                /\ wire'[i].header = wire[i].header
                                /\ i # k => wire'[i] = wire[i]
                                /\ wire'[k].dealt
  <2>1. wire' = [wire EXCEPT ![k] = [wire[k] EXCEPT !.dealt = TRUE]]
    BY <1>2
  <2>2. wire[k] \in Received
    BY <1>1
  <2> DEFINE w == [wire[k] EXCEPT !.dealt = TRUE]
  <2>3. w \in Received /\ w.dealt
        /\ w.body = wire[k].body /\ w.header = wire[k].header
    BY <2>2 DEF Received
  <2>4. wire' = [wire EXCEPT ![k] = w]
    BY <2>1
  <2> HIDE DEF w, k
  <2> QED BY <1>1, <2>3, <2>4
<1>4. /\ \A x \in Slots \ {r} : req'[x] = req[x]
      /\ req'[r].at = "answering" /\ req'[r].holds = req[r].holds
      /\ req' \in [Slots -> Request]
  <2> DEFINE q == [req[r] EXCEPT !.at = "answering"]
  <2>1. req \in [Slots -> Request] /\ req' = [req EXCEPT ![r] = q]
    BY DEF FakeResponds, DType
  <2>2. req[r] \in Request
    BY <2>1
  <2>3. q \in Request /\ q.at = "answering" /\ q.holds = req[r].holds
    BY <2>2 DEF Request, Places
  <2> HIDE DEF q
  <2> QED BY <2>1, <2>3
<1>5. command # "codex_demo" => step \in DOMAIN Script
  BY <1>1 DEF Scripted
<1>6. ~WithCodexFixture => proof' = proof
  BY <1>2
<1>7. WithCodexFixture =>
        IF Rejects(wire[k]) THEN proof' = "failed"
        ELSE proof' = IF proof = "not_measured" THEN "passed" ELSE proof
  BY <1>2 DEF mark_failed, mark_passed
<1>8. DType' BY <1>1, <1>3, <1>4, <1>6, <1>7 DEF DType
<1>9. Indexed' BY <1>3, <1>4 DEF Indexed
<1>10. Flow' BY <1>1 DEF Flow
<1>11. Scripted' BY <1>1, <1>4 DEF Scripted
<1>12. \A i \in DOMAIN wire : Rejects(wire'[i]) <=> Rejects(wire[i])
  BY <1>3 DEF Rejects, codex_demo_contains_original, codex_demo_tokens
<1>13. Fixture'
  <2> SUFFICES ASSUME WithCodexFixture, NEW i \in DOMAIN wire, wire'[i].dealt,
                      Rejects(wire[i])
               PROVE  proof' = "failed"
    BY <1>1, <1>3, <1>12 DEF Fixture, Rejects, codex_demo_contains_original,
       codex_demo_tokens
  <2>1. CASE i = k BY <1>7, <2>1
  <2>2. CASE i # k BY <1>3, <1>7, <2>2 DEF Fixture
  <2> QED BY <2>1, <2>2
<1>14. Plain'
  <2>1. ~WithCodexFixture => proof # "passed" /\ proof # "failed"
    BY <1>5, ScriptEnd DEF Plain, WithCodexFixture
  <2> QED BY <1>1, <1>6, <2>1 DEF Plain
<1>15. Counted'
  <2> SUFFICES ASSUME command = "codex_check" PROVE Counted'
    BY <1>1 DEF Counted
  <2>1. ASSUME stage \in Before, NEW i \in DOMAIN wire, ~wire'[i].dealt
        PROVE  \E x \in Slots : req'[x].at = "fake" /\ req'[x].index = i
    <3>1. i # k /\ ~wire[i].dealt
      BY <1>3, <2>1
    <3>2. PICK x \in Slots : req[x].at = "fake" /\ req[x].index = i
      BY <1>1, <2>1, <3>1 DEF Counted
    <3>3. x # r
      BY <3>1, <3>2
    <3> QED BY <1>4, <3>2, <3>3
  <2> QED BY <1>1, <1>3, <2>1 DEF Counted
<1>16. Verdict' BY <1>1, <1>5 DEF Verdict, Sound
<1>17. Held' /\ Clean' BY <1>1 DEF Held, Clean
<1> QED BY <1>8, <1>9, <1>10, <1>11, <1>13, <1>14, <1>15, <1>16, <1>17

\* A request of Codex sets out; one is answered, or goes with its client.
LEMMA RequestStep ==
  ASSUME DInv, NEW r \in Slots,
         GatewayAnswers(r) \/ CodexSends(r) \/ RequestDropped(r)
  PROVE  DInv'
<1> USE SameScript, ScriptIs DEF DInv
<1>1. /\ UNCHANGED <<command, Script, stage, step, server, codex,
                     runtime, proof, wire, outcome, exit>>
      /\ WithCodexFixture' <=> WithCodexFixture
  BY DEF GatewayAnswers, CodexSends, RequestDropped
<1> DEFINE Fits(q) ==
      /\ q \in Request /\ req' = [req EXCEPT ![r] = q] /\ q.at # "fake"
      /\ command # "codex_demo" =>
           /\ req[r].at # "none" /\ q.holds = {}
           /\ stage \in Before => req[r].at # "fake"
<1>2. PICK q : Fits(q)
  <2>1. CASE GatewayAnswers(r)
    <3>1. CASE command = "codex_demo"
      <4>1. Fits(NoRequest)
        BY <2>1, <3>1 DEF GatewayAnswers, NoRequest, Request, Places
      <4> QED BY <4>1
    <3>2. CASE command # "codex_demo"
      <4>1. [NoRequest EXCEPT !.at = "answered"] =
              [at |-> "answered", holds |-> {}, index |-> 0]
        BY DEF NoRequest
      <4>2. Fits([at |-> "answered", holds |-> {}, index |-> 0])
        BY <2>1, <3>2, <4>1 DEF GatewayAnswers, Request, Places
      <4> QED BY <4>2
    <3> QED BY <3>1, <3>2
  <2>2. CASE CodexSends(r)
    <3>1. Fits([at |-> "gateway", holds |-> {"original"}, index |-> 0])
      BY <2>2 DEF CodexSends, Submit, Request, Places, Parts, Flow
    <3> QED BY <3>1
  <2>3. CASE RequestDropped(r)
    <3>1. Fits(NoRequest)
      BY <2>3 DEF RequestDropped, InFlight, NoRequest, Request, Places, Flow
    <3> QED BY <3>1
  <2> QED BY <2>1, <2>2, <2>3
<1>3. /\ req' \in [Slots -> Request] /\ req'[r] = q
      /\ \A x \in Slots \ {r} : req'[x] = req[x]
  BY <1>2 DEF DType
<1>4. Evidence' <=> Evidence
  BY <1>1 DEF Evidence, contains_protected_value
<1>5. DType' BY <1>1, <1>3 DEF DType
<1>6. Indexed' BY <1>1, <1>2, <1>3 DEF Indexed
<1>7. Flow' BY <1>1 DEF Flow
<1>8. Scripted' BY <1>1, <1>2, <1>3 DEF Scripted
<1>9. Fixture'
  BY <1>1 DEF Fixture, Rejects, codex_demo_contains_original, codex_demo_tokens
<1>10. Plain' BY <1>1, <1>4 DEF Plain
<1>11. Counted' BY <1>1, <1>2, <1>3 DEF Counted
<1>12. Verdict' BY <1>1 DEF Verdict, Sound, Leaks
<1>13. Held' /\ Clean' BY <1>1 DEF Held, Clean
<1> QED BY <1>5, <1>6, <1>7, <1>8, <1>9, <1>10, <1>11, <1>12, <1>13

-----------------------------------------------------------------------------

\* What the check, the fixture and the requests in flight owe one another, in
\* every state of the four demonstrations.
THEOREM DemoInvariant == Spec => []DInv
<1>1. Init => DInv
  BY ScriptIs DEF Init, DInv, DType, Indexed, Flow, Scripted, Fixture, Plain,
     Counted, Verdict, Held, Clean, NoRequest, Request, Places, Tasks, Commands,
     Before, Stopping, Leaving, WithCodexFixture
<1>2. DInv /\ UNCHANGED vars => DInv'
  <2> SUFFICES ASSUME DInv, UNCHANGED vars PROVE DInv'
    OBVIOUS
  <2>1. DType' /\ Flow' /\ Held' /\ Clean'
    BY DEF vars, DInv, DType, Flow, Held, Clean, WithCodexFixture
  <2>2. Verdict'
    BY QuietStep DEF vars, traffic, DInv, Verdict
  <2> QED BY <2>1, <2>2, QuietStep DEF vars, traffic, DInv
<1>3. DInv /\ Next => DInv'
  <2> SUFFICES ASSUME DInv, Next PROVE DInv'
    OBVIOUS
  <2> QED BY StageStep, EndStep, TaskStep, KillStep, ScriptStep, VerdictStep,
       ForwardStep, RespondStep, RequestStep
       DEF Next, Command, Timeouts, Starts, Stops, Leaves
<1> QED BY <1>1, <1>2, <1>3, PTL DEF Spec

\* mark_failed is sticky: the dashboard never says passed after the fixture
\* has refused a request, or the upstream was shown what it must not see.
THEOREM ProofHonestHolds == Spec => []ProofHonest
<1>1. DInv => ProofHonest
  <2> SUFFICES ASSUME DInv, proof = "passed", NEW i \in DOMAIN wire, wire[i].dealt
               PROVE  ~Leaks(wire[i]) /\ (WithCodexFixture => ~Rejects(wire[i]))
    BY DEF ProofHonest
  <2>1. CASE WithCodexFixture
    BY <2>1 DEF DInv, Fixture, Rejects, Leaks, codex_demo_contains_original
  <2>2. CASE ~WithCodexFixture
    BY <2>2 DEF DInv, Plain, Evidence, Leaks, contains_protected_value
  <2> QED BY <2>1, <2>2
<1> QED BY <1>1, DemoInvariant, PTL

\* demo --check and codex-demo --check succeed only if the upstream saw no
\* protected value, and the tokens of every protected request.
THEOREM VerdictSoundHolds == Spec => []VerdictSound
<1>1. DInv => VerdictSound
  BY DEF DInv, Verdict, Sound, VerdictSound
<1> QED BY <1>1, DemoInvariant, PTL

\* However a command returns, the removals by hand, cleanup and the drops between
\* them kill Codex before its home is removed, and leave only a directory that
\* cannot be removed.
THEOREM NoOrphansHolds == Spec => []NoOrphans
<1>1. DInv => NoOrphans
  BY DEF DInv, Held, NoOrphans
<1> QED BY <1>1, DemoInvariant, PTL

\* The action of SuccessIsClean.
CleanStep ==
  exit = "none" /\ exit' = "ok" =>
    /\ codex \in {"none", "succeeded"}
    /\ \A s \in DOMAIN server : server[s] = "ended"
    /\ WithCodexFixture => runtime = "absent"

\* Success is told only after both servers ended by themselves, Codex succeeded
\* and cleanup has seen the directory gone.
THEOREM DemoSuccessIsClean == Spec => SuccessIsClean
<1>1. DInv /\ [Next]_vars => [CleanStep]_vars
  <2> SUFFICES ASSUME DInv, Next, exit = "none", exit' = "ok"
               PROVE  /\ codex \in {"none", "succeeded"}
                      /\ \A s \in DOMAIN server : server[s] = "ended"
                      /\ WithCodexFixture => runtime = "absent"
    BY DEF CleanStep
  <2>1. EndMain
    BY DEF Next, Command, Timeouts, MakeRoot, MakeRootFails, FillRoot, FillFails,
       StartServers, StartFails, SpawnCodex, SpawnFails, ConfigureFails,
       ChildExited, WaitFails, ServerStopped, CheckTimesOut, Interrupt,
       StopServer, StopTimesOut, Cleanup, Finish, DropServers, DropChild,
       DropRuntime, CheckSends, CheckAccepts, CheckPasses, CheckFails, CodexEnds,
       Kill, GatewayForwards, FakeResponds, GatewayAnswers, CodexSends,
       RequestDropped, ServerEnds
  <2>2. outcome = "ok" /\ stage = "end_main"
    BY <2>1 DEF EndMain
  <2> QED BY <2>2 DEF DInv, Clean, DType, Stopping, Leaving
<1> QED BY <1>1, DemoInvariant, PTL DEF Spec, SuccessIsClean, CleanStep


=============================================================================
