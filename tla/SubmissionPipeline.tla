--------------------------- MODULE SubmissionPipeline ---------------------------
(***************************************************************************)
(* From an upload to a running sandbox: submission-api, build-service and   *)
(* sandbox-orchestrator, which meet in the records of one partition of      *)
(* submission.lifecycle.  build-service acts on submission.created,         *)
(* sandbox-orchestrator on the build.complete it publishes; each is a       *)
(* consumer group of its own and reads the records of all of them.          *)
(***************************************************************************)
EXTENDS Naturals, Sequences

CONSTANTS
  Submissions, NoSubmission,
  Confirms,             \* confirm requests
  Builders, Deployers,  \* replicas of build-service and sandbox-orchestrator
  NoMember,
  MaxTroubles, Sigterms, MaxMoves

ASSUME PipelineAssumption ==
  /\ NoSubmission \notin Submissions
  /\ NoMember \notin Builders \cup Deployers
  /\ MaxTroubles \in Nat /\ Sigterms \in BOOLEAN /\ MaxMoves \in Nat

VARIABLES
  log, troubles, moves,
  pending, issued, confirm,
  buildCommitted, buildAssigned, buildPosition, buildPc, buildStopping, buildNext,
  buildLast, buildHandled, buildPods, verdict, late, built,
  deployCommitted, deployAssigned, deployPosition, deployPc, deployStopping, deployNext,
  deployLast, deployHandled, sandboxes

Api == INSTANCE SubmissionApi

Build == INSTANCE BuildService WITH
  Members <- Builders, Wants <- "created",
  committed <- buildCommitted, assigned <- buildAssigned, position <- buildPosition,
  pc <- buildPc, stopping <- buildStopping, next <- buildNext, last <- buildLast,
  handled <- buildHandled

Deploy == INSTANCE SandboxOrchestrator WITH
  Members <- Deployers, Wants <- "complete",
  committed <- deployCommitted, assigned <- deployAssigned, position <- deployPosition,
  pc <- deployPc, stopping <- deployStopping, next <- deployNext, last <- deployLast,
  handled <- deployHandled

apiVars    == <<pending, issued, confirm>>
buildVars  == <<buildCommitted, buildAssigned, buildPosition, buildPc, buildStopping, buildNext,
                buildLast, buildHandled, buildPods, verdict, late, built>>
deployVars == <<deployCommitted, deployAssigned, deployPosition, deployPc, deployStopping,
                deployNext, deployLast, deployHandled, sandboxes>>
vars == <<log, troubles, moves, apiVars, buildVars, deployVars>>

Init ==
  /\ log = << >> /\ troubles = 0 /\ moves = 0
  /\ Api!InitApi /\ Build!InitBuilds(Submissions) /\ Deploy!InitSandboxes(Submissions)

-----------------------------------------------------------------------------
(* The steps of each service leave the others' state alone.                 *)
ByApi    == UNCHANGED <<buildVars, deployVars>>
ByBuild  == UNCHANGED <<apiVars, deployVars>>
ByDeploy == UNCHANGED <<apiVars, buildVars>>

BuilderRuns(m) ==
  /\ ByBuild
  /\ \/ Build!BuildStep(m)
     \/ Build!LoopStep(m) /\ Build!Around(m)

BuilderDisturbed(m) ==
  /\ ByBuild
  /\ \/ (Build!Disturbance(m) \/ Build!Assign(m)) /\ Build!Around(m)
     \/ Build!CleanupExpires(m)

DeployerRuns(m) ==
  /\ ByDeploy
  /\ \/ Deploy!DeployStep(m)
     \/ Deploy!LoopStep(m) /\ UNCHANGED sandboxes

DeployerDisturbed(m) ==
  ByDeploy /\ (Deploy!Disturbance(m) \/ Deploy!Assign(m)) /\ UNCHANGED sandboxes

BuildCluster ==
  /\ ByBuild
  /\ \E s \in Submissions :
       \/ \E phase \in {"succeeded", "failed"} : Build!BuildPodEnds(s, phase)
       \/ Build!BuildPodGone(s)

SandboxCluster ==
  /\ ByDeploy
  /\ \E s \in Submissions :
       \/ \E phase \in {"ready", "dead"} : Deploy!SandboxTurns(s, phase)
       \/ Deploy!SandboxGone(s)

Next ==
  \/ ByApi /\ Api!ApiStep
  \/ \E m \in Builders : BuilderRuns(m) \/ BuilderDisturbed(m)
  \/ \E m \in Deployers : DeployerRuns(m) \/ DeployerDisturbed(m)
  \/ BuildCluster \/ SandboxCluster

Spec == Init /\ [][Next]_vars

(* Processes are scheduled and restarted, every call is answered or times   *)
(* out, and the coordinator gives a partition nobody has to a live member.  *)
(* Nothing is assumed of requests, pods or faults.                          *)
Fairness ==
  /\ \A m \in Builders :
       /\ WF_vars(BuilderRuns(m))
       /\ WF_vars(ByBuild /\ buildAssigned = NoMember /\ Build!Assign(m) /\ Build!Around(m))
  /\ \A m \in Deployers :
       /\ WF_vars(DeployerRuns(m))
       /\ WF_vars(ByDeploy /\ deployAssigned = NoMember /\ Deploy!Assign(m) /\ UNCHANGED sandboxes)

FairSpec == Spec /\ Fairness

-----------------------------------------------------------------------------
(* Properties *)

Published(kind, s) == \E o \in DOMAIN log : log[o] = [kind |-> kind, sub |-> s]
Deploying(s) ==
  \E m \in Deployers : deployPc[m] \notin {"down", "poll", "commit"} /\ log[deployNext[m]].sub = s

GroupTypeOK(members, steps, group) ==
  /\ group.committed \in 1..(Len(log) + 1) /\ group.position \in 1..(Len(log) + 1)
  /\ group.assigned \in members \cup {NoMember}
  /\ \A m \in members :
       /\ group.pc[m] \in steps \cup {"down", "poll", "handle", "commit"}
       /\ group.stopping[m] \in BOOLEAN
       /\ group.next[m] \in 0..group.last[m] /\ group.last[m] \in 0..Len(log)
       /\ group.next[m] = 0 <=> group.pc[m] \in {"down", "poll"}
  /\ group.handled \subseteq DOMAIN log

\* Every variable keeps its type, and a member has a batch, of records that
\* are there, exactly while it handles one.
TypeOK ==
  /\ log \in Seq([kind : {"created", "complete", "buildFailed", "ready", "sandboxFailed"},
                  sub : Submissions])
  /\ troubles \in 0..MaxTroubles /\ moves \in 0..MaxMoves
  /\ pending \subseteq issued /\ issued \subseteq Submissions
  /\ \A c \in Confirms : confirm[c] \in
       [at : {"idle", "publish", "delete", "done"}, sub : Submissions \cup {NoSubmission}]
  /\ GroupTypeOK(Builders, {"watch", "cleanup", "publish"},
       [committed |-> buildCommitted, position |-> buildPosition, assigned |-> buildAssigned,
        pc |-> buildPc, stopping |-> buildStopping, next |-> buildNext, last |-> buildLast,
        handled |-> buildHandled])
  /\ buildPods \in [Submissions -> {"absent", "running", "succeeded", "failed", "terminating"}]
  /\ verdict \in [Builders -> {"none", "complete", "buildFailed"}]
  /\ late \in [Builders -> BOOLEAN] /\ built \subseteq Submissions
  /\ GroupTypeOK(Deployers, {"wait", "getPod", "cleanup", "publishReady", "publishFailed"},
       [committed |-> deployCommitted, position |-> deployPosition, assigned |-> deployAssigned,
        pc |-> deployPc, stopping |-> deployStopping, next |-> deployNext, last |-> deployLast,
        handled |-> deployHandled])
  /\ sandboxes \in [Submissions -> {"absent", "starting", "ready", "dead", "terminating"}]

\* Whatever crashes or moves, the group's offset never passes a record whose
\* handleRecord has not returned nil in some member (build-service and
\* sandbox-orchestrator, consumer.go: commit after handle, record by record).
HandledBeforeCommitted ==
  /\ 1..(buildCommitted - 1) \subseteq buildHandled
  /\ 1..(deployCommitted - 1) \subseteq deployHandled

\* A build is announced complete only if a build pod of the submission has
\* succeeded, be it retried, timed out or found in the way of its redelivery.
BuildEarned ==
  \A s \in Submissions : Published("complete", s) => s \in built

\* Once sandbox.ready is out, no redelivery, duplicate or second replica tears the
\* sandbox down: its deletion is left to bot-orchestrator (orchestrator.go:117-126,
\* consumer.go:100-103).
AnnouncedSandboxKept ==
  \A s \in Submissions : Published("ready", s) => sandboxes[s] \in Deploy!Live

\* With no failed call, crash or SIGTERM, an upload whose record is committed has its
\* answer, and so has a build, or a replica is working on it, even if another replica
\* that found its sandbox in the way committed first.
NothingVanishes ==
  troubles = 0 =>
    /\ \A o \in 1..(buildCommitted - 1) : log[o].kind = "created" =>
         Published("complete", log[o].sub) \/ Published("buildFailed", log[o].sub)
    /\ \A o \in 1..(deployCommitted - 1) : log[o].kind = "complete" =>
         Published("ready", log[o].sub) \/ Published("sandboxFailed", log[o].sub)
           \/ Deploying(log[o].sub)

\* docs/sandbox-orchestrator.md, "Failed sandboxes are cleaned up automatically":
\* with no failed call, crash or SIGTERM, a sandbox that is there was announced
\* or is being deployed.
NoOrphanSandbox ==
  troubles = 0 =>
    \A s \in Submissions :
      sandboxes[s] \in Deploy!Live => Published("ready", s) \/ Deploying(s)

\* Both groups catch up with the partition, whatever the pods do and in spite of
\* the faults: no wait in a handler is without end.
CatchesUp ==
  /\ []<>(buildCommitted = Len(log) + 1)
  /\ []<>(deployCommitted = Len(log) + 1)

\* docs/sandbox-orchestrator.md:5, "For each event, deploys the compiled binary ...
\* and publishes a lifecycle event": a build whose sandbox stands and whose record is
\* committed has its answer (after a crash, consumer.go:100-103 commits AlreadyExists
\* without one).
EachDeploymentAnswered ==
  \A o \in 1..(deployCommitted - 1) :
    log[o].kind = "complete" /\ sandboxes[log[o].sub] \in Deploy!Live =>
      Published("ready", log[o].sub) \/ Published("sandboxFailed", log[o].sub)
        \/ Deploying(log[o].sub)

=============================================================================
