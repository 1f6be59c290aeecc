----------------------- MODULE SubmissionPipeline_proofs -----------------------
(***************************************************************************)
(* The pipeline's safety properties, for any number of uploads, requests,   *)
(* replicas and faults.  What each service keeps to is proved beside it;    *)
(* here the services are put together, each seeing of the others only the   *)
(* records they add to the log.                                             *)
(***************************************************************************)
EXTENDS SubmissionPipeline, TLAPS

B == INSTANCE LifecycleServices_proofs WITH
  HandlerSteps <- {"watch", "cleanup", "publish"},
  Members <- Builders, Wants <- "created",
  committed <- buildCommitted, assigned <- buildAssigned, position <- buildPosition,
  pc <- buildPc, stopping <- buildStopping, next <- buildNext, last <- buildLast,
  handled <- buildHandled

D == INSTANCE LifecycleServices_proofs WITH
  HandlerSteps <- {"wait", "getPod", "cleanup", "publishReady", "publishFailed"},
  Members <- Deployers, Wants <- "complete",
  committed <- deployCommitted, assigned <- deployAssigned, position <- deployPosition,
  pc <- deployPc, stopping <- deployStopping, next <- deployNext, last <- deployLast,
  handled <- deployHandled

-----------------------------------------------------------------------------
(* Build and B, Deploy and D are the same services.                         *)

\* The steps of the consumer loop are those the lemmas of BuildService are about.
LEMMA BuildLoopIsB ==
  ASSUME NEW m \in Builders
  PROVE  /\ Build!LoopStep(m) <=> B!LoopStep(m)
         /\ Build!Disturbance(m) <=> B!Disturbance(m)
         /\ Build!Assign(m) <=> B!Assign(m)
         /\ Build!Around(m) <=> B!Around(m)
  BY DEF Build!Goto, B!Goto, Build!Ends, B!Ends, Build!Answers, B!Answers, Build!Charge,
     B!Charge, Build!LoopStep, B!LoopStep, Build!Poll, B!Poll, Build!SkipRecord,
     B!SkipRecord, Build!CommitRecord, B!CommitRecord, Build!StopAtPoll, B!StopAtPoll,
     Build!Start, B!Start, Build!BatchDone, B!BatchDone, Build!NextOffset, B!NextOffset,
     Build!Disturbance, B!Disturbance, Build!Stop, B!Stop, Build!Crash, B!Crash,
     Build!Assign, B!Assign, Build!Around, B!Around, Build!Forget, B!Forget

\* So are the steps of handleRecord.
LEMMA BuildHandlerIsB ==
  ASSUME NEW m \in Builders
  PROVE  /\ Build!BuildStep(m) <=> B!BuildStep(m)
         /\ Build!CleanupExpires(m) <=> B!CleanupExpires(m)
  BY DEF Build!Goto, B!Goto, Build!Ends, B!Ends, Build!Answers, B!Answers, Build!Charge,
     B!Charge, Build!BackgroundAnswers, B!BackgroundAnswers, Build!ChargeBackground,
     B!ChargeBackground, Build!Sub, B!Sub, Build!Publish, B!Publish, Build!BuildStep,
     B!BuildStep, Build!CreateBuildPod, B!CreateBuildPod, Build!WatchSeesEnd,
     B!WatchSeesEnd, Build!WatchEnds, B!WatchEnds, Build!VerdictAtWatchEnd,
     B!VerdictAtWatchEnd, Build!CleanupBuildPod, B!CleanupBuildPod,
     Build!PublishBuildComplete, B!PublishBuildComplete, Build!PublishBuildFailed,
     B!PublishBuildFailed, Build!Forget, B!Forget, Build!CleanupExpires, B!CleanupExpires,
     Build!group, B!group

\* And those of the build pods.
LEMMA BuildClusterIsB ==
  ASSUME NEW s \in Submissions
  PROVE  /\ \A phase : Build!BuildPodEnds(s, phase) <=> B!BuildPodEnds(s, phase)
         /\ Build!BuildPodGone(s) <=> B!BuildPodGone(s)
  BY DEF Build!BuildPodEnds, B!BuildPodEnds, Build!BuildPodGone, B!BuildPodGone,
     Build!group, B!group

\* The same of sandbox-orchestrator: its loop.
LEMMA DeployLoopIsD ==
  ASSUME NEW m \in Deployers
  PROVE  /\ Deploy!LoopStep(m) <=> D!LoopStep(m)
         /\ Deploy!Disturbance(m) <=> D!Disturbance(m)
         /\ Deploy!Assign(m) <=> D!Assign(m)
  BY DEF Deploy!Goto, D!Goto, Deploy!Ends, D!Ends, Deploy!Answers, D!Answers, Deploy!Charge,
     D!Charge, Deploy!LoopStep, D!LoopStep, Deploy!Poll, D!Poll, Deploy!SkipRecord,
     D!SkipRecord, Deploy!CommitRecord, D!CommitRecord, Deploy!StopAtPoll, D!StopAtPoll,
     Deploy!Start, D!Start, Deploy!BatchDone, D!BatchDone, Deploy!NextOffset, D!NextOffset,
     Deploy!Disturbance, D!Disturbance, Deploy!Stop, D!Stop, Deploy!Crash, D!Crash,
     Deploy!Assign, D!Assign

\* Its handleRecord.
LEMMA DeployHandlerIsD ==
  ASSUME NEW m \in Deployers
  PROVE  Deploy!DeployStep(m) <=> D!DeployStep(m)
  BY DEF Deploy!Goto, D!Goto, Deploy!Ends, D!Ends, Deploy!Answers, D!Answers, Deploy!Charge,
     D!Charge, Deploy!BackgroundAnswers, D!BackgroundAnswers, Deploy!ChargeBackground,
     D!ChargeBackground, Deploy!Sub, D!Sub, Deploy!Publish, D!Publish, Deploy!DeployStep,
     D!DeployStep, Deploy!CreateSandboxPod, D!CreateSandboxPod, Deploy!AfterCreateError,
     D!AfterCreateError, Deploy!WaitSeesReady, D!WaitSeesReady, Deploy!WaitFails,
     D!WaitFails, Deploy!WaitMayEnd, D!WaitMayEnd, Deploy!AfterWaitError, D!AfterWaitError,
     Deploy!GetPod, D!GetPod, Deploy!CleanupSandboxPod, D!CleanupSandboxPod,
     Deploy!PublishSandboxReady, D!PublishSandboxReady, Deploy!PublishSandboxFailed,
     D!PublishSandboxFailed

\* Its pods.
LEMMA DeployClusterIsD ==
  ASSUME NEW s \in Submissions
  PROVE  /\ \A phase : Deploy!SandboxTurns(s, phase) <=> D!SandboxTurns(s, phase)
         /\ Deploy!SandboxGone(s) <=> D!SandboxGone(s)
  BY DEF Deploy!SandboxTurns, D!SandboxTurns, Deploy!SandboxGone, D!SandboxGone,
     Deploy!group, D!group

\* They share the log, and what they say of it.
LEMMA SameLog ==
  /\ B!Records = D!Records
  /\ \A kinds : B!AddsOnly(kinds) <=> D!AddsOnly(kinds)
  /\ \A kind, s : /\ B!Said(kind, s) <=> Published(kind, s)
                  /\ D!Said(kind, s) <=> Published(kind, s)
  /\ B!Counted <=> D!Counted
  /\ B!StillCounted <=> D!StillCounted
  BY DEF B!Records, D!Records, B!AddsOnly, D!AddsOnly, B!LogAdds, D!LogAdds, B!LogGrows, D!LogGrows,
     B!Said, D!Said, B!SaidNext, D!SaidNext, Published, B!Counted, D!Counted,
     B!StillCounted, D!StillCounted

\* The pipeline's assumptions give those of the two services.
LEMMA Settings == B!BuildSetting /\ D!DeploySetting
  BY PipelineAssumption DEF B!BuildSetting, D!DeploySetting, B!Setting, D!Setting

-----------------------------------------------------------------------------
(* The inductive invariant.                                                 *)

\* A confirm that has loaded its entry has an upload to announce.
ApiTyped ==
  /\ pending \subseteq issued /\ issued \subseteq Submissions
  /\ confirm \in [Confirms ->
       [at : {"idle", "publish", "delete", "done"}, sub : Submissions \cup {NoSubmission}]]
  /\ \A c \in Confirms : confirm[c].at \in {"publish", "delete"} => confirm[c].sub \in Submissions

Shared == log \in Seq(B!Records) /\ B!Counted

IInv == Shared /\ ApiTyped /\ B!BuildInv /\ D!DeployInv

\* The pipeline starts with an empty log and idle services.
LEMMA InitEstablishes == Init => IInv
<1>. SUFFICES ASSUME Init  PROVE  IInv
  OBVIOUS
<1>1. log = << >> /\ troubles = 0 /\ moves = 0
  BY DEF Init
<1>2. Shared
  BY <1>1, PipelineAssumption DEF Shared, B!Counted
<1>3. ApiTyped
  BY DEF Init, Api!InitApi, Api!Idle, ApiTyped
<1>4. B!InitBuilds(Submissions) /\ D!InitSandboxes(Submissions)
  BY DEF Init, Build!InitBuilds, B!InitBuilds, Build!InitGroup, B!InitGroup,
     Deploy!InitSandboxes, D!InitSandboxes, Deploy!InitGroup, D!InitGroup
<1>5. B!BuildInv /\ D!DeployInv
  BY <1>1, <1>4, Settings, B!BuildInit, D!DeployInit
<1>. QED
  BY <1>2, <1>3, <1>5 DEF IInv

\* What a service sees of a step that leaves its variables alone.
LEMMA BuildAside ==
  ASSUME IInv, UNCHANGED buildVars, B!StillCounted, B!AddsOnly({"created", "ready", "sandboxFailed"})
  PROVE  B!BuildInv'
<1>1. /\ UNCHANGED B!group /\ verdict' = verdict /\ built' = built /\ B!BuildsTyped'
  BY DEF buildVars, B!group, IInv, B!BuildInv, B!BuildsTyped
<1>2. \A s \in Submissions : buildPods'[s] = "succeeded" => s \in built'
  BY DEF buildVars, IInv, B!BuildInv, B!Earned
<1>. QED
  BY <1>1, <1>2, Settings, B!BuildUndisturbed DEF IInv, Shared

\* What happens elsewhere leaves the invariant of sandbox-orchestrator.
LEMMA DeployAside ==
  ASSUME IInv, UNCHANGED deployVars, D!StillCounted, D!AddsOnly({"created", "complete", "buildFailed"})
  PROVE  D!DeployInv'
<1>1. UNCHANGED D!group /\ sandboxes' = sandboxes /\ D!SandboxTyped'
  BY DEF deployVars, D!group, IInv, D!DeployInv, D!SandboxTyped
<1>2. D!Counted
  BY SameLog DEF IInv, Shared
<1>. QED
  BY <1>1, <1>2, Settings, D!DeployUndisturbed DEF IInv

\* The log keeps its type and the bounds are kept when records are added.
LEMMA SharedKept ==
  ASSUME NEW kinds, B!AddsOnly(kinds), B!StillCounted
  PROVE  Shared'
  BY DEF Shared, B!AddsOnly, B!LogAdds, B!StillCounted

\* submission-api adds submission.created at most.
LEMMA ApiKeeps == IInv /\ ByApi /\ Api!ApiStep => IInv'
<1>. SUFFICES ASSUME IInv, ByApi, Api!ApiStep  PROVE  IInv'
  OBVIOUS
<1>1. B!AddsOnly({"created"}) /\ B!StillCounted /\ ApiTyped'
  <2>. USE PipelineAssumption DEF IInv, Shared, ApiTyped, B!Counted, B!StillCounted
  <2>1. CASE \E s \in Submissions : Api!SubmitInit(s) \/ \E c \in Confirms : Api!LoadPending(c, s)
    <3>1. log' = log /\ troubles' = troubles /\ moves' \in 0..MaxMoves
      BY <2>1 DEF Api!SubmitInit, Api!LoadPending
    <3>2. B!AddsOnly({"created"})
      BY <3>1, B!AddsNothing
    <3>3. CASE \E s \in Submissions : Api!SubmitInit(s)
      BY <3>1, <3>2, <3>3 DEF Api!SubmitInit
    <3>4. CASE \E s \in Submissions, c \in Confirms : Api!LoadPending(c, s)
      BY <3>1, <3>2, <3>4 DEF Api!LoadPending
    <3>. QED
      BY <2>1, <3>3, <3>4
  <2>2. ASSUME NEW c \in Confirms, Api!PublishSubmissionCreated(c)
        PROVE  B!AddsOnly({"created"}) /\ B!StillCounted /\ ApiTyped'
    <3>. DEFINE r == [kind |-> "created", sub |-> confirm[c].sub]
    <3>1. r \in B!Records /\ confirm[c].at = "publish"
      BY <2>2 DEF Api!PublishSubmissionCreated, B!Records
    <3>2. log' = log \/ log' = Append(log, r)
      BY <2>2 DEF Api!PublishSubmissionCreated
    <3>3. B!LogAdds({}) \/ B!LogAdds({r})
      BY <3>1, <3>2, B!LogStays, B!LogAppended
    <3>4. B!StillCounted
      BY <2>2 DEF Api!PublishSubmissionCreated
    <3>5. ApiTyped'
      <4>1. PICK at \in {"delete", "done"}, x \in {confirm[c].sub, NoSubmission} :
              /\ confirm' = [confirm EXCEPT ![c] = [at |-> at, sub |-> x]]
              /\ at = "delete" => x = confirm[c].sub
        <5>1. confirm' = [confirm EXCEPT ![c].at = "delete"] \/ confirm' = [confirm EXCEPT ![c] = Api!Done]
          BY <2>2 DEF Api!PublishSubmissionCreated
        <5>2. confirm[c] = [at |-> confirm[c].at, sub |-> confirm[c].sub]
          OBVIOUS
        <5>3. [confirm[c] EXCEPT !.at = "delete"] = [at |-> "delete", sub |-> confirm[c].sub]
          BY <5>2
        <5>. QED
          BY <5>1, <5>3 DEF Api!Done
      <4>2. pending' = pending /\ issued' = issued /\ confirm[c].sub \in Submissions
        BY <2>2, <3>1 DEF Api!PublishSubmissionCreated
      <4>. QED
        BY <4>1, <4>2
    <3>6. /\ {} \in SUBSET [kind : {"created"}, sub : Submissions]
          /\ {r} \in SUBSET [kind : {"created"}, sub : Submissions]
      BY <3>1
    <3>. QED
      BY <3>3, <3>4, <3>5, <3>6 DEF B!AddsOnly
  <2>3. CASE Api!ApiRestarts \/ \E c \in Confirms : Api!DeletePending(c)
    <3>1. log' = log /\ B!StillCounted
      BY <2>3 DEF Api!DeletePending, Api!ApiRestarts
    <3>2. B!AddsOnly({"created"})
      BY <3>1, B!AddsNothing
    <3>3. ApiTyped'
      BY <2>3 DEF Api!DeletePending, Api!ApiRestarts, Api!Idle, Api!Done
    <3>. QED
      BY <3>1, <3>2, <3>3
  <2>. QED
    BY <2>1, <2>2, <2>3 DEF Api!ApiStep
<1>3. /\ B!AddsOnly({"created", "ready", "sandboxFailed"})
      /\ B!AddsOnly({"created", "complete", "buildFailed"})
  BY <1>1, B!AddsMore
<1>4. B!BuildInv'
  BY <1>1, <1>3, BuildAside DEF ByApi
<1>5. D!DeployInv'
  BY <1>1, <1>3, SameLog, DeployAside DEF ByApi
<1>6. Shared'
  BY <1>1, SharedKept
<1>. QED
  BY <1>1, <1>4, <1>5, <1>6 DEF IInv

\* A step of one of the consumers: it keeps its own invariant, and the other sees only the
\* records it adds.
LEMMA BuildSideKeeps ==
  ASSUME IInv, ByBuild, B!BuildInv', B!StillCounted, B!AddsOnly({"complete", "buildFailed"})
  PROVE  IInv'
<1>1. B!AddsOnly({"created", "complete", "buildFailed"})
  BY B!AddsMore
<1>2. D!DeployInv'
  BY <1>1, SameLog, DeployAside DEF ByBuild
<1>3. Shared' /\ ApiTyped'
  BY SharedKept DEF ByBuild, apiVars, ApiTyped, IInv
<1>. QED
  BY <1>2, <1>3 DEF IInv

\* A step of sandbox-orchestrator leaves the rest of the pipeline.
LEMMA DeploySideKeeps ==
  ASSUME IInv, ByDeploy, D!DeployInv', D!StillCounted, D!AddsOnly({"ready", "sandboxFailed"})
  PROVE  IInv'
<1>1. D!AddsOnly({"created", "ready", "sandboxFailed"})
  BY D!AddsMore
<1>2. B!StillCounted
  BY SameLog
<1>3. B!BuildInv'
  BY <1>1, <1>2, SameLog, BuildAside DEF ByDeploy
<1>4. Shared' /\ ApiTyped'
  BY <1>1, <1>2, SameLog, SharedKept DEF ByDeploy, apiVars, ApiTyped, IInv
<1>. QED
  BY <1>3, <1>4 DEF IInv

\* A step or a failure of a build-service replica.
LEMMA BuilderKeeps ==
  ASSUME IInv, NEW m \in Builders, BuilderRuns(m) \/ BuilderDisturbed(m)
  PROVE  IInv'
<1>1. ByBuild /\ B!BuildSetting /\ B!Counted /\ log \in Seq(B!Records) /\ B!BuildInv
  BY Settings DEF BuilderRuns, BuilderDisturbed, IInv, Shared
<1>2. CASE Build!BuildStep(m)
  <2>1. B!BuildInv' /\ B!StillCounted /\ B!AddsOnly({"complete", "buildFailed"})
    BY <1>1, <1>2, BuildHandlerIsB, B!BuildStepKeeps
  <2>. QED
    BY <1>1, <2>1, BuildSideKeeps
<1>3. CASE (Build!LoopStep(m) \/ Build!Disturbance(m) \/ Build!Assign(m)) /\ Build!Around(m)
  <2>1. B!BuildInv' /\ B!StillCounted /\ log' = log
    BY <1>1, <1>3, BuildLoopIsB, B!BuildLoopKeeps
  <2>. QED
    BY <1>1, <2>1, B!AddsNothing, BuildSideKeeps
<1>4. CASE Build!CleanupExpires(m)
  <2>1. B!CleanupExpires(m)
    BY <1>4, BuildHandlerIsB
  <2>2. B!BuildInv' /\ B!StillCounted /\ log' = log
    BY <1>1, <2>1, B!BuildSurroundingsKeep
  <2>. QED
    BY <1>1, <2>2, B!AddsNothing, BuildSideKeeps
<1>. QED
  BY <1>2, <1>3, <1>4 DEF BuilderRuns, BuilderDisturbed

\* A step or a failure of a sandbox-orchestrator replica.
LEMMA DeployerKeeps ==
  ASSUME IInv, NEW m \in Deployers, DeployerRuns(m) \/ DeployerDisturbed(m)
  PROVE  IInv'
<1>1. ByDeploy /\ D!DeploySetting /\ D!Counted /\ log \in Seq(D!Records) /\ D!DeployInv
  BY Settings, SameLog DEF DeployerRuns, DeployerDisturbed, IInv, Shared
<1>2. CASE Deploy!DeployStep(m)
  <2>1. D!DeployInv' /\ D!StillCounted /\ D!AddsOnly({"ready", "sandboxFailed"})
    BY <1>1, <1>2, DeployHandlerIsD, D!DeployStepKeeps
  <2>. QED
    BY <1>1, <2>1, DeploySideKeeps
<1>3. CASE (Deploy!LoopStep(m) \/ Deploy!Disturbance(m) \/ Deploy!Assign(m)) /\ UNCHANGED sandboxes
  <2>1. D!DeployInv' /\ D!StillCounted /\ log' = log
    BY <1>1, <1>3, DeployLoopIsD, D!DeployLoopKeeps
  <2>. QED
    BY <1>1, <2>1, D!AddsNothing, DeploySideKeeps
<1>. QED
  BY <1>2, <1>3 DEF DeployerRuns, DeployerDisturbed

\* The build pods end and go.
LEMMA BuildClusterKeeps == IInv /\ BuildCluster => IInv'
<1>. SUFFICES ASSUME IInv, BuildCluster  PROVE  IInv'
  OBVIOUS
<1>1. PICK s \in Submissions :
        \/ \E phase \in {"succeeded", "failed"} : Build!BuildPodEnds(s, phase)
        \/ Build!BuildPodGone(s)
  BY DEF BuildCluster
<1>2. (\E phase \in {"succeeded", "failed"} : B!BuildPodEnds(s, phase)) \/ B!BuildPodGone(s)
  BY <1>1, BuildClusterIsB
<1>3. B!BuildInv' /\ B!StillCounted /\ log' = log
  BY <1>2, Settings, B!BuildSurroundingsKeep DEF IInv, Shared
<1>. QED
  BY <1>3, B!AddsNothing, BuildSideKeeps DEF BuildCluster, IInv, Shared

\* The sandbox pods come up, fail and go.
LEMMA SandboxClusterKeepsAll == IInv /\ SandboxCluster => IInv'
<1>. SUFFICES ASSUME IInv, SandboxCluster  PROVE  IInv'
  OBVIOUS
<1>1. PICK s \in Submissions :
        \/ \E phase \in {"ready", "dead"} : Deploy!SandboxTurns(s, phase)
        \/ Deploy!SandboxGone(s)
  BY DEF SandboxCluster
<1>2. (\E phase \in {"ready", "dead"} : D!SandboxTurns(s, phase)) \/ D!SandboxGone(s)
  BY <1>1, DeployClusterIsD
<1>3. D!Counted /\ log \in Seq(D!Records)
  BY SameLog DEF IInv, Shared
<1>4. D!DeployInv' /\ D!StillCounted /\ log' = log
  BY <1>2, <1>3, Settings, D!SandboxClusterKeeps DEF IInv
<1>. QED
  BY <1>3, <1>4, D!AddsNothing, DeploySideKeeps DEF SandboxCluster

\* A stuttering step.
LEMMA StutterKeeps == IInv /\ UNCHANGED vars => IInv'
<1>. SUFFICES ASSUME IInv, UNCHANGED vars  PROVE  IInv'
  OBVIOUS
<1>1. log' = log /\ B!StillCounted /\ ByDeploy /\ UNCHANGED <<buildVars, deployVars>>
  BY DEF vars, ByDeploy, IInv, Shared, B!Counted, B!StillCounted
<1>2. /\ D!AddsOnly({"created", "complete", "buildFailed"})
      /\ D!AddsOnly({"ready", "sandboxFailed"})
  BY <1>1, SameLog, D!AddsNothing DEF IInv, Shared
<1>3. D!DeployInv'
  BY <1>1, <1>2, SameLog, DeployAside
<1>. QED
  BY <1>1, <1>2, <1>3, SameLog, DeploySideKeeps

\* The invariant holds at the start and every step of the pipeline keeps it.
THEOREM Invariance == Spec => []IInv
<1>1. IInv /\ [Next]_vars => IInv'
  <2>. SUFFICES ASSUME IInv, [Next]_vars  PROVE  IInv'
    OBVIOUS
  <2>1. CASE ByApi /\ Api!ApiStep
    BY <2>1, ApiKeeps
  <2>2. CASE \E m \in Builders : BuilderRuns(m) \/ BuilderDisturbed(m)
    BY <2>2, BuilderKeeps
  <2>3. CASE \E m \in Deployers : DeployerRuns(m) \/ DeployerDisturbed(m)
    BY <2>3, DeployerKeeps
  <2>4. CASE BuildCluster
    BY <2>4, BuildClusterKeeps
  <2>5. CASE SandboxCluster
    BY <2>5, SandboxClusterKeepsAll
  <2>6. CASE UNCHANGED vars
    BY <2>6, StutterKeeps
  <2>. QED
    BY <2>1, <2>2, <2>3, <2>4, <2>5, <2>6 DEF Next
<1>. QED
  BY <1>1, InitEstablishes, PTL DEF Spec

-----------------------------------------------------------------------------
(* The properties.                                                          *)

\* Every variable keeps its type, and a member of a group has records of the log at hand
\* exactly while it handles them (consumer.go of both services).
THEOREM TypeCorrect == Spec => []TypeOK
<1>1. IInv => TypeOK
  <2>. SUFFICES ASSUME IInv  PROVE  TypeOK
    OBVIOUS
  <2>1. /\ log \in Seq([kind : {"created", "complete", "buildFailed", "ready", "sandboxFailed"},
                        sub : Submissions])
        /\ troubles \in 0..MaxTroubles /\ moves \in 0..MaxMoves
    BY DEF IInv, Shared, B!Records, B!Counted
  <2>2. Len(log) \in Nat /\ DOMAIN log = 1..Len(log)
    BY <2>1
  <2>3. GroupTypeOK(Builders, {"watch", "cleanup", "publish"},
          [committed |-> buildCommitted, position |-> buildPosition, assigned |-> buildAssigned,
           pc |-> buildPc, stopping |-> buildStopping, next |-> buildNext, last |-> buildLast,
           handled |-> buildHandled])
    BY <2>2 DEF IInv, B!BuildInv, B!GroupInv, B!GroupTyped, B!Resting, GroupTypeOK
  <2>4. GroupTypeOK(Deployers, {"wait", "getPod", "cleanup", "publishReady", "publishFailed"},
          [committed |-> deployCommitted, position |-> deployPosition, assigned |-> deployAssigned,
           pc |-> deployPc, stopping |-> deployStopping, next |-> deployNext, last |-> deployLast,
           handled |-> deployHandled])
    BY <2>2 DEF IInv, D!DeployInv, D!GroupInv, D!GroupTyped, D!Resting, GroupTypeOK
  <2>5. /\ buildPods \in [Submissions -> {"absent", "running", "succeeded", "failed", "terminating"}]
        /\ verdict \in [Builders -> {"none", "complete", "buildFailed"}]
        /\ late \in [Builders -> BOOLEAN] /\ built \subseteq Submissions
        /\ sandboxes \in [Submissions -> {"absent", "starting", "ready", "dead", "terminating"}]
    BY DEF IInv, B!BuildInv, B!BuildsTyped, D!DeployInv, D!SandboxTyped
  <2>6. /\ pending \subseteq issued /\ issued \subseteq Submissions
        /\ \A c \in Confirms : confirm[c] \in
             [at : {"idle", "publish", "delete", "done"}, sub : Submissions \cup {NoSubmission}]
    BY DEF IInv, ApiTyped
  <2>. QED
    BY <2>1, <2>3, <2>4, <2>5, <2>6 DEF TypeOK
<1>. QED
  BY <1>1, Invariance, PTL

\* Whatever crashes or moves, no group's offset passes a record that was not handled
\* (build-service and sandbox-orchestrator, consumer.go: commit after handle).
THEOREM NothingCommittedUnhandled == Spec => []HandledBeforeCommitted
<1>1. IInv => HandledBeforeCommitted
  BY B!CommittedIsHandled, D!CommittedIsHandled DEF IInv, B!BuildInv, D!DeployInv, HandledBeforeCommitted
<1>. QED
  BY <1>1, Invariance, PTL

\* build.complete is announced only for a build that a pod has succeeded in
\* (build-service, consumer.go and builder.go).
THEOREM CompleteMeansBuilt == Spec => []BuildEarned
<1>1. IInv => BuildEarned
  BY SameLog DEF IInv, B!BuildInv, B!Earned, BuildEarned
<1>. QED
  BY <1>1, Invariance, PTL

\* No redelivery, duplicate, crash or second replica deletes a sandbox that was announced
\* (sandbox-orchestrator, orchestrator.go:117-126, consumer.go:100-103).
THEOREM AnnouncedMeansThere == Spec => []AnnouncedSandboxKept
<1>1. IInv => AnnouncedSandboxKept
  BY SameLog DEF IInv, D!DeployInv, D!Held, D!Live, Deploy!Live, AnnouncedSandboxKept
<1>. QED
  BY <1>1, Invariance, PTL

\* Without troubles both services are calm.
LEMMA CalmPipeline ==
  ASSUME IInv, troubles = 0
  PROVE  /\ \A s \in Submissions : sandboxes[s] \in Deploy!Live => Published("ready", s) \/ Deploying(s)
         /\ \A o \in 1..(deployCommitted - 1) : log[o].kind = "complete" =>
              Published("ready", log[o].sub) \/ Published("sandboxFailed", log[o].sub)
                \/ Deploying(log[o].sub)
         /\ \A o \in 1..(buildCommitted - 1) : log[o].kind = "created" =>
              Published("complete", log[o].sub) \/ Published("buildFailed", log[o].sub)
<1>1. D!DeploySetting /\ D!DeployInv /\ B!BuildSetting /\ B!BuildInv /\ log \in Seq(D!Records)
  BY Settings, SameLog DEF IInv, Shared
<1>2. \A x : (\E m \in Deployers : deployPc[m] \notin {"down", "poll", "commit"} /\ D!Sub(m) = x)
               <=> Deploying(x)
  BY DEF D!Sub, Deploying
<1>3. /\ \A s \in Submissions : sandboxes[s] \in D!Live => Published("ready", s) \/ Deploying(s)
      /\ \A o \in 1..(deployCommitted - 1) : log[o].kind = "complete" =>
           Published("ready", log[o].sub) \/ Published("sandboxFailed", log[o].sub)
             \/ Deploying(log[o].sub)
  BY <1>1, <1>2, SameLog, D!DeployConclusions
<1>4. \A o \in 1..(buildCommitted - 1) : log[o].kind = "created" =>
        Published("complete", log[o].sub) \/ Published("buildFailed", log[o].sub)
  BY <1>1, SameLog, B!BuildConclusions
<1>. QED
  BY <1>3, <1>4 DEF D!Live, Deploy!Live

\* With no failed call, crash or SIGTERM, however many replicas and rebalances: what is
\* committed is answered or is being worked on.
THEOREM CommittedIsAnswered == Spec => []NothingVanishes
<1>1. IInv => NothingVanishes
  BY CalmPipeline DEF NothingVanishes
<1>. QED
  BY <1>1, Invariance, PTL

\* And a sandbox that is there was announced or is being deployed
\* (docs/sandbox-orchestrator.md, "Failed sandboxes are cleaned up automatically").
THEOREM SandboxesAccountedFor == Spec => []NoOrphanSandbox
<1>1. IInv => NoOrphanSandbox
  BY CalmPipeline DEF NoOrphanSandbox
<1>. QED
  BY <1>1, Invariance, PTL
=============================================================================
