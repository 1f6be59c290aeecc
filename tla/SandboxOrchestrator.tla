-------------------------- MODULE SandboxOrchestrator --------------------------
(***************************************************************************)
(* sandbox-orchestrator: handleRecord of build.complete.  A sandbox pod     *)
(* named after the submission runs the binary; sandbox.ready is published   *)
(* once it is ready, sandbox.failed if it does not get there.               *)
(***************************************************************************)
EXTENDS LifecycleConsumer

VARIABLES
  sandboxes   \* submission -> "absent", "starting", "ready", "dead", "terminating"

Live == {"starting", "ready", "dead"}

InitSandboxes(subs) ==
  /\ InitGroup
  /\ sandboxes = [s \in subs |-> "absent"]

\* handleRecord after a Create that did not make the pod: AlreadyExists is taken
\* for success and announced by nobody, anything else is a failed sandbox.
AfterCreateErrorEager(exists, a) == IF exists /\ a = "ok" THEN "cleanup" ELSE "publishFailed"
AfterCreateError(exists, a) == IF exists /\ a = "ok" THEN "commit" ELSE "publishFailed"

CreateSandboxPod(m) ==
  /\ pc[m] = "handle" /\ log[next[m]].kind = Wants
  /\ \E a \in Answers(m) :
       LET exists == sandboxes[Sub(m)] # "absent"
           made == a # "failed" /\ ~exists
       IN /\ sandboxes' = IF made THEN [sandboxes EXCEPT ![Sub(m)] = "starting"] ELSE sandboxes
          /\ Goto(m, IF made /\ a = "ok" THEN "wait" ELSE AfterCreateError(exists, a))
          /\ Charge(m, a)
  /\ UNCHANGED <<log, moves>>

\* Where waitForPodRunning's error leads: the deferred clean-up, then sandbox.failed.
AfterWaitErrorLeaky == "publishFailed"
AfterWaitErrorSilent == "commit"
AfterWaitError == "cleanup"

(* waitForPodRunning: running and ready, terminated, or the deadline of     *)
(* 60 s, the root context or the server ends the watch.                     *)
WaitSeesReady(m) ==
  /\ pc[m] = "wait" /\ sandboxes[Sub(m)] = "ready"
  /\ Goto(m, "getPod")
  /\ UNCHANGED <<log, troubles, moves, sandboxes>>

\* The deadline does not wait for the pod.
WaitMayEndUntimed(m) == sandboxes[Sub(m)] = "dead"
WaitMayEnd(m) == TRUE

WaitFails(m) ==
  /\ pc[m] = "wait" /\ WaitMayEnd(m)
  /\ Goto(m, AfterWaitError)
  /\ UNCHANGED <<log, troubles, moves, sandboxes>>

(* The pod's address; without one the sandbox has failed.                   *)
GetPod(m) ==
  /\ pc[m] = "getPod"
  /\ \E a \in Answers(m) :
       /\ Goto(m, IF a = "ok" THEN "publishReady" ELSE "cleanup")
       /\ Charge(m, a)
  /\ UNCHANGED <<log, moves, sandboxes>>

CleanupSandboxPod(m) ==
  /\ pc[m] = "cleanup"
  /\ \E a \in BackgroundAnswers :
       /\ sandboxes' = IF a = "ok" THEN [sandboxes EXCEPT ![Sub(m)] = "terminating"] ELSE sandboxes
       /\ ChargeBackground(a)
  /\ Goto(m, "publishFailed")
  /\ UNCHANGED <<log, moves>>

PublishSandboxReady(m) ==
  /\ pc[m] = "publishReady"
  /\ \E a \in Answers(m) :
       /\ log' = IF a = "failed" THEN log ELSE Publish("ready", Sub(m))
       /\ IF a = "ok" THEN Goto(m, "commit") ELSE Ends(m) /\ UNCHANGED committed
       /\ Charge(m, a)
  /\ UNCHANGED <<moves, sandboxes>>

PublishSandboxFailed(m) ==
  /\ pc[m] = "publishFailed"
  /\ \E a \in Answers(m) :
       /\ log' = IF a = "failed" THEN log ELSE Publish("sandboxFailed", Sub(m))
       /\ Charge(m, a)
  /\ Goto(m, "commit")
  /\ UNCHANGED <<moves, sandboxes>>

(* The cluster (external).                                                  *)
SandboxTurns(s, phase) ==
  /\ \/ sandboxes[s] = "starting" /\ phase \in {"ready", "dead"}
     \/ sandboxes[s] = "ready" /\ phase = "dead"
  /\ sandboxes' = [sandboxes EXCEPT ![s] = phase]
  /\ UNCHANGED <<log, troubles, moves, group>>

SandboxGone(s) ==
  /\ sandboxes[s] = "terminating"
  /\ sandboxes' = [sandboxes EXCEPT ![s] = "absent"]
  /\ UNCHANGED <<log, troubles, moves, group>>

DeployStep(m) ==
  \/ CreateSandboxPod(m) \/ WaitSeesReady(m) \/ WaitFails(m) \/ GetPod(m)
  \/ CleanupSandboxPod(m) \/ PublishSandboxReady(m) \/ PublishSandboxFailed(m)
=============================================================================
