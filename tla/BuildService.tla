----------------------------- MODULE BuildService -----------------------------
(***************************************************************************)
(* build-service: handleRecord of submission.created.  A build pod named    *)
(* after the submission compiles and uploads the binary; its end decides    *)
(* between build.complete and build.failed.                                 *)
(***************************************************************************)
EXTENDS LifecycleConsumer

VARIABLES
  buildPods,  \* submission -> "absent", "running", "succeeded", "failed", "terminating"
  verdict,    \* per member: what Build returned, as the event to publish
  late,       \* per member: have the 30 s of its clean-up context passed
  built       \* history: submissions a build pod has succeeded for

builds == <<buildPods, verdict, late, built>>

InitBuilds(subs) ==
  /\ InitGroup
  /\ buildPods = [s \in subs |-> "absent"]
  /\ verdict = [m \in Members |-> "none"] /\ late = [m \in Members |-> FALSE]
  /\ built = {}

\* The locals of handleRecord are gone when it returns, or its process does.
Forget(m) == verdict' = [verdict EXCEPT ![m] = "none"] /\ late' = [late EXCEPT ![m] = FALSE]

(* Build up to the pod.  Every error, AlreadyExists included, is a failed   *)
(* build; the clean-up is deferred only after a Create that succeeded.      *)
CreateBuildPod(m) ==
  /\ pc[m] = "handle" /\ log[next[m]].kind = Wants
  /\ \E a \in Answers(m) :
       LET made == a # "failed" /\ buildPods[Sub(m)] = "absent"
       IN /\ buildPods' = IF made THEN [buildPods EXCEPT ![Sub(m)] = "running"] ELSE buildPods
          /\ IF made /\ a = "ok" THEN Goto(m, "watch") /\ UNCHANGED verdict
             ELSE Goto(m, "publish") /\ verdict' = [verdict EXCEPT ![m] = "buildFailed"]
          /\ Charge(m, a)
  /\ UNCHANGED <<log, moves, late, built>>

(* The clean-up context is made before the watch: its 30 s run meanwhile,   *)
(* and while the logs of a failed build are read.                           *)
CleanupExpires(m) ==
  /\ pc[m] \in {"watch", "cleanup"} /\ ~late[m]
  /\ late' = [late EXCEPT ![m] = TRUE]
  /\ UNCHANGED <<log, troubles, moves, group, buildPods, verdict, built>>

WatchSeesEnd(m) ==
  /\ pc[m] = "watch" /\ buildPods[Sub(m)] \in {"succeeded", "failed"}
  /\ verdict' = [verdict EXCEPT ![m] =
                   IF buildPods[Sub(m)] = "succeeded" THEN "complete" ELSE "buildFailed"]
  /\ Goto(m, "cleanup")
  /\ UNCHANGED <<log, troubles, moves, buildPods, late, built>>

\* Only a pod seen to succeed makes a build complete.
VerdictAtWatchEndHopeful == "complete"
VerdictAtWatchEnd == "buildFailed"

(* The watch ends without a verdict: after 150 s, with the root context, or *)
(* because the server closes it.                                            *)
WatchEnds(m) ==
  /\ pc[m] = "watch"
  /\ verdict' = [verdict EXCEPT ![m] = VerdictAtWatchEnd]
  /\ Goto(m, "cleanup")
  /\ UNCHANGED <<log, troubles, moves, buildPods, late, built>>

CleanupBuildPod(m) ==
  /\ pc[m] = "cleanup"
  /\ \/ late[m] /\ UNCHANGED <<buildPods, troubles>>
     \/ /\ ~late[m]
        /\ \E a \in BackgroundAnswers :
             /\ buildPods' = IF a = "ok" THEN [buildPods EXCEPT ![Sub(m)] = "terminating"]
                             ELSE buildPods
             /\ ChargeBackground(a)
  /\ Goto(m, "publish")
  /\ UNCHANGED <<log, moves, verdict, late, built>>

(* The rest of handleRecord.  An unanswered build.failed is only logged; an *)
(* unanswered build.complete ends the process, and the record comes again.  *)
PublishBuildComplete(m) ==
  /\ pc[m] = "publish" /\ verdict[m] = "complete"
  /\ \E a \in Answers(m) :
       /\ log' = IF a = "failed" THEN log ELSE Publish("complete", Sub(m))
       /\ IF a = "ok" THEN Goto(m, "commit") ELSE Ends(m) /\ UNCHANGED committed
       /\ Charge(m, a)
  /\ Forget(m)
  /\ UNCHANGED <<moves, buildPods, built>>

PublishBuildFailed(m) ==
  /\ pc[m] = "publish" /\ verdict[m] = "buildFailed"
  /\ \E a \in Answers(m) :
       /\ log' = IF a = "failed" THEN log ELSE Publish("buildFailed", Sub(m))
       /\ Charge(m, a)
  /\ Goto(m, "commit") /\ Forget(m)
  /\ UNCHANGED <<moves, buildPods, built>>

(* The cluster (external).                                                  *)
BuildPodEnds(s, phase) ==
  /\ buildPods[s] = "running" /\ phase \in {"succeeded", "failed"}
  /\ buildPods' = [buildPods EXCEPT ![s] = phase]
  /\ built' = IF phase = "succeeded" THEN built \cup {s} ELSE built
  /\ UNCHANGED <<log, troubles, moves, group, verdict, late>>

BuildPodGone(s) ==
  /\ buildPods[s] = "terminating"
  /\ buildPods' = [buildPods EXCEPT ![s] = "absent"]
  /\ UNCHANGED <<log, troubles, moves, group, verdict, late, built>>

BuildStep(m) ==
  \/ CreateBuildPod(m) \/ WatchSeesEnd(m) \/ WatchEnds(m)
  \/ CleanupBuildPod(m) \/ PublishBuildComplete(m) \/ PublishBuildFailed(m)

\* A step of the loop, or of what happens to it, seen by the service.
Around(m) ==
  /\ UNCHANGED <<buildPods, built>>
  /\ IF pc'[m] = "down" THEN Forget(m) ELSE UNCHANGED <<verdict, late>>
=============================================================================
