--------------------------- MODULE BotOrchestrator ---------------------------
(***************************************************************************)
(* The bot-orchestrator service: one process that turns every sandbox.ready *)
(* record of submission.lifecycle (and every POST /run) into one load test. *)
(* Each test runs in a goroutine of its own: it takes the submission's      *)
(* entry in activeTests, creates the bot-runner Job, waits for it, deletes  *)
(* the Job and the sandbox pod, publishes test.complete, gives the entry    *)
(* back and, if it came from the log, commits its own record.               *)
(*                                                                         *)
(* Modelled with it: the partition it reads (an append-only log and the     *)
(* committed offset of the consumer group), the Jobs and sandbox pods of    *)
(* the cluster, SIGTERM, crash and restart, and calls to the API server or  *)
(* the broker that fail, or take effect and lose their answer.              *)
(*                                                                         *)
(* Records of other kinds are skipped without a commit (consumer.go:68-71)  *)
(* and leave no trace, so the log holds the sandbox.ready records alone.    *)
(***************************************************************************)
EXTENDS Naturals, Sequences, FiniteSets

CONSTANTS
  Submissions,    \* submission ids
  Deployed,       \* those that get a sandbox; "manual-run" is none of them
  NoSubmission,   \* of a handler that serves none, or has no pod to delete
  HttpSlots,      \* POST /run requests, each used once per incarnation
  MaxTests,       \* bound: sandbox.ready records and POST /run, together
  MaxTroubles,    \* bound: calls failed or unanswered while up, crashes, shutdowns
  Faulty          \* FALSE: no crash, and no call fails before a SIGTERM

\* Handlers are named by a log offset or by an HTTP slot, never by both.
ASSUME ConstantsAssumption ==
  /\ Deployed \subseteq Submissions
  /\ NoSubmission \notin Submissions
  /\ MaxTests \in Nat /\ MaxTroubles \in Nat /\ Faulty \in BOOLEAN
  /\ HttpSlots \cap (1..MaxTests) = {}

VARIABLES
  \* the broker
  log,           \* the submission of each sandbox.ready record
  committed,     \* next offset of the group, as the broker keeps it
  completes,     \* test.complete events published: [run, sub, success]
  \* the process
  proc,          \* "up", "stopping" (the root context is cancelled), "down"
  position,      \* next offset to fetch
  activeTests,   \* Server.activeTests, a set of submissions
  pc, sub, pod, ok,  \* per handler: where it is, its event, runTest's err == nil
  event,         \* per handler: the Job status its open watch has queued
  \* the cluster
  jobs,          \* per submission: the Job bot-runner-<submission>
  pods,          \* per submission: does its sandbox pod exist
  \* history
  owner,         \* per submission: the run that created its Job
  winners,       \* the runs whose Job succeeded
  ignored,       \* the records skipped because their test was active
  unanswered,    \* those whose report was not published, or whose handler died with its process
  requests, faults, restarts

broker  == <<log, committed, completes>>
local   == <<sub, pod, ok, event>>
history == <<ignored, unanswered>>
cluster == <<jobs, pods, owner, winners>>
counts  == <<requests, faults, restarts>>
vars == <<log, committed, completes, proc, position, activeTests, pc, sub, pod,
          ok, event, jobs, pods, owner, winners, ignored, unanswered, requests, faults, restarts>>

Records  == 1..MaxTests
Handlers == Records \cup HttpSlots

Steps == {"idle", "acquire", "create", "warmup", "watch", "deleteJob",
          "deletePod", "publish", "release", "commit", "done"}
\* From the write to activeTests to the deferred delete.
Testing == {"create", "warmup", "watch", "deleteJob", "deletePod", "publish", "release"}
\* Before the report.
Unreported == {"acquire", "create", "warmup", "watch", "deleteJob", "deletePod", "publish"}
\* Inside runTest, after it created its Job.
HoldsJob == {"warmup", "watch", "deleteJob"}

JobStates == {"absent", "running", "succeeded", "failed", "terminating"}
Outcomes  == {"succeeded", "failed"}
LiveJob   == {"running"} \cup Outcomes

\* One execution of a handler: the same record is another run after a restart.
Runs   == Handlers \X (0..MaxTroubles)
NoRun  == <<>>
Run(h) == <<h, restarts>>

Init ==
  /\ log = << >> /\ committed = 1 /\ completes = {}
  /\ proc = "up" /\ position = 1 /\ activeTests = {}
  /\ pc = [h \in Handlers |-> "idle"]
  /\ sub = [h \in Handlers |-> NoSubmission]
  /\ pod = [h \in Handlers |-> NoSubmission]
  /\ ok = [h \in Handlers |-> FALSE]
  /\ event = [h \in Handlers |-> "none"]
  /\ jobs = [s \in Submissions |-> "absent"]
  /\ pods = [s \in Submissions |-> FALSE]
  /\ owner = [s \in Submissions |-> NoRun]
  /\ winners = {} /\ ignored = {} /\ unanswered = {}
  /\ requests = 0 /\ faults = 0 /\ restarts = 0

-----------------------------------------------------------------------------
(* Calls under the root context.  While it is live a call succeeds, fails,  *)
(* or takes effect and loses its answer; once it is cancelled no call       *)
(* succeeds any more, but one in flight may still take effect.              *)
\* Something may still go wrong.
Quota == faults + restarts < MaxTroubles

Answers ==
  (IF proc = "up" THEN {"ok"} ELSE {}) \cup
  (IF proc = "stopping" \/ (Faulty /\ Quota) THEN {"failed", "lost"} ELSE {})

Charge(a) == faults' = IF proc = "up" /\ a # "ok" THEN faults + 1 ELSE faults

Goto(h, step) == pc' = [pc EXCEPT ![h] = step]

\* The handler has returned, its event is garbage.
Drop(h) ==
  /\ sub' = [sub EXCEPT ![h] = NoSubmission]
  /\ pod' = [pod EXCEPT ![h] = NoSubmission]
  /\ ok' = [ok EXCEPT ![h] = FALSE]
  /\ event' = event

(* The decisions of the handlers, each with a plausible wrong version the   *)
(* properties below are tried against.                                      *)
ActiveUnchecked(s) == FALSE
Active(s) == s \in activeTests

\* runTest returns on every Create error, AlreadyExists included.
AfterCreateTolerant(made, a) == IF a = "ok" THEN "warmup" ELSE "deletePod"
AfterCreateSilent(made, a) == IF made /\ a = "ok" THEN "warmup" ELSE "release"
AfterCreate(made, a) == IF made /\ a = "ok" THEN "warmup" ELSE "deletePod"

\* Both branches of the waitForJob error check delete the Job.
AfterWatchLeaky == "deletePod"
AfterWatch == "deleteJob"

\* A watch that closes without a verdict is an error.
SuccessAtWatchEndAssumed == TRUE
SuccessAtWatchEnd == FALSE

\* TimeoutSeconds closes the watch even if nothing cancels the context.
WatchMayEndUntimed == proc = "stopping"
WatchMayEnd == TRUE

\* CommitRecords commits the offset after the record.
NextOffsetTwice(h) == h + 2
NextOffset(h) == h + 1

\* A group member resumes at the group's offset, not at the end of the log.
ResumeAtEnd == Len(log) + 1
ResumeAt == committed

-----------------------------------------------------------------------------
(* The environment: sandbox-orchestrator creates a pod and announces it.    *)
SandboxReady(s) ==
  /\ Len(log) + requests < MaxTests
  /\ log' = Append(log, s)
  /\ pods' = [pods EXCEPT ![s] = TRUE]
  /\ UNCHANGED <<committed, completes, proc, position, activeTests, pc, local,
                 jobs, owner, winners, history, counts>>

(* Consumer.Run: one goroutine per fetched record.  The context is checked  *)
(* between fetches only, so the rest of a batch is started after SIGTERM.   *)
Poll ==
  /\ proc # "down"
  /\ position <= Len(log)
  /\ position' = position + 1
  /\ Goto(position, "acquire")
  /\ sub' = [sub EXCEPT ![position] = log[position]]
  /\ pod' = [pod EXCEPT ![position] = log[position]]
  /\ UNCHANGED <<broker, proc, activeTests, ok, event, cluster, history, counts>>

(* The closure of run() around orchestrator.Handle: skip the record if its  *)
(* submission is under test, else take the entry.                           *)
AcquireSkip(h) ==
  /\ pc[h] = "acquire" /\ Active(sub[h])
  /\ ignored' = ignored \cup {h}
  /\ Goto(h, "commit")
  /\ Drop(h)
  /\ UNCHANGED <<broker, proc, position, activeTests, cluster, unanswered, counts>>

AcquireTake(h) ==
  /\ pc[h] = "acquire" /\ ~Active(sub[h])
  /\ activeTests' = activeTests \cup {sub[h]}
  /\ Goto(h, "create")
  /\ UNCHANGED <<broker, proc, position, local, cluster, history, counts>>

(* runHandler: 409 (no state change) if the submission is active, else take *)
(* the entry and start the test.  PodName is a field of the body like any   *)
(* other: the pod of any submission, or none.                               *)
HttpRun(h, s, p) ==
  /\ proc # "down" /\ pc[h] = "idle"
  /\ Len(log) + requests < MaxTests /\ requests' = requests + 1
  /\ ~Active(s)
  /\ activeTests' = activeTests \cup {s}
  /\ Goto(h, "create")
  /\ sub' = [sub EXCEPT ![h] = s]
  /\ pod' = [pod EXCEPT ![h] = p]
  /\ UNCHANGED <<broker, proc, position, ok, event, cluster, history, faults, restarts>>

-----------------------------------------------------------------------------
(* runTest.  Create fails with AlreadyExists while a Job of that name is    *)
(* there, a terminating one included; every error returns at once, without  *)
(* deleting a Job the lost answer may have left.                            *)
CreateJob(h) ==
  /\ pc[h] = "create"
  /\ \E a \in Answers :
       LET s == sub[h]
           made == a # "failed" /\ jobs[s] = "absent"
       IN /\ jobs' = IF made THEN [jobs EXCEPT ![s] = "running"] ELSE jobs
          /\ owner' = IF made THEN [owner EXCEPT ![s] = Run(h)] ELSE owner
          /\ Goto(h, AfterCreate(made, a))
          /\ Charge(a)
  /\ UNCHANGED <<broker, proc, position, activeTests, local, pods, winners, history, requests, restarts>>

(* SIGTERM during the warm-up returns before any deleteJob.                 *)
WarmupCancelled(h) ==
  /\ pc[h] = "warmup" /\ proc = "stopping"
  /\ Goto(h, "deletePod")
  /\ UNCHANGED <<broker, proc, position, activeTests, local, cluster, history, counts>>

(* The warm-up is over: waitForJob.  The watch starts at the Job's present  *)
(* state, which arrives as ADDED and is ignored: only a later change of     *)
(* status is queued as MODIFIED (JobFinishes).                              *)
OpenWatch(h) ==
  /\ pc[h] = "warmup"
  /\ \E a \in Answers :
       /\ Goto(h, IF a = "ok" THEN "watch" ELSE AfterWatch)
       /\ Charge(a)
  /\ UNCHANGED <<broker, proc, position, activeTests, local, cluster, history, requests, restarts>>

WatchDelivers(h) ==
  /\ pc[h] = "watch" /\ event[h] # "none"
  /\ ok' = [ok EXCEPT ![h] = (event[h] = "succeeded")]
  /\ event' = [event EXCEPT ![h] = "none"]
  /\ Goto(h, AfterWatch)
  /\ UNCHANGED <<broker, proc, position, activeTests, sub, pod, cluster, history,
                 counts>>

(* JobTimeoutSec, an Error event, or the cancelled context closes the watch *)
(* at any time, whatever it had still to deliver.                           *)
WatchEnds(h) ==
  /\ pc[h] = "watch"
  /\ WatchMayEnd
  /\ ok' = [ok EXCEPT ![h] = SuccessAtWatchEnd]
  /\ event' = [event EXCEPT ![h] = "none"]
  /\ Goto(h, AfterWatch)
  /\ UNCHANGED <<broker, proc, position, activeTests, sub, pod, cluster, history,
                 counts>>

(* Foreground deletion: the Job keeps its name until its pods are gone.  An *)
(* error is logged and the run goes on.                                     *)
DeleteJob(h) ==
  /\ pc[h] = "deleteJob"
  /\ \E a \in Answers :
       /\ jobs' = IF a # "failed" /\ jobs[sub[h]] # "absent"
                    THEN [jobs EXCEPT ![sub[h]] = "terminating"] ELSE jobs
       /\ Charge(a)
  /\ Goto(h, "deletePod")
  /\ UNCHANGED <<broker, proc, position, activeTests, local, pods, owner, winners,
                 history, requests, restarts>>

-----------------------------------------------------------------------------
(* The rest of Handle: each error is logged, the next step is taken anyway. *)
DeletePod(h) ==
  /\ pc[h] = "deletePod"
  /\ \/ pod[h] = NoSubmission /\ UNCHANGED <<pods, faults>>
     \/ /\ pod[h] # NoSubmission
        /\ \E a \in Answers :
             /\ pods' = IF a # "failed" THEN [pods EXCEPT ![pod[h]] = FALSE] ELSE pods
             /\ Charge(a)
  /\ Goto(h, "publish")
  /\ UNCHANGED <<broker, proc, position, activeTests, local, jobs, owner, winners,
                 history, requests, restarts>>

PublishTestComplete(h) ==
  /\ pc[h] = "publish"
  /\ \E a \in Answers :
       /\ completes' = IF a = "failed" THEN completes
                       ELSE completes \cup {[run |-> Run(h), sub |-> sub[h], success |-> ok[h]]}
       /\ unanswered' = IF a = "failed" THEN unanswered \cup ({h} \cap Records) ELSE unanswered
       /\ Charge(a)
  /\ Goto(h, "release")
  /\ UNCHANGED <<log, committed, proc, position, activeTests, local, cluster, ignored, requests, restarts>>

(* The deferred delete; an HTTP run ends here, a record is still to commit. *)
Release(h) ==
  /\ pc[h] = "release"
  /\ activeTests' = activeTests \ {sub[h]}
  /\ Goto(h, IF h \in HttpSlots THEN "done" ELSE "commit")
  /\ Drop(h)
  /\ UNCHANGED <<broker, proc, position, cluster, history, counts>>

(* CommitRecords of this record alone, whatever the others are doing: the   *)
(* group's offset may pass a test still running, or go back.                *)
CommitRecord(h) ==
  /\ pc[h] = "commit"
  /\ \E a \in Answers :
       /\ committed' = IF a = "failed" THEN committed ELSE NextOffset(h)
       /\ Charge(a)
  /\ Goto(h, "done")
  /\ UNCHANGED <<log, completes, proc, position, activeTests, local, cluster, history, requests, restarts>>

-----------------------------------------------------------------------------
(* The cluster (external).  A finished Job is reported to the watches open  *)
(* on it.  Its TTL of 300 s outlasts the 15 s warm-up and the 120 s watch,  *)
(* so it never expires under the run that waits for it.                     *)
JobFinishes(s, outcome) ==
  /\ jobs[s] = "running"
  /\ jobs' = [jobs EXCEPT ![s] = outcome]
  /\ event' = [h \in Handlers |->
                 IF pc[h] = "watch" /\ sub[h] = s THEN outcome ELSE event[h]]
  /\ winners' = IF outcome = "succeeded" THEN winners \cup {owner[s]} ELSE winners
  /\ UNCHANGED <<broker, proc, position, activeTests, pc, sub, pod, ok, pods, owner,
                 history, counts>>

JobExpires(s) ==
  /\ jobs[s] \in Outcomes
  /\ \A h \in Handlers : pc[h] \in HoldsJob => sub[h] # s
  /\ jobs' = [jobs EXCEPT ![s] = "terminating"]
  /\ UNCHANGED <<broker, proc, position, activeTests, pc, local, pods, owner, winners,
                 history, counts>>

JobGone(s) ==
  /\ jobs[s] = "terminating"
  /\ jobs' = [jobs EXCEPT ![s] = "absent"]
  /\ owner' = [owner EXCEPT ![s] = NoRun]
  /\ UNCHANGED <<broker, proc, position, activeTests, pc, local, pods, winners,
                 history, counts>>

-----------------------------------------------------------------------------
(* SIGTERM cancels the root context; main waits for the consumer loop and   *)
(* the HTTP server, not for the tests, so the process may end at any point  *)
(* of theirs.  A crash ends it without warning.                             *)
Shutdown ==
  /\ proc = "up" /\ Quota
  /\ proc' = "stopping"
  /\ UNCHANGED <<broker, position, activeTests, pc, local, cluster, history, counts>>

ProcessEnds ==
  /\ proc' = "down"
  /\ activeTests' = {}
  /\ unanswered' = unanswered \cup {h \in Records : pc[h] \in Unreported}
  /\ pc' = [h \in Handlers |-> "idle"]
  /\ sub' = [h \in Handlers |-> NoSubmission]
  /\ pod' = [h \in Handlers |-> NoSubmission]
  /\ ok' = [h \in Handlers |-> FALSE]
  /\ event' = [h \in Handlers |-> "none"]
  /\ UNCHANGED <<broker, position, cluster, ignored, counts>>

Exit  == proc = "stopping" /\ ProcessEnds
Crash == Faulty /\ proc = "up" /\ Quota /\ ProcessEnds

(* The Deployment starts a new process: it resumes at the committed offset. *)
Restart ==
  /\ proc = "down"
  /\ proc' = "up"
  /\ position' = ResumeAt
  /\ restarts' = restarts + 1
  /\ UNCHANGED <<broker, activeTests, pc, local, cluster, history, requests, faults>>

-----------------------------------------------------------------------------
RecordStep(h) ==
  AcquireSkip(h) \/ AcquireTake(h) \/ CommitRecord(h)

HandlerStep(h) ==
  \/ CreateJob(h) \/ WarmupCancelled(h) \/ OpenWatch(h)
  \/ WatchDelivers(h) \/ WatchEnds(h) \/ DeleteJob(h) \/ DeletePod(h)
  \/ PublishTestComplete(h) \/ Release(h)
  \/ h \in Records /\ RecordStep(h)

Next ==
  \/ \E s \in Deployed : SandboxReady(s)
  \/ Poll
  \/ \E h \in HttpSlots, s \in Submissions, p \in Deployed \cup {NoSubmission} : HttpRun(h, s, p)
  \/ \E h \in Handlers : HandlerStep(h)
  \/ \E s \in Submissions, outcome \in Outcomes : JobFinishes(s, outcome)
  \/ \E s \in Submissions : JobExpires(s) \/ JobGone(s)
  \/ Shutdown \/ Exit \/ Crash \/ Restart

Spec == Init /\ [][Next]_vars

(* The goroutines of a live process are scheduled, the watch has a server   *)
(* side timeout, a stopping process exits and a Deployment restarts it.     *)
(* Nothing is assumed of requests, Jobs, faults or crashes.                 *)
Fairness ==
  /\ WF_vars(Poll)
  /\ \A h \in Handlers : WF_vars(HandlerStep(h))
  /\ WF_vars(Exit \/ Restart)

FairSpec == Spec /\ Fairness

-----------------------------------------------------------------------------
(* Properties *)

\* Every variable keeps its type, and the process only stops, or is down,
\* with a restart to come.
TypeOK ==
  /\ log \in Seq(Submissions) /\ Len(log) <= MaxTests
  /\ committed \in 1..(MaxTests + 1) /\ position \in 1..(MaxTests + 1)
  /\ completes \subseteq [run : Runs, sub : Submissions, success : BOOLEAN]
  /\ proc \in {"up", "stopping", "down"}
  /\ proc # "up" => Quota
  /\ activeTests \subseteq Submissions
  /\ pc \in [Handlers -> Steps]
  /\ sub \in [Handlers -> Submissions \cup {NoSubmission}]
  /\ pod \in [Handlers -> Submissions \cup {NoSubmission}] /\ ok \in [Handlers -> BOOLEAN]
  /\ event \in [Handlers -> Outcomes \cup {"none"}]
  /\ jobs \in [Submissions -> JobStates] /\ pods \in [Submissions -> BOOLEAN]
  /\ owner \in [Submissions -> Runs \cup {NoRun}]
  /\ winners \subseteq Runs /\ ignored \subseteq Records /\ unanswered \subseteq Records
  /\ requests \in 0..(MaxTests - Len(log))
  /\ faults \in Nat /\ restarts \in Nat /\ faults + restarts <= MaxTroubles

\* activeTests is exactly the set of submissions under test, each held by one
\* handler: the check-and-set of main.go:231-238 and 82-89 and the deferred
\* deletes never let two tests of a submission overlap, nor forget an entry.
MutualExclusion ==
  /\ activeTests = {sub[h] : h \in {k \in Handlers : pc[k] \in Testing}}
  /\ \A h, k \in Handlers :
       pc[h] \in Testing /\ pc[k] \in Testing /\ sub[h] = sub[k] => h = k

\* A run that waits for a Job, or is about to delete it, has a live Job that it
\* created itself: after a crash the redelivered record finds the name taken and must
\* not wait for, or delete, the Job of the run that died (orchestrator.go:136).
DeletesOwnJob ==
  \A h \in Handlers :
    pc[h] \in HoldsJob => jobs[sub[h]] \in LiveJob /\ owner[sub[h]] = Run(h)

\* A test.complete that says success answers a Job, created by the same run,
\* that succeeded: whatever is lost, timed out or redelivered
\* (orchestrator.go:57, 162-196).
SuccessIsEarned ==
  \A c \in completes : c.success => c.run \in winners

Calm == faults = 0 /\ restarts = 0 /\ proc = "up"

\* With no failed call and no shutdown, a submission that nobody tests has no
\* live Job: runTest deletes the Job on every path (orchestrator.go:149-158).
NoOrphanJob ==
  Calm => \A s \in Submissions :
            s \notin activeTests => jobs[s] \notin LiveJob

\* An offset the group has committed belongs to a record that is still being handled,
\* was skipped, or was reported, by this process or an earlier one, unless its own
\* report failed or the process ended under its handler.  Commits out of order
\* (consumer.go:82-92), whatever fails of them or of the handling of other records,
\* add nothing to these reasons.
NoSilentSkip ==
  \A o \in Records :
    o < committed =>
      \/ pc[o] \in Unreported
      \/ o \in ignored \cup unanswered
      \/ \E c \in completes : c.run[1] = o

\* With no failed call and no shutdown, a sandbox is torn down while its load test is
\* running only by a POST /run that names it as the pod of another submission: every
\* run is through with its own Job before it deletes a pod (orchestrator.go:149-158
\* before 65), but nothing compares a body's PodName with its SubmissionID
\* (main.go:54-70).
PodOutlivesJob ==
  [][\A s \in Submissions :
       Calm /\ pods[s] /\ ~pods'[s] /\ jobs[s] = "running" =>
         \E h \in HttpSlots : pc[h] = "deletePod" /\ pod[h] = s /\ sub[h] # s]_vars

\* Every test gives its submission back, even if its Job finished before the
\* watch was opened and never sends another event (orchestrator.go:162-196).
TestsEnd ==
  \A s \in Submissions : s \in activeTests ~> s \notin activeTests

\* A record the dead process had not committed is handed to a handler again.
Redelivered ==
  \A o \in Records :
    (proc = "down" /\ committed <= o /\ o <= Len(log)) ~> (pc[o] # "idle")

\* docs/bot-orchestrator.md:134, "Sandbox pod is always deleted after test,
\* regardless of outcome": deleteSandboxPod runs under the root context and the
\* group's offset may already be past the record (orchestrator.go:65,
\* consumer.go:89).
SandboxAlwaysDeleted ==
  \A s \in Submissions :
    (\E h \in Records : pc[h] \in HoldsJob /\ sub[h] = s) ~> ~pods[s]
=============================================================================
