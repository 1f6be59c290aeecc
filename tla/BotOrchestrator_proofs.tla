----------------------- MODULE BotOrchestrator_proofs -----------------------
(***************************************************************************)
(* Proofs, for every set of submissions and HTTP slots and every bound, of  *)
(* the safety properties of BotOrchestrator.                                *)
(*                                                                         *)
(* The inductive invariant IInv is the conjunction of the named parts       *)
(* below; each part has a lemma that every step preserves it, given the     *)
(* parts it leans on.                                                       *)
(***************************************************************************)
EXTENDS BotOrchestrator, TLAPS

\* Goroutines belong to one process: none outlives it, and a record that has
\* not been fetched has none.
Goroutines ==
  /\ proc = "down" => /\ activeTests = {}
                      /\ \A h \in Handlers : pc[h] = "idle" /\ ~ok[h] /\ event[h] = "none"
  /\ \A h \in Records : position <= h => pc[h] = "idle" /\ ~ok[h] /\ event[h] = "none"
  /\ \A h \in Handlers : pc[h] = "idle" => ~ok[h] /\ event[h] = "none"
  /\ \A h \in Handlers :
       pc[h] \in Testing \cup {"acquire"} => sub[h] \in Submissions

\* A record's handler deletes the pod of its own submission.
RecordsNamePods ==
  \A h \in Records : pc[h] \in Testing \cup {"acquire"} => pod[h] = sub[h]

\* Every Job there is was created by a run.
JobsOwned == \A s \in Submissions : jobs[s] # "absent" => owner[s] # NoRun

\* A verdict in flight, or already taken, names a Job that succeeded.
Earned ==
  \A h \in Handlers : event[h] = "succeeded" \/ ok[h] => Run(h) \in winners

\* While no call has failed, a live Job is held by the run that created it.
LiveJobHeld ==
  Calm => \A s \in Submissions :
            jobs[s] \in LiveJob => \E h \in Handlers : pc[h] \in HoldsJob /\ sub[h] = s

Answered(o) == o \in ignored \cup unanswered \/ \E c \in completes : c.run[1] = o

\* Only fetched records are committed.  A handler returns only after it skipped its
\* record, reported, or failed to, and a fetched record whose handler is gone has
\* had its answer or lost it with its process.
FetchedAccounted ==
  /\ committed <= position
  /\ \A o \in Records :
       /\ o < position => pc[o] # "idle" \/ Answered(o)
       /\ pc[o] \in {"release", "commit", "done"} => Answered(o)

IInv ==
  /\ TypeOK /\ Goroutines /\ RecordsNamePods /\ JobsOwned /\ MutualExclusion /\ DeletesOwnJob
  /\ Earned /\ SuccessIsEarned /\ LiveJobHeld /\ FetchedAccounted

-----------------------------------------------------------------------------
(* A step is one of the following.                                          *)
LEMMA StepCases ==
  ASSUME Next
  PROVE  \/ \E s \in Submissions : SandboxReady(s)
         \/ Poll
         \/ \E h \in HttpSlots, s \in Submissions, p \in Submissions \cup {NoSubmission} :
              HttpRun(h, s, p)
         \/ \E h \in Records : AcquireSkip(h)
         \/ \E h \in Records : AcquireTake(h)
         \/ \E h \in Records : CommitRecord(h)
         \/ \E h \in Handlers : CreateJob(h)
         \/ \E h \in Handlers : WarmupCancelled(h)
         \/ \E h \in Handlers : OpenWatch(h)
         \/ \E h \in Handlers : WatchDelivers(h)
         \/ \E h \in Handlers : WatchEnds(h)
         \/ \E h \in Handlers : DeleteJob(h)
         \/ \E h \in Handlers : DeletePod(h)
         \/ \E h \in Handlers : PublishTestComplete(h)
         \/ \E h \in Handlers : Release(h)
         \/ \E s \in Submissions, outcome \in Outcomes : JobFinishes(s, outcome)
         \/ \E s \in Submissions : JobExpires(s)
         \/ \E s \in Submissions : JobGone(s)
         \/ Shutdown \/ Exit \/ Crash \/ Restart
  BY ConstantsAssumption DEF Next, RecordStep, HandlerStep, Records

\* Typing: each action keeps every variable in its type.
LEMMA TypeStep ==
  ASSUME TypeOK, Goroutines, JobsOwned, Next
  PROVE  TypeOK'
<1> USE ConstantsAssumption DEF TypeOK, Records, Handlers, Steps, JobStates, Outcomes, Runs, Quota,
          broker, local, cluster, history, counts
<1>1. ASSUME NEW s \in Submissions, SandboxReady(s) PROVE TypeOK'
  BY <1>1 DEF SandboxReady
<1>2. ASSUME Poll PROVE TypeOK'
  BY <1>2 DEF Poll, Goto
<1>3. ASSUME NEW h \in HttpSlots, NEW s \in Submissions, NEW p \in Submissions \cup {NoSubmission},
            HttpRun(h, s, p) PROVE TypeOK'
  BY <1>3 DEF HttpRun, Goto, Active
<1>4. ASSUME NEW h \in Records, AcquireSkip(h) PROVE TypeOK'
  BY <1>4 DEF AcquireSkip, Goto, Drop, Active
<1>5. ASSUME NEW h \in Records, AcquireTake(h) PROVE TypeOK'
  BY <1>5 DEF AcquireTake, Goto, Active, Goroutines, Testing
<1>6. ASSUME NEW h \in Records, CommitRecord(h) PROVE TypeOK'
  BY <1>6 DEF CommitRecord, Goto, Answers, Charge, Quota, NextOffset
<1>7. ASSUME NEW h \in Handlers, CreateJob(h) PROVE TypeOK'
  <2>1. PICK a \in Answers :
          /\ jobs' = jobs \/ jobs' = [jobs EXCEPT ![sub[h]] = "running"]
          /\ owner' = owner \/ owner' = [owner EXCEPT ![sub[h]] = Run(h)]
          /\ pc' = [pc EXCEPT ![h] = "warmup"] \/ pc' = [pc EXCEPT ![h] = "deletePod"]
          /\ Charge(a)
    BY <1>7 DEF CreateJob, Goto, AfterCreate
  <2>2. /\ faults' \in Nat /\ faults' + restarts <= MaxTroubles
        /\ proc # "up" => faults' + restarts < MaxTroubles
    BY <2>1 DEF Answers, Charge, Quota
  <2>3. Run(h) \in Runs
    BY DEF Run
  <2>4. owner' \in [Submissions -> Runs \cup {NoRun}]
    BY <2>1, <2>3
  <2>5. jobs' \in [Submissions -> JobStates]
    BY <2>1
  <2>6. pc' \in [Handlers -> Steps]
    BY <2>1
  <2>. QED
    BY <1>7, <2>2, <2>4, <2>5, <2>6 DEF CreateJob
<1>8. ASSUME NEW h \in Handlers, WarmupCancelled(h) PROVE TypeOK'
  BY <1>8 DEF WarmupCancelled, Goto
<1>9. ASSUME NEW h \in Handlers, OpenWatch(h) PROVE TypeOK'
  BY <1>9 DEF OpenWatch, Goto, Answers, Charge, AfterWatch
<1>10. ASSUME NEW h \in Handlers, WatchDelivers(h) PROVE TypeOK'
  BY <1>10 DEF WatchDelivers, Goto, AfterWatch
<1>11. ASSUME NEW h \in Handlers, WatchEnds(h) PROVE TypeOK'
  BY <1>11 DEF WatchEnds, Goto, AfterWatch, SuccessAtWatchEnd, WatchMayEnd
<1>12. ASSUME NEW h \in Handlers, DeleteJob(h) PROVE TypeOK'
  <2>1. PICK a \in Answers :
          /\ jobs' = jobs \/ jobs' = [jobs EXCEPT ![sub[h]] = "terminating"]
          /\ Charge(a)
    BY <1>12 DEF DeleteJob
  <2>2. /\ faults' \in Nat /\ faults' + restarts <= MaxTroubles
        /\ proc # "up" => faults' + restarts < MaxTroubles
    BY <2>1 DEF Answers, Charge, Quota
  <2>3. jobs' \in [Submissions -> JobStates]
    BY <2>1
  <2>. QED
    BY <1>12, <2>2, <2>3 DEF DeleteJob, Goto
<1>13. ASSUME NEW h \in Handlers, DeletePod(h) PROVE TypeOK'
  <2>1. \/ pods' = pods /\ faults' = faults
        \/ \E a \in Answers :
             /\ pods' = pods \/ pods' = [pods EXCEPT ![pod[h]] = FALSE]
             /\ Charge(a)
    BY <1>13 DEF DeletePod
  <2>2. /\ faults' \in Nat /\ faults' + restarts <= MaxTroubles
        /\ proc # "up" => faults' + restarts < MaxTroubles
    BY <2>1 DEF Answers, Charge, Quota
  <2>3. pods' \in [Submissions -> BOOLEAN]
    BY <2>1
  <2>. QED
    BY <1>13, <2>2, <2>3 DEF DeletePod, Goto
<1>14. ASSUME NEW h \in Handlers, PublishTestComplete(h) PROVE TypeOK'
  <2>1. PICK a \in Answers :
          /\ \/ completes' = completes
             \/ completes' = completes \cup {[run |-> Run(h), sub |-> sub[h], success |-> ok[h]]}
          /\ Charge(a)
    BY <1>14 DEF PublishTestComplete
  <2>2. /\ faults' \in Nat /\ faults' + restarts <= MaxTroubles
        /\ proc # "up" => faults' + restarts < MaxTroubles
    BY <2>1 DEF Answers, Charge, Quota
  <2>3. [run |-> Run(h), sub |-> sub[h], success |-> ok[h]] \in
          [run : Runs, sub : Submissions, success : BOOLEAN]
    BY <1>14 DEF PublishTestComplete, Run, Goroutines, Testing
  <2>4. completes' \subseteq [run : Runs, sub : Submissions, success : BOOLEAN]
    BY <2>1, <2>3
  <2>. QED
    BY <1>14, <2>2, <2>4 DEF PublishTestComplete, Goto
<1>15. ASSUME NEW h \in Handlers, Release(h) PROVE TypeOK'
  BY <1>15 DEF Release, Goto, Drop
<1>16. ASSUME NEW s \in Submissions, NEW outcome \in Outcomes, JobFinishes(s, outcome) PROVE TypeOK'
  <2>1. winners' \subseteq Runs
    BY <1>16 DEF JobFinishes, JobsOwned
  <2>. QED
    BY <1>16, <2>1 DEF JobFinishes
<1>17. ASSUME NEW s \in Submissions, JobExpires(s) PROVE TypeOK'
  BY <1>17 DEF JobExpires
<1>18. ASSUME NEW s \in Submissions, JobGone(s) PROVE TypeOK'
  BY <1>18 DEF JobGone
<1>19. ASSUME Shutdown PROVE TypeOK'
  BY <1>19 DEF Shutdown
<1>20. ASSUME Exit PROVE TypeOK'
  BY <1>20 DEF Exit, ProcessEnds
<1>21. ASSUME Crash PROVE TypeOK'
  BY <1>21 DEF Crash, ProcessEnds
<1>22. ASSUME Restart PROVE TypeOK'
  BY <1>22 DEF Restart, ResumeAt
<1> HIDE DEF TypeOK, Records, Handlers, Outcomes
<1>q. QED
  BY <1>1, <1>2, <1>3, <1>4, <1>5, <1>6, <1>7, <1>8, <1>9, <1>10, <1>11, <1>12, <1>13, <1>14, <1>15, <1>16, <1>17, <1>18, <1>19, <1>20, <1>21, <1>22, StepCases

\* A goroutine starts from a fetched record or a request and ends with the process.
LEMMA GoroutinesStep ==
  ASSUME TypeOK, Goroutines, Next
  PROVE  Goroutines'
<1> USE DEF TypeOK, Goroutines, Records, Handlers, Testing, Outcomes, broker, local, cluster, history, counts
<1>1. ASSUME NEW s \in Submissions, SandboxReady(s) PROVE Goroutines'
  BY <1>1 DEF SandboxReady
<1>2. ASSUME Poll PROVE Goroutines'
  BY <1>2 DEF Poll, Goto
<1>3. ASSUME NEW h \in HttpSlots, NEW s \in Submissions, NEW p \in Submissions \cup {NoSubmission},
            HttpRun(h, s, p) PROVE Goroutines'
  BY <1>3, ConstantsAssumption DEF HttpRun, Goto, Active
<1>4. ASSUME NEW h \in Records, AcquireSkip(h) PROVE Goroutines'
  BY <1>4 DEF AcquireSkip, Goto, Drop, Active
<1>5. ASSUME NEW h \in Records, AcquireTake(h) PROVE Goroutines'
  BY <1>5 DEF AcquireTake, Goto, Active
<1>6. ASSUME NEW h \in Records, CommitRecord(h) PROVE Goroutines'
  BY <1>6 DEF CommitRecord, Goto, Answers, Charge, NextOffset
<1>7. ASSUME NEW h \in Handlers, CreateJob(h) PROVE Goroutines'
  BY <1>7 DEF CreateJob, Goto, Answers, Charge, AfterCreate, Run
<1>8. ASSUME NEW h \in Handlers, WarmupCancelled(h) PROVE Goroutines'
  BY <1>8 DEF WarmupCancelled, Goto
<1>9. ASSUME NEW h \in Handlers, OpenWatch(h) PROVE Goroutines'
  BY <1>9 DEF OpenWatch, Goto, Answers, Charge, AfterWatch
<1>10. ASSUME NEW h \in Handlers, WatchDelivers(h) PROVE Goroutines'
  BY <1>10 DEF WatchDelivers, Goto, AfterWatch
<1>11. ASSUME NEW h \in Handlers, WatchEnds(h) PROVE Goroutines'
  BY <1>11 DEF WatchEnds, Goto, AfterWatch, SuccessAtWatchEnd, WatchMayEnd
<1>12. ASSUME NEW h \in Handlers, DeleteJob(h) PROVE Goroutines'
  BY <1>12 DEF DeleteJob, Goto, Answers, Charge
<1>13. ASSUME NEW h \in Handlers, DeletePod(h) PROVE Goroutines'
  BY <1>13 DEF DeletePod, Goto, Answers, Charge
<1>14. ASSUME NEW h \in Handlers, PublishTestComplete(h) PROVE Goroutines'
  BY <1>14 DEF PublishTestComplete, Goto, Answers, Charge, Run
<1>15. ASSUME NEW h \in Handlers, Release(h) PROVE Goroutines'
  BY <1>15 DEF Release, Goto, Drop
<1>16. ASSUME NEW s \in Submissions, NEW outcome \in Outcomes, JobFinishes(s, outcome) PROVE Goroutines'
  BY <1>16 DEF JobFinishes
<1>17. ASSUME NEW s \in Submissions, JobExpires(s) PROVE Goroutines'
  BY <1>17 DEF JobExpires
<1>18. ASSUME NEW s \in Submissions, JobGone(s) PROVE Goroutines'
  BY <1>18 DEF JobGone
<1>19. ASSUME Shutdown PROVE Goroutines'
  BY <1>19 DEF Shutdown
<1>20. ASSUME Exit PROVE Goroutines'
  BY <1>20 DEF Exit, ProcessEnds
<1>21. ASSUME Crash PROVE Goroutines'
  BY <1>21 DEF Crash, ProcessEnds
<1>22. ASSUME Restart PROVE Goroutines'
  BY <1>22 DEF Restart, ResumeAt
<1> HIDE DEF TypeOK, Goroutines, Records, Handlers, Outcomes
<1>q. QED
  BY <1>1, <1>2, <1>3, <1>4, <1>5, <1>6, <1>7, <1>8, <1>9, <1>10, <1>11, <1>12, <1>13, <1>14, <1>15, <1>16, <1>17, <1>18, <1>19, <1>20, <1>21, <1>22, StepCases

\* A Job appears with its owner and keeps it until its name is free again.
LEMMA JobsOwnedStep ==
  ASSUME TypeOK, JobsOwned, Next
  PROVE  JobsOwned'
<1> USE DEF TypeOK, JobsOwned, NoRun, broker, local, cluster, history, counts
<1>1. ASSUME NEW s \in Submissions, SandboxReady(s) PROVE JobsOwned'
  BY <1>1 DEF SandboxReady
<1>2. ASSUME Poll PROVE JobsOwned'
  BY <1>2 DEF Poll, Goto
<1>3. ASSUME NEW h \in HttpSlots, NEW s \in Submissions, NEW p \in Submissions \cup {NoSubmission},
            HttpRun(h, s, p) PROVE JobsOwned'
  BY <1>3 DEF HttpRun, Goto, Active
<1>4. ASSUME NEW h \in Records, AcquireSkip(h) PROVE JobsOwned'
  BY <1>4 DEF AcquireSkip, Goto, Drop, Active
<1>5. ASSUME NEW h \in Records, AcquireTake(h) PROVE JobsOwned'
  BY <1>5 DEF AcquireTake, Goto, Active
<1>6. ASSUME NEW h \in Records, CommitRecord(h) PROVE JobsOwned'
  BY <1>6 DEF CommitRecord, Goto, Answers, Charge, NextOffset
<1>7. ASSUME NEW h \in Handlers, CreateJob(h) PROVE JobsOwned'
  BY <1>7 DEF CreateJob, Goto, Answers, Charge, AfterCreate, Run
<1>8. ASSUME NEW h \in Handlers, WarmupCancelled(h) PROVE JobsOwned'
  BY <1>8 DEF WarmupCancelled, Goto
<1>9. ASSUME NEW h \in Handlers, OpenWatch(h) PROVE JobsOwned'
  BY <1>9 DEF OpenWatch, Goto, Answers, Charge, AfterWatch
<1>10. ASSUME NEW h \in Handlers, WatchDelivers(h) PROVE JobsOwned'
  BY <1>10 DEF WatchDelivers, Goto, AfterWatch
<1>11. ASSUME NEW h \in Handlers, WatchEnds(h) PROVE JobsOwned'
  BY <1>11 DEF WatchEnds, Goto, AfterWatch, SuccessAtWatchEnd, WatchMayEnd
<1>12. ASSUME NEW h \in Handlers, DeleteJob(h) PROVE JobsOwned'
  BY <1>12 DEF DeleteJob, Goto, Answers, Charge
<1>13. ASSUME NEW h \in Handlers, DeletePod(h) PROVE JobsOwned'
  BY <1>13 DEF DeletePod, Goto, Answers, Charge
<1>14. ASSUME NEW h \in Handlers, PublishTestComplete(h) PROVE JobsOwned'
  BY <1>14 DEF PublishTestComplete, Goto, Answers, Charge, Run
<1>15. ASSUME NEW h \in Handlers, Release(h) PROVE JobsOwned'
  BY <1>15 DEF Release, Goto, Drop
<1>16. ASSUME NEW s \in Submissions, NEW outcome \in Outcomes, JobFinishes(s, outcome) PROVE JobsOwned'
  BY <1>16 DEF JobFinishes
<1>17. ASSUME NEW s \in Submissions, JobExpires(s) PROVE JobsOwned'
  BY <1>17 DEF JobExpires, Outcomes
<1>18. ASSUME NEW s \in Submissions, JobGone(s) PROVE JobsOwned'
  BY <1>18 DEF JobGone
<1>19. ASSUME Shutdown PROVE JobsOwned'
  BY <1>19 DEF Shutdown
<1>20. ASSUME Exit PROVE JobsOwned'
  BY <1>20 DEF Exit, ProcessEnds
<1>21. ASSUME Crash PROVE JobsOwned'
  BY <1>21 DEF Crash, ProcessEnds
<1>22. ASSUME Restart PROVE JobsOwned'
  BY <1>22 DEF Restart, ResumeAt
<1> HIDE DEF TypeOK, JobsOwned
<1>q. QED
  BY <1>1, <1>2, <1>3, <1>4, <1>5, <1>6, <1>7, <1>8, <1>9, <1>10, <1>11, <1>12, <1>13, <1>14, <1>15, <1>16, <1>17, <1>18, <1>19, <1>20, <1>21, <1>22, StepCases

\* A record's handler takes both names from its record.
LEMMA RecordsNamePodsStep ==
  ASSUME TypeOK, Goroutines, RecordsNamePods, Next
  PROVE  RecordsNamePods'
<1> USE DEF TypeOK, RecordsNamePods, Records, Handlers, Testing, broker, local, cluster, history, counts
<1>1. ASSUME NEW s \in Submissions, SandboxReady(s) PROVE RecordsNamePods'
  BY <1>1 DEF SandboxReady
<1>2. ASSUME Poll PROVE RecordsNamePods'
  BY <1>2 DEF Poll, Goto
<1>3. ASSUME NEW h \in HttpSlots, NEW s \in Submissions, NEW p \in Submissions \cup {NoSubmission},
            HttpRun(h, s, p) PROVE RecordsNamePods'
  BY <1>3, ConstantsAssumption DEF HttpRun, Goto, Active
<1>4. ASSUME NEW h \in Records, AcquireSkip(h) PROVE RecordsNamePods'
  BY <1>4 DEF AcquireSkip, Goto, Drop, Active
<1>5. ASSUME NEW h \in Records, AcquireTake(h) PROVE RecordsNamePods'
  BY <1>5 DEF AcquireTake, Goto, Active
<1>6. ASSUME NEW h \in Records, CommitRecord(h) PROVE RecordsNamePods'
  BY <1>6 DEF CommitRecord, Goto, Answers, Charge, NextOffset
<1>7. ASSUME NEW h \in Handlers, CreateJob(h) PROVE RecordsNamePods'
  BY <1>7 DEF CreateJob, Goto, Answers, Charge, AfterCreate, Run
<1>8. ASSUME NEW h \in Handlers, WarmupCancelled(h) PROVE RecordsNamePods'
  BY <1>8 DEF WarmupCancelled, Goto
<1>9. ASSUME NEW h \in Handlers, OpenWatch(h) PROVE RecordsNamePods'
  BY <1>9 DEF OpenWatch, Goto, Answers, Charge, AfterWatch
<1>10. ASSUME NEW h \in Handlers, WatchDelivers(h) PROVE RecordsNamePods'
  BY <1>10 DEF WatchDelivers, Goto, AfterWatch
<1>11. ASSUME NEW h \in Handlers, WatchEnds(h) PROVE RecordsNamePods'
  BY <1>11 DEF WatchEnds, Goto, AfterWatch, SuccessAtWatchEnd, WatchMayEnd
<1>12. ASSUME NEW h \in Handlers, DeleteJob(h) PROVE RecordsNamePods'
  BY <1>12 DEF DeleteJob, Goto, Answers, Charge
<1>13. ASSUME NEW h \in Handlers, DeletePod(h) PROVE RecordsNamePods'
  BY <1>13 DEF DeletePod, Goto, Answers, Charge
<1>14. ASSUME NEW h \in Handlers, PublishTestComplete(h) PROVE RecordsNamePods'
  BY <1>14 DEF PublishTestComplete, Goto, Answers, Charge, Run
<1>15. ASSUME NEW h \in Handlers, Release(h) PROVE RecordsNamePods'
  BY <1>15 DEF Release, Goto, Drop
<1>16. ASSUME NEW s \in Submissions, NEW outcome \in Outcomes, JobFinishes(s, outcome) PROVE RecordsNamePods'
  BY <1>16 DEF JobFinishes
<1>17. ASSUME NEW s \in Submissions, JobExpires(s) PROVE RecordsNamePods'
  BY <1>17 DEF JobExpires, Outcomes
<1>18. ASSUME NEW s \in Submissions, JobGone(s) PROVE RecordsNamePods'
  BY <1>18 DEF JobGone
<1>19. ASSUME Shutdown PROVE RecordsNamePods'
  BY <1>19 DEF Shutdown
<1>20. ASSUME Exit PROVE RecordsNamePods'
  BY <1>20 DEF Exit, ProcessEnds
<1>21. ASSUME Crash PROVE RecordsNamePods'
  BY <1>21 DEF Crash, ProcessEnds
<1>22. ASSUME Restart PROVE RecordsNamePods'
  BY <1>22 DEF Restart, ResumeAt
<1> HIDE DEF TypeOK, RecordsNamePods, Records, Handlers
<1>q. QED
  BY <1>1, <1>2, <1>3, <1>4, <1>5, <1>6, <1>7, <1>8, <1>9, <1>10, <1>11, <1>12, <1>13, <1>14, <1>15, <1>16, <1>17, <1>18, <1>19, <1>20, <1>21, <1>22, StepCases

\* The check-and-set and the deferred delete keep activeTests and the tests in step.
LEMMA MutualExclusionStep ==
  ASSUME TypeOK, Goroutines, MutualExclusion, Next
  PROVE  MutualExclusion'
<1> USE DEF TypeOK, Goroutines, MutualExclusion, Testing, broker, local, cluster, history, counts
<1>1. ASSUME NEW s \in Submissions, SandboxReady(s) PROVE MutualExclusion'
  BY <1>1 DEF SandboxReady
<1>2. ASSUME Poll PROVE MutualExclusion'
  <2>1. position \in Handlers /\ pc[position] = "idle"
    BY <1>2, ConstantsAssumption DEF Poll, Records, Handlers
  <2>2. \A k \in Handlers : /\ pc'[k] \in Testing <=> pc[k] \in Testing
                            /\ pc[k] \in Testing => sub'[k] = sub[k]
    BY <1>2, <2>1 DEF Poll, Goto
  <2>. QED
    BY <1>2, <2>2 DEF Poll
<1>3. ASSUME NEW h \in HttpSlots, NEW s \in Submissions, NEW p \in Submissions \cup {NoSubmission},
            HttpRun(h, s, p) PROVE MutualExclusion'
  <2>1. h \in Handlers /\ pc[h] \notin Testing
    BY <1>3 DEF HttpRun, Handlers
  <2>2. /\ activeTests' = activeTests \cup {s} /\ sub'[h] = s
        /\ \A k \in Handlers : /\ pc'[k] \in Testing <=> (k = h \/ pc[k] \in Testing)
                               /\ k # h => sub'[k] = sub[k]
    BY <1>3, <2>1 DEF HttpRun, Goto
  <2>3. \A k \in Handlers : pc[k] \in Testing => sub[k] # s
    BY <1>3 DEF HttpRun, Active
  <2>4. activeTests' = {sub'[k] : k \in {i \in Handlers : pc'[i] \in Testing}}
    <3> DEFINE Held == {sub[k] : k \in {i \in Handlers : pc[i] \in Testing}}
    <3>1. \A x : x \in Held <=> \E k \in Handlers : pc[k] \in Testing /\ sub[k] = x
      OBVIOUS
    <3>2. activeTests = Held
      OBVIOUS
    <3> HIDE DEF TypeOK, Goroutines, MutualExclusion, Testing, Held
    <3>3. \A x : x \in activeTests' <=>
                  \E k \in Handlers : pc'[k] \in Testing /\ sub'[k] = x
      BY <2>1, <2>2, <3>1, <3>2
    <3>. QED
      BY <3>3
  <2>5. \A i, k \in Handlers :
          pc'[i] \in Testing /\ pc'[k] \in Testing /\ sub'[i] = sub'[k] => i = k
    BY <2>2, <2>3
  <2>. QED
    BY <2>4, <2>5
<1>4. ASSUME NEW h \in Records, AcquireSkip(h) PROVE MutualExclusion'
  BY <1>4 DEF AcquireSkip, Goto, Drop, Active
<1>5. ASSUME NEW h \in Records, AcquireTake(h) PROVE MutualExclusion'
  <2>1. h \in Handlers /\ pc[h] \notin Testing
    BY <1>5 DEF AcquireTake, Handlers
  <2>2. /\ activeTests' = activeTests \cup {sub[h]} /\ sub'[h] = sub[h]
        /\ \A k \in Handlers : /\ pc'[k] \in Testing <=> (k = h \/ pc[k] \in Testing)
                               /\ k # h => sub'[k] = sub[k]
    BY <1>5, <2>1 DEF AcquireTake, Goto
  <2>3. \A k \in Handlers : pc[k] \in Testing => sub[k] # sub[h]
    BY <1>5 DEF AcquireTake, Active
  <2>4. activeTests' = {sub'[k] : k \in {i \in Handlers : pc'[i] \in Testing}}
    BY <1>5, <2>1, <2>2 DEF AcquireTake
  <2>5. \A i, k \in Handlers :
          pc'[i] \in Testing /\ pc'[k] \in Testing /\ sub'[i] = sub'[k] => i = k
    BY <2>2, <2>3
  <2>. QED
    BY <2>4, <2>5
<1>6. ASSUME NEW h \in Records, CommitRecord(h) PROVE MutualExclusion'
  BY <1>6 DEF CommitRecord, Goto, Answers, Charge, NextOffset
<1>7. ASSUME NEW h \in Handlers, CreateJob(h) PROVE MutualExclusion'
  BY <1>7 DEF CreateJob, Goto, Answers, Charge, AfterCreate, Run
<1>8. ASSUME NEW h \in Handlers, WarmupCancelled(h) PROVE MutualExclusion'
  BY <1>8 DEF WarmupCancelled, Goto
<1>9. ASSUME NEW h \in Handlers, OpenWatch(h) PROVE MutualExclusion'
  BY <1>9 DEF OpenWatch, Goto, Answers, Charge, AfterWatch
<1>10. ASSUME NEW h \in Handlers, WatchDelivers(h) PROVE MutualExclusion'
  BY <1>10 DEF WatchDelivers, Goto, AfterWatch
<1>11. ASSUME NEW h \in Handlers, WatchEnds(h) PROVE MutualExclusion'
  BY <1>11 DEF WatchEnds, Goto, AfterWatch, SuccessAtWatchEnd, WatchMayEnd
<1>12. ASSUME NEW h \in Handlers, DeleteJob(h) PROVE MutualExclusion'
  BY <1>12 DEF DeleteJob, Goto, Answers, Charge
<1>13. ASSUME NEW h \in Handlers, DeletePod(h) PROVE MutualExclusion'
  BY <1>13 DEF DeletePod, Goto, Answers, Charge
<1>14. ASSUME NEW h \in Handlers, PublishTestComplete(h) PROVE MutualExclusion'
  BY <1>14 DEF PublishTestComplete, Goto, Answers, Charge, Run
<1>15. ASSUME NEW h \in Handlers, Release(h) PROVE MutualExclusion'
  BY <1>15 DEF Release, Goto, Drop
<1>16. ASSUME NEW s \in Submissions, NEW outcome \in Outcomes, JobFinishes(s, outcome) PROVE MutualExclusion'
  BY <1>16 DEF JobFinishes
<1>17. ASSUME NEW s \in Submissions, JobExpires(s) PROVE MutualExclusion'
  BY <1>17 DEF JobExpires
<1>18. ASSUME NEW s \in Submissions, JobGone(s) PROVE MutualExclusion'
  BY <1>18 DEF JobGone
<1>19. ASSUME Shutdown PROVE MutualExclusion'
  BY <1>19 DEF Shutdown
<1>20. ASSUME Exit PROVE MutualExclusion'
  BY <1>20 DEF Exit, ProcessEnds
<1>21. ASSUME Crash PROVE MutualExclusion'
  BY <1>21 DEF Crash, ProcessEnds
<1>22. ASSUME Restart PROVE MutualExclusion'
  BY <1>22 DEF Restart, ResumeAt
<1> HIDE DEF TypeOK, Goroutines, MutualExclusion
<1>q. QED
  BY <1>1, <1>2, <1>3, <1>4, <1>5, <1>6, <1>7, <1>8, <1>9, <1>10, <1>11, <1>12, <1>13, <1>14, <1>15, <1>16, <1>17, <1>18, <1>19, <1>20, <1>21, <1>22, StepCases

\* Only the run that created a Job moves it on while it holds it.
LEMMA DeletesOwnJobStep ==
  ASSUME TypeOK, Goroutines, MutualExclusion, DeletesOwnJob, Next
  PROVE  DeletesOwnJob'
<1> USE DEF TypeOK, Goroutines, DeletesOwnJob, HoldsJob, LiveJob, Outcomes, Run, broker, local, cluster, history, counts
<1>1. ASSUME NEW s \in Submissions, SandboxReady(s) PROVE DeletesOwnJob'
  BY <1>1 DEF SandboxReady
<1>2. ASSUME Poll PROVE DeletesOwnJob'
  BY <1>2 DEF Poll, Goto
<1>3. ASSUME NEW h \in HttpSlots, NEW s \in Submissions, NEW p \in Submissions \cup {NoSubmission},
            HttpRun(h, s, p) PROVE DeletesOwnJob'
  BY <1>3 DEF HttpRun, Goto, Active
<1>4. ASSUME NEW h \in Records, AcquireSkip(h) PROVE DeletesOwnJob'
  BY <1>4 DEF AcquireSkip, Goto, Drop, Active
<1>5. ASSUME NEW h \in Records, AcquireTake(h) PROVE DeletesOwnJob'
  BY <1>5 DEF AcquireTake, Goto, Active
<1>6. ASSUME NEW h \in Records, CommitRecord(h) PROVE DeletesOwnJob'
  BY <1>6 DEF CommitRecord, Goto, Answers, Charge, NextOffset
<1>7. ASSUME NEW h \in Handlers, CreateJob(h) PROVE DeletesOwnJob'
  <2>1. \A k \in Handlers :
          pc[k] \in HoldsJob => k # h /\ sub[k] # sub[h] /\ sub[k] \in Submissions
    BY <1>7 DEF CreateJob, MutualExclusion, Testing
  <2>2. sub[h] \in Submissions
    BY <1>7 DEF CreateJob, Testing
  <2>3. /\ \A s \in Submissions \ {sub[h]} : jobs'[s] = jobs[s] /\ owner'[s] = owner[s]
        /\ \A k \in Handlers \ {h} : pc'[k] = pc[k]
        /\ sub' = sub /\ restarts' = restarts
    BY <1>7 DEF CreateJob, Goto
  <2>4. pc'[h] \in HoldsJob => jobs'[sub[h]] = "running" /\ owner'[sub[h]] = Run(h)
    BY <1>7, <2>2 DEF CreateJob, Goto, AfterCreate
  <2>. QED
    BY <2>1, <2>2, <2>3, <2>4
<1>8. ASSUME NEW h \in Handlers, WarmupCancelled(h) PROVE DeletesOwnJob'
  BY <1>8 DEF WarmupCancelled, Goto
<1>9. ASSUME NEW h \in Handlers, OpenWatch(h) PROVE DeletesOwnJob'
  BY <1>9 DEF OpenWatch, Goto, Answers, Charge, AfterWatch
<1>10. ASSUME NEW h \in Handlers, WatchDelivers(h) PROVE DeletesOwnJob'
  BY <1>10 DEF WatchDelivers, Goto, AfterWatch
<1>11. ASSUME NEW h \in Handlers, WatchEnds(h) PROVE DeletesOwnJob'
  BY <1>11 DEF WatchEnds, Goto, AfterWatch, SuccessAtWatchEnd, WatchMayEnd
<1>12. ASSUME NEW h \in Handlers, DeleteJob(h) PROVE DeletesOwnJob'
  BY <1>12 DEF DeleteJob, Goto, Answers, Charge
<1>13. ASSUME NEW h \in Handlers, DeletePod(h) PROVE DeletesOwnJob'
  BY <1>13 DEF DeletePod, Goto, Answers, Charge
<1>14. ASSUME NEW h \in Handlers, PublishTestComplete(h) PROVE DeletesOwnJob'
  BY <1>14 DEF PublishTestComplete, Goto, Answers, Charge, Run
<1>15. ASSUME NEW h \in Handlers, Release(h) PROVE DeletesOwnJob'
  BY <1>15 DEF Release, Goto, Drop
<1>16. ASSUME NEW s \in Submissions, NEW outcome \in Outcomes, JobFinishes(s, outcome) PROVE DeletesOwnJob'
  BY <1>16 DEF JobFinishes
<1>17. ASSUME NEW s \in Submissions, JobExpires(s) PROVE DeletesOwnJob'
  BY <1>17 DEF JobExpires
<1>18. ASSUME NEW s \in Submissions, JobGone(s) PROVE DeletesOwnJob'
  BY <1>18 DEF JobGone
<1>19. ASSUME Shutdown PROVE DeletesOwnJob'
  BY <1>19 DEF Shutdown
<1>20. ASSUME Exit PROVE DeletesOwnJob'
  BY <1>20 DEF Exit, ProcessEnds
<1>21. ASSUME Crash PROVE DeletesOwnJob'
  BY <1>21 DEF Crash, ProcessEnds
<1>22. ASSUME Restart PROVE DeletesOwnJob'
  BY <1>22 DEF Restart, ResumeAt
<1> HIDE DEF TypeOK, Goroutines, DeletesOwnJob, LiveJob, Outcomes
<1>q. QED
  BY <1>1, <1>2, <1>3, <1>4, <1>5, <1>6, <1>7, <1>8, <1>9, <1>10, <1>11, <1>12, <1>13, <1>14, <1>15, <1>16, <1>17, <1>18, <1>19, <1>20, <1>21, <1>22, StepCases

\* A verdict is queued when the Job of the watching run finishes.
LEMMA EarnedStep ==
  ASSUME TypeOK, Goroutines, DeletesOwnJob, Earned, Next
  PROVE  Earned'
<1> USE DEF TypeOK, Goroutines, DeletesOwnJob, HoldsJob, Earned, Run, broker, local, cluster, history, counts
<1>1. ASSUME NEW s \in Submissions, SandboxReady(s) PROVE Earned'
  BY <1>1 DEF SandboxReady
<1>2. ASSUME Poll PROVE Earned'
  BY <1>2 DEF Poll, Goto
<1>3. ASSUME NEW h \in HttpSlots, NEW s \in Submissions, NEW p \in Submissions \cup {NoSubmission},
            HttpRun(h, s, p) PROVE Earned'
  BY <1>3 DEF HttpRun, Goto, Active
<1>4. ASSUME NEW h \in Records, AcquireSkip(h) PROVE Earned'
  BY <1>4 DEF AcquireSkip, Goto, Drop, Active
<1>5. ASSUME NEW h \in Records, AcquireTake(h) PROVE Earned'
  BY <1>5 DEF AcquireTake, Goto, Active
<1>6. ASSUME NEW h \in Records, CommitRecord(h) PROVE Earned'
  BY <1>6 DEF CommitRecord, Goto, Answers, Charge, NextOffset
<1>7. ASSUME NEW h \in Handlers, CreateJob(h) PROVE Earned'
  BY <1>7 DEF CreateJob, Goto, Answers, Charge, AfterCreate, Run
<1>8. ASSUME NEW h \in Handlers, WarmupCancelled(h) PROVE Earned'
  BY <1>8 DEF WarmupCancelled, Goto
<1>9. ASSUME NEW h \in Handlers, OpenWatch(h) PROVE Earned'
  BY <1>9 DEF OpenWatch, Goto, Answers, Charge, AfterWatch
<1>10. ASSUME NEW h \in Handlers, WatchDelivers(h) PROVE Earned'
  BY <1>10 DEF WatchDelivers, Goto, AfterWatch
<1>11. ASSUME NEW h \in Handlers, WatchEnds(h) PROVE Earned'
  BY <1>11 DEF WatchEnds, Goto, AfterWatch, SuccessAtWatchEnd, WatchMayEnd
<1>12. ASSUME NEW h \in Handlers, DeleteJob(h) PROVE Earned'
  BY <1>12 DEF DeleteJob, Goto, Answers, Charge
<1>13. ASSUME NEW h \in Handlers, DeletePod(h) PROVE Earned'
  BY <1>13 DEF DeletePod, Goto, Answers, Charge
<1>14. ASSUME NEW h \in Handlers, PublishTestComplete(h) PROVE Earned'
  BY <1>14 DEF PublishTestComplete, Goto, Answers, Charge, Run
<1>15. ASSUME NEW h \in Handlers, Release(h) PROVE Earned'
  BY <1>15 DEF Release, Goto, Drop
<1>16. ASSUME NEW s \in Submissions, NEW outcome \in Outcomes, JobFinishes(s, outcome) PROVE Earned'
  BY <1>16 DEF JobFinishes
<1>17. ASSUME NEW s \in Submissions, JobExpires(s) PROVE Earned'
  BY <1>17 DEF JobExpires
<1>18. ASSUME NEW s \in Submissions, JobGone(s) PROVE Earned'
  BY <1>18 DEF JobGone
<1>19. ASSUME Shutdown PROVE Earned'
  BY <1>19 DEF Shutdown
<1>20. ASSUME Exit PROVE Earned'
  BY <1>20 DEF Exit, ProcessEnds
<1>21. ASSUME Crash PROVE Earned'
  BY <1>21 DEF Crash, ProcessEnds
<1>22. ASSUME Restart PROVE Earned'
  BY <1>22 DEF Restart, ResumeAt
<1> HIDE DEF TypeOK, Goroutines, Earned
<1>q. QED
  BY <1>1, <1>2, <1>3, <1>4, <1>5, <1>6, <1>7, <1>8, <1>9, <1>10, <1>11, <1>12, <1>13, <1>14, <1>15, <1>16, <1>17, <1>18, <1>19, <1>20, <1>21, <1>22, StepCases

\* Success is published from a verdict the run has earned.
LEMMA SuccessIsEarnedStep ==
  ASSUME TypeOK, Earned, SuccessIsEarned, Next
  PROVE  SuccessIsEarned'
<1> USE DEF TypeOK, Earned, SuccessIsEarned, broker, local, cluster, history, counts
<1>1. ASSUME NEW s \in Submissions, SandboxReady(s) PROVE SuccessIsEarned'
  BY <1>1 DEF SandboxReady
<1>2. ASSUME Poll PROVE SuccessIsEarned'
  BY <1>2 DEF Poll, Goto
<1>3. ASSUME NEW h \in HttpSlots, NEW s \in Submissions, NEW p \in Submissions \cup {NoSubmission},
            HttpRun(h, s, p) PROVE SuccessIsEarned'
  BY <1>3 DEF HttpRun, Goto, Active
<1>4. ASSUME NEW h \in Records, AcquireSkip(h) PROVE SuccessIsEarned'
  BY <1>4 DEF AcquireSkip, Goto, Drop, Active
<1>5. ASSUME NEW h \in Records, AcquireTake(h) PROVE SuccessIsEarned'
  BY <1>5 DEF AcquireTake, Goto, Active
<1>6. ASSUME NEW h \in Records, CommitRecord(h) PROVE SuccessIsEarned'
  BY <1>6 DEF CommitRecord, Goto, Answers, Charge, NextOffset
<1>7. ASSUME NEW h \in Handlers, CreateJob(h) PROVE SuccessIsEarned'
  BY <1>7 DEF CreateJob, Goto, Answers, Charge, AfterCreate, Run
<1>8. ASSUME NEW h \in Handlers, WarmupCancelled(h) PROVE SuccessIsEarned'
  BY <1>8 DEF WarmupCancelled, Goto
<1>9. ASSUME NEW h \in Handlers, OpenWatch(h) PROVE SuccessIsEarned'
  BY <1>9 DEF OpenWatch, Goto, Answers, Charge, AfterWatch
<1>10. ASSUME NEW h \in Handlers, WatchDelivers(h) PROVE SuccessIsEarned'
  BY <1>10 DEF WatchDelivers, Goto, AfterWatch
<1>11. ASSUME NEW h \in Handlers, WatchEnds(h) PROVE SuccessIsEarned'
  BY <1>11 DEF WatchEnds, Goto, AfterWatch, SuccessAtWatchEnd, WatchMayEnd
<1>12. ASSUME NEW h \in Handlers, DeleteJob(h) PROVE SuccessIsEarned'
  BY <1>12 DEF DeleteJob, Goto, Answers, Charge
<1>13. ASSUME NEW h \in Handlers, DeletePod(h) PROVE SuccessIsEarned'
  BY <1>13 DEF DeletePod, Goto, Answers, Charge
<1>14. ASSUME NEW h \in Handlers, PublishTestComplete(h) PROVE SuccessIsEarned'
  BY <1>14 DEF PublishTestComplete, Goto, Answers, Charge, Run
<1>15. ASSUME NEW h \in Handlers, Release(h) PROVE SuccessIsEarned'
  BY <1>15 DEF Release, Goto, Drop
<1>16. ASSUME NEW s \in Submissions, NEW outcome \in Outcomes, JobFinishes(s, outcome) PROVE SuccessIsEarned'
  BY <1>16 DEF JobFinishes
<1>17. ASSUME NEW s \in Submissions, JobExpires(s) PROVE SuccessIsEarned'
  BY <1>17 DEF JobExpires
<1>18. ASSUME NEW s \in Submissions, JobGone(s) PROVE SuccessIsEarned'
  BY <1>18 DEF JobGone
<1>19. ASSUME Shutdown PROVE SuccessIsEarned'
  BY <1>19 DEF Shutdown
<1>20. ASSUME Exit PROVE SuccessIsEarned'
  BY <1>20 DEF Exit, ProcessEnds
<1>21. ASSUME Crash PROVE SuccessIsEarned'
  BY <1>21 DEF Crash, ProcessEnds
<1>22. ASSUME Restart PROVE SuccessIsEarned'
  BY <1>22 DEF Restart, ResumeAt
<1> HIDE DEF TypeOK, Earned, SuccessIsEarned
<1>q. QED
  BY <1>1, <1>2, <1>3, <1>4, <1>5, <1>6, <1>7, <1>8, <1>9, <1>10, <1>11, <1>12, <1>13, <1>14, <1>15, <1>16, <1>17, <1>18, <1>19, <1>20, <1>21, <1>22, StepCases

\* Without a failed call a run lets go of its Job only by deleting it.
LEMMA LiveJobHeldStep ==
  ASSUME TypeOK, Goroutines, MutualExclusion, DeletesOwnJob, LiveJobHeld, Next
  PROVE  LiveJobHeld'
<1> USE DEF TypeOK, Goroutines, LiveJobHeld, HoldsJob, LiveJob, Outcomes, Calm, broker, local, cluster, history, counts
<1>1. ASSUME NEW s \in Submissions, SandboxReady(s) PROVE LiveJobHeld'
  BY <1>1 DEF SandboxReady
<1>2. ASSUME Poll PROVE LiveJobHeld'
  <2>1. position \in Handlers /\ pc[position] = "idle"
    BY <1>2, ConstantsAssumption DEF Poll, Records, Handlers
  <2>. QED
    BY <1>2, <2>1 DEF Poll, Goto
<1>3. ASSUME NEW h \in HttpSlots, NEW s \in Submissions, NEW p \in Submissions \cup {NoSubmission},
            HttpRun(h, s, p) PROVE LiveJobHeld'
  BY <1>3 DEF HttpRun, Goto, Active
<1>4. ASSUME NEW h \in Records, AcquireSkip(h) PROVE LiveJobHeld'
  BY <1>4 DEF AcquireSkip, Goto, Drop, Active
<1>5. ASSUME NEW h \in Records, AcquireTake(h) PROVE LiveJobHeld'
  BY <1>5 DEF AcquireTake, Goto, Active
<1>6. ASSUME NEW h \in Records, CommitRecord(h) PROVE LiveJobHeld'
  BY <1>6 DEF CommitRecord, Goto, Answers, Charge, NextOffset
<1>7. ASSUME NEW h \in Handlers, CreateJob(h) PROVE LiveJobHeld'
  BY <1>7 DEF CreateJob, Goto, Answers, Charge, AfterCreate, Run
<1>8. ASSUME NEW h \in Handlers, WarmupCancelled(h) PROVE LiveJobHeld'
  BY <1>8 DEF WarmupCancelled, Goto
<1>9. ASSUME NEW h \in Handlers, OpenWatch(h) PROVE LiveJobHeld'
  BY <1>9 DEF OpenWatch, Goto, Answers, Charge, AfterWatch
<1>10. ASSUME NEW h \in Handlers, WatchDelivers(h) PROVE LiveJobHeld'
  BY <1>10 DEF WatchDelivers, Goto, AfterWatch
<1>11. ASSUME NEW h \in Handlers, WatchEnds(h) PROVE LiveJobHeld'
  BY <1>11 DEF WatchEnds, Goto, AfterWatch, SuccessAtWatchEnd, WatchMayEnd
<1>12. ASSUME NEW h \in Handlers, DeleteJob(h) PROVE LiveJobHeld'
  BY <1>12 DEF DeleteJob, Goto, Answers, Charge
<1>13. ASSUME NEW h \in Handlers, DeletePod(h) PROVE LiveJobHeld'
  BY <1>13 DEF DeletePod, Goto, Answers, Charge
<1>14. ASSUME NEW h \in Handlers, PublishTestComplete(h) PROVE LiveJobHeld'
  BY <1>14 DEF PublishTestComplete, Goto, Answers, Charge, Run
<1>15. ASSUME NEW h \in Handlers, Release(h) PROVE LiveJobHeld'
  BY <1>15 DEF Release, Goto, Drop
<1>16. ASSUME NEW s \in Submissions, NEW outcome \in Outcomes, JobFinishes(s, outcome) PROVE LiveJobHeld'
  BY <1>16 DEF JobFinishes
<1>17. ASSUME NEW s \in Submissions, JobExpires(s) PROVE LiveJobHeld'
  BY <1>17 DEF JobExpires
<1>18. ASSUME NEW s \in Submissions, JobGone(s) PROVE LiveJobHeld'
  BY <1>18 DEF JobGone
<1>19. ASSUME Shutdown PROVE LiveJobHeld'
  BY <1>19 DEF Shutdown
<1>20. ASSUME Exit PROVE LiveJobHeld'
  BY <1>20 DEF Exit, ProcessEnds
<1>21. ASSUME Crash PROVE LiveJobHeld'
  BY <1>21 DEF Crash, ProcessEnds
<1>22. ASSUME Restart PROVE LiveJobHeld'
  BY <1>22 DEF Restart, ResumeAt
<1> HIDE DEF TypeOK, Goroutines, LiveJobHeld, LiveJob, Outcomes
<1>q. QED
  BY <1>1, <1>2, <1>3, <1>4, <1>5, <1>6, <1>7, <1>8, <1>9, <1>10, <1>11, <1>12, <1>13, <1>14, <1>15, <1>16, <1>17, <1>18, <1>19, <1>20, <1>21, <1>22, StepCases

\* Answers are never taken back.
LEMMA AnsweredKept ==
  ASSUME ignored \subseteq ignored', unanswered \subseteq unanswered', completes \subseteq completes',
         NEW o, Answered(o)
  PROVE  Answered(o)'
  BY DEF Answered

\* A step that fetches and commits nothing, and ends no handler, keeps the account of
\* the records if none is answered less, and every handler it lets return is answered.
LEMMA AccountKept ==
  ASSUME TypeOK, FetchedAccounted, committed' = committed, position' = position,
         ignored \subseteq ignored', unanswered \subseteq unanswered', completes \subseteq completes',
         \A o \in Records : pc[o] # "idle" => pc'[o] # "idle",
         \A o \in Records : pc'[o] \in {"release", "commit", "done"} =>
            pc[o] \in {"release", "commit", "done"} \/ Answered(o)'
  PROVE  FetchedAccounted'
  BY AnsweredKept DEF FetchedAccounted

\* A handler returns only after it skipped its record, reported, or failed to.
LEMMA FetchedAccountedStep ==
  ASSUME TypeOK, Goroutines, FetchedAccounted, Next
  PROVE  FetchedAccounted'
<1> USE DEF TypeOK, broker, local, cluster, history, counts
<1>1. ASSUME NEW s \in Submissions, SandboxReady(s) PROVE FetchedAccounted'
  BY <1>1, AccountKept DEF SandboxReady
<1>2. ASSUME Poll PROVE FetchedAccounted'
  <2>1. /\ UNCHANGED <<committed, completes, ignored, unanswered>>
        /\ position \in Records /\ position' = position + 1
        /\ \A o \in Records : o # position => pc'[o] = pc[o]
        /\ pc'[position] = "acquire"
    BY <1>2, ConstantsAssumption DEF Poll, Goto, Records, Handlers
  <2>2. \A o \in Records : Answered(o) => Answered(o)'
    BY <2>1, AnsweredKept
  <2>3. committed' <= position'
    BY <2>1 DEF FetchedAccounted
  <2>4. \A o \in Records : o < position' => pc'[o] # "idle" \/ Answered(o)'
    BY <2>1, <2>2, ConstantsAssumption DEF FetchedAccounted, Records
  <2>5. \A o \in Records : pc'[o] \in {"release", "commit", "done"} => Answered(o)'
    BY <2>1, <2>2 DEF FetchedAccounted
  <2>. QED
    BY <2>3, <2>4, <2>5 DEF FetchedAccounted
<1>3. ASSUME NEW h \in HttpSlots, NEW s \in Submissions, NEW p \in Submissions \cup {NoSubmission},
            HttpRun(h, s, p) PROVE FetchedAccounted'
  BY <1>3, AccountKept DEF HttpRun, Goto, Active, Handlers
<1>4. ASSUME NEW h \in Records, AcquireSkip(h) PROVE FetchedAccounted'
  <2>1. h \in ignored'
    BY <1>4 DEF AcquireSkip
  <2>2. Answered(h)'
    BY <2>1 DEF Answered
  <2>. QED
    BY <1>4, <2>2, AccountKept DEF AcquireSkip, Goto, Drop, Active, Handlers
<1>5. ASSUME NEW h \in Records, AcquireTake(h) PROVE FetchedAccounted'
  BY <1>5, AccountKept DEF AcquireTake, Goto, Active, Handlers
<1>6. ASSUME NEW h \in Records, CommitRecord(h) PROVE FetchedAccounted'
  <2>1. /\ UNCHANGED <<completes, position, ignored, unanswered>>
        /\ committed' \in {committed, h + 1}
        /\ \A o \in Records : o # h => pc'[o] = pc[o]
        /\ pc[h] = "commit" /\ pc'[h] = "done"
    BY <1>6 DEF CommitRecord, Goto, NextOffset, Handlers
  <2>2. h < position /\ h + 1 <= position
    BY <2>1, ConstantsAssumption DEF Goroutines, Records
  <2>3. \A o \in Records : Answered(o) => Answered(o)'
    BY <2>1, AnsweredKept
  <2>. QED
    BY <2>1, <2>2, <2>3 DEF FetchedAccounted
<1>7. ASSUME NEW h \in Handlers, CreateJob(h) PROVE FetchedAccounted'
  BY <1>7, AccountKept DEF CreateJob, Goto, AfterCreate
<1>8. ASSUME NEW h \in Handlers, WarmupCancelled(h) PROVE FetchedAccounted'
  BY <1>8, AccountKept DEF WarmupCancelled, Goto
<1>9. ASSUME NEW h \in Handlers, OpenWatch(h) PROVE FetchedAccounted'
  BY <1>9, AccountKept DEF OpenWatch, Goto, AfterWatch
<1>10. ASSUME NEW h \in Handlers, WatchDelivers(h) PROVE FetchedAccounted'
  BY <1>10, AccountKept DEF WatchDelivers, Goto, AfterWatch
<1>11. ASSUME NEW h \in Handlers, WatchEnds(h) PROVE FetchedAccounted'
  BY <1>11, AccountKept DEF WatchEnds, Goto, AfterWatch
<1>12. ASSUME NEW h \in Handlers, DeleteJob(h) PROVE FetchedAccounted'
  BY <1>12, AccountKept DEF DeleteJob, Goto
<1>13. ASSUME NEW h \in Handlers, DeletePod(h) PROVE FetchedAccounted'
  BY <1>13, AccountKept DEF DeletePod, Goto
<1>14. ASSUME NEW h \in Handlers, PublishTestComplete(h) PROVE FetchedAccounted'
  <2>1. PICK a \in Answers :
          /\ completes' = IF a = "failed" THEN completes
               ELSE completes \cup {[run |-> Run(h), sub |-> sub[h], success |-> ok[h]]}
          /\ unanswered' = IF a = "failed" THEN unanswered \cup ({h} \cap Records) ELSE unanswered
    BY <1>14 DEF PublishTestComplete
  <2>2. ASSUME h \in Records PROVE Answered(h)'
    <3>1. CASE a = "failed"
      BY <2>1, <2>2, <3>1 DEF Answered
    <3>2. CASE a # "failed"
      <4>1. [run |-> Run(h), sub |-> sub[h], success |-> ok[h]] \in completes'
        BY <2>1, <3>2
      <4>2. [run |-> Run(h), sub |-> sub[h], success |-> ok[h]].run[1] = h
        BY DEF Run
      <4>3. \E c \in completes' : c.run[1] = h
        BY <4>1, <4>2
      <4>. QED
        BY <4>3 DEF Answered
    <3>. QED
      BY <3>1, <3>2
  <2>3. completes \subseteq completes' /\ unanswered \subseteq unanswered'
    BY <2>1
  <2>4. /\ committed' = committed /\ position' = position /\ ignored' = ignored
        /\ \A o \in Records : pc[o] # "idle" => pc'[o] # "idle"
        /\ \A o \in Records : o # h => pc'[o] = pc[o]
    BY <1>14 DEF PublishTestComplete, Goto, Handlers
  <2>. QED
    BY <2>2, <2>3, <2>4, AccountKept
<1>15. ASSUME NEW h \in Handlers, Release(h) PROVE FetchedAccounted'
  BY <1>15, AccountKept DEF Release, Goto, Drop
<1>16. ASSUME NEW s \in Submissions, NEW outcome \in Outcomes, JobFinishes(s, outcome) PROVE FetchedAccounted'
  BY <1>16, AccountKept DEF JobFinishes
<1>17. ASSUME NEW s \in Submissions, JobExpires(s) PROVE FetchedAccounted'
  BY <1>17, AccountKept DEF JobExpires
<1>18. ASSUME NEW s \in Submissions, JobGone(s) PROVE FetchedAccounted'
  BY <1>18, AccountKept DEF JobGone
<1>19. ASSUME Shutdown PROVE FetchedAccounted'
  BY <1>19, AccountKept DEF Shutdown
<1>20. ASSUME ProcessEnds PROVE FetchedAccounted'
  <2>1. /\ UNCHANGED <<committed, completes, position, ignored>>
        /\ unanswered' = unanswered \cup {h \in Records : pc[h] \in Unreported}
        /\ \A o \in Records : pc'[o] = "idle"
    BY <1>20 DEF ProcessEnds, Handlers
  <2>2. \A o \in Records : Answered(o) => Answered(o)'
    BY <2>1, AnsweredKept
  <2>3. ASSUME NEW o \in Records, o < position PROVE Answered(o)'
    <3>1. CASE pc[o] \in Unreported
      BY <2>1, <3>1 DEF Answered
    <3>2. CASE pc[o] \notin Unreported
      <4>1. pc[o] \in {"idle", "release", "commit", "done"}
        BY <3>2 DEF Steps, Unreported, Handlers
      <4>. QED
        BY <4>1, <2>2, <2>3 DEF FetchedAccounted
    <3>. QED
      BY <3>1, <3>2
  <2>. QED
    BY <2>1, <2>3 DEF FetchedAccounted
<1>21. ASSUME Restart PROVE FetchedAccounted'
  <2>1. /\ UNCHANGED <<committed, completes, ignored, unanswered, pc>> /\ position' = committed
    BY <1>21 DEF Restart, ResumeAt
  <2>2. \A o \in Records : Answered(o)' <=> Answered(o)
    BY <2>1 DEF Answered
  <2>3. \A o \in Records : o < position' => o < position
    BY <2>1 DEF FetchedAccounted, Records
  <2>. QED
    BY <2>1, <2>2, <2>3 DEF FetchedAccounted
<1> HIDE DEF TypeOK
<1>q. QED
  BY <1>1, <1>2, <1>3, <1>4, <1>5, <1>6, <1>7, <1>8, <1>9, <1>10, <1>11, <1>12, <1>13, <1>14, <1>15, <1>16, <1>17, <1>18, <1>19, <1>20, <1>21, StepCases DEF Exit, Crash

-----------------------------------------------------------------------------
(* The inductive invariant.                                                 *)
LEMMA InitIInv == Init => IInv
<1> SUFFICES ASSUME Init PROVE IInv
  OBVIOUS
<1>1. TypeOK
  BY ConstantsAssumption DEF Init, TypeOK, Steps, JobStates
<1>2. Goroutines /\ RecordsNamePods /\ JobsOwned /\ MutualExclusion /\ DeletesOwnJob
  BY DEF Init, Goroutines, RecordsNamePods, JobsOwned, MutualExclusion, DeletesOwnJob, Testing, HoldsJob,
         Records, Handlers
<1>3. Earned /\ SuccessIsEarned /\ LiveJobHeld
  BY DEF Init, Earned, SuccessIsEarned, LiveJobHeld, LiveJob, Outcomes
<1>4. FetchedAccounted
  BY DEF Init, FetchedAccounted, Records, Handlers
<1>. QED
  BY <1>1, <1>2, <1>3, <1>4 DEF IInv

\* Every step of the service, its environment and its failures keeps the invariant.
LEMMA NextIInv == IInv /\ [Next]_vars => IInv'
<1> SUFFICES ASSUME IInv, [Next]_vars PROVE IInv'
  OBVIOUS
<1>1. CASE Next
  BY <1>1, TypeStep, GoroutinesStep, RecordsNamePodsStep, JobsOwnedStep, MutualExclusionStep, DeletesOwnJobStep,
     EarnedStep, SuccessIsEarnedStep, LiveJobHeldStep, FetchedAccountedStep DEF IInv
<1>2. CASE UNCHANGED vars
  <2>1. TypeOK' /\ Goroutines' /\ RecordsNamePods' /\ JobsOwned' /\ MutualExclusion' /\ DeletesOwnJob'
    BY <1>2 DEF IInv, vars, TypeOK, Quota, Goroutines, RecordsNamePods, JobsOwned, MutualExclusion, DeletesOwnJob, Run
  <2>2. Earned' /\ SuccessIsEarned' /\ LiveJobHeld' /\ FetchedAccounted'
    BY <1>2 DEF IInv, vars, Earned, SuccessIsEarned, LiveJobHeld, FetchedAccounted, Answered,
                Calm, Run
  <2>. QED
    BY <2>1, <2>2 DEF IInv
<1>. QED
  BY <1>1, <1>2

\* The invariant holds in every reachable state.
LEMMA Invariance == Spec => []IInv
  BY InitIInv, NextIInv, PTL DEF Spec

-----------------------------------------------------------------------------
(* The theorems.                                                            *)

\* Every variable keeps its type, under every handler, fault and restart.
THEOREM TypeCorrect == Spec => []TypeOK
  BY Invariance, PTL DEF IInv

\* Two tests of one submission never overlap, and activeTests names exactly the
\* submissions under test (main.go:83-98, 231-244).
THEOREM MutualExclusionHolds == Spec => []MutualExclusion
  BY Invariance, PTL DEF IInv

\* A run waits for, and deletes, only a Job it created itself
\* (orchestrator.go:136-158).
THEOREM DeletesOwnJobHolds == Spec => []DeletesOwnJob
  BY Invariance, PTL DEF IInv

\* A published success answers a Job of the same run that succeeded
\* (orchestrator.go:57, 162-196).
THEOREM SuccessIsEarnedHolds == Spec => []SuccessIsEarned
  BY Invariance, PTL DEF IInv

\* Without a failed call or a shutdown, a live Job belongs to a submission under
\* test (orchestrator.go:149-158).
THEOREM NoOrphanJobHolds == Spec => []NoOrphanJob
<1>1. MutualExclusion /\ LiveJobHeld => NoOrphanJob
  <2> SUFFICES ASSUME MutualExclusion, LiveJobHeld, Calm,
                      NEW s \in Submissions, jobs[s] \in LiveJob
               PROVE  s \in activeTests
    BY DEF NoOrphanJob
  <2>1. PICK h \in Handlers : pc[h] \in HoldsJob /\ sub[h] = s
    BY DEF LiveJobHeld
  <2>. QED
    BY <2>1 DEF MutualExclusion, HoldsJob, Testing
<1>. QED
  BY <1>1, Invariance, PTL DEF IInv

\* No record is committed that is not still being handled, was skipped, or was reported,
\* unless its own report failed or the process ended under its handler
\* (consumer.go:82-92).
THEOREM NoSilentSkipHolds == Spec => []NoSilentSkip
<1>1. ASSUME TypeOK, FetchedAccounted PROVE NoSilentSkip
  <2> SUFFICES ASSUME NEW o \in Records, o < committed, pc[o] \notin Unreported
               PROVE  Answered(o)
    BY DEF NoSilentSkip, Answered
  <2>1. o < position
    BY <1>1 DEF FetchedAccounted, TypeOK, Records
  <2>2. pc[o] \in {"idle", "release", "commit", "done"}
    BY <1>1 DEF TypeOK, Steps, Unreported, Handlers
  <2>. QED
    BY <1>1, <2>1, <2>2 DEF FetchedAccounted
<1>. QED
  BY <1>1, Invariance, PTL DEF IInv

\* Without a failed call or a shutdown, a sandbox outlives the load test that runs
\* against it, unless a POST /run names it as the pod of another submission
\* (main.go:54-70, orchestrator.go:65, 149-158).
THEOREM PodOutlivesJobHolds == Spec => PodOutlivesJob
<1> DEFINE Intruder(s) == \E h \in HttpSlots : pc[h] = "deletePod" /\ pod[h] = s /\ sub[h] # s
           Outlives == \A s \in Submissions :
                         Calm /\ pods[s] /\ ~pods'[s] /\ jobs[s] = "running" => Intruder(s)
<1>1. IInv /\ [Next]_vars => Outlives
  <2> SUFFICES ASSUME IInv, [Next]_vars, NEW s \in Submissions, Calm, pods[s], ~pods'[s],
                      jobs[s] = "running", ~Intruder(s)
               PROVE  FALSE
    OBVIOUS
  <2>1. PICK h \in Handlers : pc[h] = "deletePod" /\ pod[h] = s
    <3>1. pods' # pods
      OBVIOUS
    <3>2. Next
      BY <3>1 DEF vars
    <3>3. CASE \E r \in Submissions : SandboxReady(r)
      BY <3>3 DEF SandboxReady, IInv, TypeOK
    <3>4. CASE \E h \in Handlers : DeletePod(h)
      BY <3>4 DEF DeletePod, IInv, TypeOK
    <3>5. CASE \/ Poll \/ Shutdown \/ Exit \/ Crash \/ Restart
              \/ \E r \in Submissions : JobExpires(r) \/ JobGone(r)
              \/ \E q \in Submissions, outcome \in Outcomes : JobFinishes(q, outcome)
      BY <3>1, <3>5 DEF Poll, Shutdown, Exit, Crash, ProcessEnds, Restart, JobExpires, JobGone,
                        JobFinishes, cluster
    <3>6. CASE \/ \E h \in HttpSlots, r \in Submissions, p \in Submissions \cup {NoSubmission} :
                    HttpRun(h, r, p)
              \/ \E h \in Records : RecordStep(h)
      BY <3>1, <3>6 DEF HttpRun, RecordStep, AcquireSkip, AcquireTake, CommitRecord, cluster
    <3>7. CASE \E h \in Handlers : \/ CreateJob(h) \/ WarmupCancelled(h) \/ OpenWatch(h)
                                  \/ WatchDelivers(h) \/ WatchEnds(h) \/ DeleteJob(h)
                                  \/ PublishTestComplete(h) \/ Release(h)
      BY <3>1, <3>7 DEF CreateJob, WarmupCancelled, OpenWatch, WatchDelivers, WatchEnds, DeleteJob,
                        PublishTestComplete, Release, cluster
    <3>. QED
      BY <3>2, <3>3, <3>4, <3>5, <3>6, <3>7, StepCases DEF RecordStep
  <2>2. sub[h] = s
    <3>1. CASE h \in Records
      BY <2>1, <3>1 DEF IInv, RecordsNamePods, Testing
    <3>2. CASE h \in HttpSlots
      BY <2>1, <3>2
    <3>. QED
      BY <3>1, <3>2 DEF Handlers
  <2>3. PICK k \in Handlers : pc[k] \in HoldsJob /\ sub[k] = s
    BY DEF IInv, LiveJobHeld, LiveJob
  <2>4. h = k
    BY <2>1, <2>2, <2>3 DEF IInv, MutualExclusion, HoldsJob, Testing
  <2>. QED
    BY <2>1, <2>3, <2>4 DEF HoldsJob
<1>. QED
  BY <1>1, Invariance, PTL DEF Spec, PodOutlivesJob
=============================================================================
