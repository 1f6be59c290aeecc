--------------------------- MODULE LifecycleServices_proofs ---------------------------
(***************************************************************************)
(* What the two consumers of submission.lifecycle keep to, however many     *)
(* replicas they have.  The first part is about the loop of their groups    *)
(* and holds whatever handleRecord does: it knows a service by the steps of *)
(* its handler (HandlerSteps) only.  The second and the third are about the *)
(* handlers of build-service and of sandbox-orchestrator.                   *)
(***************************************************************************)
EXTENDS BuildService, SandboxOrchestrator, TLAPS

CONSTANTS HandlerSteps, Submissions

Records == [kind : {"created", "complete", "buildFailed", "ready", "sandboxFailed"},
            sub : Submissions]

Resting == {"down", "poll"}

\* What a member has left of its batch, the record it is at included.
Batch(m) == IF next[m] = 0 THEN {} ELSE next[m]..last[m]

GroupTyped ==
  /\ committed \in 1..(Len(log) + 1) /\ position \in 1..(Len(log) + 1)
  /\ assigned \in Members \cup {NoMember}
  /\ pc \in [Members -> HandlerSteps \cup {"down", "poll", "handle", "commit"}]
  /\ stopping \in [Members -> BOOLEAN]
  /\ next \in [Members -> Nat] /\ last \in [Members -> Nat]
  /\ \A m \in Members : next[m] <= last[m] /\ last[m] <= Len(log)
  /\ \A m \in Members : next[m] = 0 <=> pc[m] \in Resting
  /\ handled \subseteq 1..Len(log)

\* What is committed is handled; what comes before a member's record is handled, and
\* that record too once it is up for commit; and the member that fetches has handled
\* what was fetched, or has it in its batch.
GroupAccounted ==
  /\ 1..(committed - 1) \subseteq handled
  /\ \A m \in Members : next[m] # 0 => 1..(next[m] - 1) \subseteq handled
  /\ \A m \in Members : pc[m] = "commit" => next[m] \in handled
  /\ \A m \in Members : assigned = m => 1..(position - 1) \subseteq handled \cup Batch(m)

GroupInv == GroupTyped /\ GroupAccounted

\* A step of handleRecord, as far as the group can tell.
HandlerStep(m) ==
  /\ pc[m] \in HandlerSteps \cup {"handle"}
  /\ \/ \E step \in HandlerSteps \cup {"commit"} : Goto(m, step)
     \/ Ends(m) /\ UNCHANGED committed

LogGrows == Len(log) \in Nat /\ Len(log') \in Nat /\ Len(log) <= Len(log')

Setting ==
  /\ NoMember \notin Members
  /\ HandlerSteps \cap {"down", "poll", "handle", "commit"} = {}

-----------------------------------------------------------------------------
\* A group that has not started has committed nothing.
LEMMA GroupInit ==
  ASSUME InitGroup, log = << >>, Setting
  PROVE  GroupInv
<1>1. Len(log) = 0
  OBVIOUS
<1>2. GroupTyped
  BY <1>1 DEF InitGroup, GroupTyped, Resting
<1>3. GroupAccounted
  BY DEF InitGroup, GroupAccounted, Batch, Setting
<1>. QED
  BY <1>2, <1>3 DEF GroupInv

(* The end of a process gives up the partition and forgets the batch.       *)
LEMMA EndsKeeps ==
  ASSUME Setting, LogGrows, GroupInv, NEW m \in Members, Ends(m),
         committed' \in 1..(Len(log) + 1), 1..(committed' - 1) \subseteq handled
  PROVE  GroupInv'
<1>1. /\ pc' = [pc EXCEPT ![m] = "down"] /\ stopping' = [stopping EXCEPT ![m] = FALSE]
      /\ next' = [next EXCEPT ![m] = 0] /\ last' = [last EXCEPT ![m] = 0]
      /\ assigned' \in {assigned, NoMember} /\ assigned' # m
      /\ UNCHANGED <<position, handled>>
  BY DEF Ends, Setting
<1>2. GroupTyped'
  BY <1>1 DEF GroupInv, GroupTyped, LogGrows, Resting
<1>3. GroupAccounted'
  BY <1>1 DEF GroupInv, GroupTyped, GroupAccounted, Batch, Setting
<1>. QED
  BY <1>2, <1>3 DEF GroupInv

\* A step of handleRecord that only moves its member on.
LEMMA GotoKeeps ==
  ASSUME Setting, LogGrows, GroupInv, NEW m \in Members, pc[m] \in HandlerSteps \cup {"handle"},
         NEW step \in HandlerSteps \cup {"commit"}, Goto(m, step)
  PROVE  GroupInv'
<1>1. /\ pc' = [pc EXCEPT ![m] = step]
      /\ handled' = IF step = "commit" THEN handled \cup {next[m]} ELSE handled
      /\ UNCHANGED <<committed, assigned, position, stopping, next, last>>
  BY DEF Goto
<1>2. next[m] # 0 /\ step \notin Resting /\ next[m] \in 1..Len(log)
  <2>1. pc[m] \notin Resting /\ step \notin Resting
    BY DEF Resting, Setting
  <2>2. next[m] \in Nat /\ last[m] \in Nat /\ next[m] <= last[m] /\ last[m] <= Len(log) /\ next[m] # 0
    BY <2>1 DEF GroupInv, GroupTyped
  <2>. QED
    BY <2>1, <2>2 DEF LogGrows
<1>3. GroupTyped'
  <2>1. /\ pc' \in [Members -> HandlerSteps \cup {"down", "poll", "handle", "commit"}]
        /\ \A k \in Members : pc'[k] = IF k = m THEN step ELSE pc[k]
    BY <1>1 DEF GroupInv, GroupTyped
  <2>2. \A k \in Members : next'[k] = 0 <=> pc'[k] \in Resting
    <3>1. \A k \in Members : next[k] = 0 <=> pc[k] \in Resting
      BY DEF GroupInv, GroupTyped
    <3>. QED
      BY <1>1, <1>2, <2>1, <3>1
  <2>3. handled' \subseteq 1..Len(log')
    <3>1. handled \cup {next[m]} \subseteq 1..Len(log)
      BY <1>2 DEF GroupInv, GroupTyped
    <3>2. 1..Len(log) \subseteq 1..Len(log')
      BY DEF LogGrows
    <3>. QED
      BY <1>1, <3>1, <3>2
  <2>. QED
    BY <1>1, <2>1, <2>2, <2>3 DEF GroupInv, GroupTyped, LogGrows
<1>4. GroupAccounted'
  BY <1>1, <1>2 DEF GroupInv, GroupTyped, GroupAccounted, Batch
<1>. QED
  BY <1>3, <1>4 DEF GroupInv

\* A batch begins where the handled records end.
LEMMA PollKeeps ==
  ASSUME Setting, LogGrows, GroupInv, NEW m \in Members, Poll(m)
  PROVE  GroupInv'
<1>1. PICK n \in position..Len(log) :
        /\ next' = [next EXCEPT ![m] = position] /\ last' = [last EXCEPT ![m] = n]
        /\ position' = n + 1
  BY DEF Poll
<1>2. /\ pc[m] = "poll" /\ assigned = m /\ pc' = [pc EXCEPT ![m] = "handle"]
      /\ UNCHANGED <<log, committed, assigned, stopping, handled>>
  BY DEF Poll
<1>3. next[m] = 0 /\ position \in Nat /\ position >= 1 /\ n \in Nat /\ position <= n /\ n <= Len(log)
  BY <1>2 DEF GroupInv, GroupTyped, Resting, LogGrows
<1>4. GroupTyped'
  BY <1>1, <1>2, <1>3 DEF GroupInv, GroupTyped, LogGrows, Resting
<1>5. 1..(position - 1) \subseteq handled
  BY <1>2, <1>3 DEF GroupInv, GroupAccounted, Batch
<1>6. /\ \A k \in Members : next'[k] # 0 => 1..(next'[k] - 1) \subseteq handled'
      /\ \A k \in Members : pc'[k] = "commit" => next'[k] \in handled'
  BY <1>1, <1>2, <1>5 DEF GroupInv, GroupTyped, GroupAccounted
<1>7. \A k \in Members : assigned' = k => 1..(position' - 1) \subseteq handled' \cup Batch(k)'
  <2>1. Batch(m)' = position..n
    BY <1>1, <1>3 DEF Batch, GroupInv, GroupTyped
  <2>. QED
    BY <1>1, <1>2, <1>3, <1>5, <2>1
<1>. QED
  BY <1>2, <1>4, <1>6, <1>7 DEF GroupInv, GroupAccounted

\* A commit moves the offset past a handled record, or back to a stale member's.
LEMMA CommitKeeps ==
  ASSUME Setting, LogGrows, GroupInv, NEW m \in Members, CommitRecord(m)
  PROVE  GroupInv'
<1>1. /\ pc[m] = "commit" /\ next[m] \in handled /\ next[m] # 0
      /\ 1..(next[m] - 1) \subseteq handled
      /\ next[m] \in Nat /\ last[m] \in Nat /\ next[m] <= last[m] /\ last[m] <= Len(log)
  BY DEF CommitRecord, GroupInv, GroupTyped, GroupAccounted, Resting
<1>2. 1..next[m] \subseteq handled
  BY <1>1
<1>3. PICK a \in Answers(m) :
        /\ committed' = IF a = "failed" THEN committed ELSE NextOffset(m)
        /\ IF a # "ok" THEN Ends(m)
           ELSE /\ pc' = [pc EXCEPT ![m] = IF BatchDone(m) THEN "poll" ELSE "handle"]
                /\ next' = [next EXCEPT ![m] = IF BatchDone(m) THEN 0 ELSE @ + 1]
                /\ last' = [last EXCEPT ![m] = IF BatchDone(m) THEN 0 ELSE @]
                /\ UNCHANGED <<assigned, position, stopping, handled>>
  BY DEF CommitRecord
<1>4. committed' \in 1..(Len(log) + 1) /\ 1..(committed' - 1) \subseteq handled
  <2>1. CASE committed' = committed
    BY <2>1 DEF GroupInv, GroupTyped, GroupAccounted
  <2>2. CASE committed' = next[m] + 1
    BY <1>1, <1>2, <2>2 DEF LogGrows
  <2>. QED
    BY <1>3, <2>1, <2>2 DEF NextOffset
<1>5. CASE Ends(m)
  BY <1>4, <1>5, EndsKeeps
<1>6. CASE a = "ok" /\ BatchDone(m)
  <2>1. /\ pc' = [pc EXCEPT ![m] = "poll"] /\ next' = [next EXCEPT ![m] = 0]
        /\ last' = [last EXCEPT ![m] = 0] /\ next[m] = last[m]
        /\ UNCHANGED <<assigned, position, stopping, handled>>
    BY <1>3, <1>6 DEF BatchDone
  <2>2. GroupTyped'
    BY <1>4, <2>1 DEF GroupInv, GroupTyped, LogGrows, Resting
  <2>3. Batch(m) = {next[m]} /\ Batch(m)' = {}
    BY <1>1, <2>1 DEF Batch, GroupInv, GroupTyped
  <2>4. \A k \in Members : assigned = k => 1..(position - 1) \subseteq handled \cup Batch(k)'
    BY <1>1, <2>1, <2>3 DEF GroupInv, GroupTyped, GroupAccounted, Batch
  <2>. QED
    BY <1>4, <2>1, <2>2, <2>4 DEF GroupInv, GroupTyped, GroupAccounted
<1>7. CASE a = "ok" /\ ~BatchDone(m)
  <2>1. /\ pc' = [pc EXCEPT ![m] = "handle"] /\ next' = [next EXCEPT ![m] = @ + 1]
        /\ last' = [last EXCEPT ![m] = @] /\ next[m] # last[m]
        /\ UNCHANGED <<assigned, position, stopping, handled>>
    BY <1>3, <1>7 DEF BatchDone
  <2>2. GroupTyped'
    BY <1>1, <1>4, <2>1 DEF GroupInv, GroupTyped, LogGrows, Resting
  <2>3. Batch(m) \subseteq {next[m]} \cup Batch(m)'
    BY <1>1, <2>1 DEF Batch, GroupInv, GroupTyped
  <2>4. \A k \in Members : assigned = k => 1..(position - 1) \subseteq handled \cup Batch(k)'
    BY <1>1, <2>1, <2>3 DEF GroupInv, GroupTyped, GroupAccounted, Batch
  <2>5. \A k \in Members : next'[k] # 0 => 1..(next'[k] - 1) \subseteq handled
    BY <1>1, <1>2, <2>1 DEF GroupInv, GroupTyped, GroupAccounted
  <2>. QED
    BY <1>4, <2>1, <2>2, <2>4, <2>5 DEF GroupInv, GroupTyped, GroupAccounted
<1>. QED
  BY <1>3, <1>5, <1>6, <1>7

\* The end and the start of a process, SIGTERM, and a move of the partition.
LEMMA OtherLoopSteps ==
  ASSUME Setting, LogGrows, GroupInv, NEW m \in Members,
         StopAtPoll(m) \/ Start(m) \/ Disturbance(m) \/ Assign(m)
  PROVE  GroupInv'
<1>1. CASE StopAtPoll(m) \/ Crash(m)
  <2>1. Ends(m) /\ committed' = committed
    BY <1>1 DEF StopAtPoll, Crash
  <2>. QED
    BY <2>1, EndsKeeps DEF GroupInv, GroupTyped, GroupAccounted
<1>2. CASE Start(m)
  <2>1. /\ pc[m] = "down" /\ pc' = [pc EXCEPT ![m] = "poll"]
        /\ UNCHANGED <<committed, assigned, position, stopping, next, last, handled>>
    BY <1>2 DEF Start, Goto
  <2>2. GroupTyped'
    BY <2>1 DEF GroupInv, GroupTyped, LogGrows, Resting
  <2>3. GroupAccounted'
    BY <2>1 DEF GroupInv, GroupTyped, GroupAccounted, Batch
  <2>. QED
    BY <2>2, <2>3 DEF GroupInv
<1>3. CASE Stop(m)
  <2>1. /\ stopping' = [stopping EXCEPT ![m] = TRUE]
        /\ UNCHANGED <<committed, assigned, position, pc, next, last, handled>>
    BY <1>3 DEF Stop
  <2>2. GroupTyped'
    BY <2>1 DEF GroupInv, GroupTyped, LogGrows, Resting
  <2>3. GroupAccounted'
    BY <2>1 DEF GroupInv, GroupTyped, GroupAccounted, Batch
  <2>. QED
    BY <2>2, <2>3 DEF GroupInv
<1>4. CASE Assign(m)
  <2>1. /\ assigned' = m /\ position' = committed
        /\ UNCHANGED <<committed, pc, stopping, next, last, handled>>
    BY <1>4 DEF Assign
  <2>2. GroupTyped'
    BY <2>1 DEF GroupInv, GroupTyped, LogGrows, Resting
  <2>3. GroupAccounted'
    BY <2>1 DEF GroupInv, GroupTyped, GroupAccounted, Batch
  <2>. QED
    BY <2>2, <2>3 DEF GroupInv
<1>. QED
  BY <1>1, <1>2, <1>3, <1>4 DEF Disturbance

(* Every step of a member keeps the group's invariant, whatever the service.*)
LEMMA GroupKept ==
  ASSUME Setting, LogGrows, GroupInv, NEW m \in Members,
         LoopStep(m) \/ Disturbance(m) \/ Assign(m) \/ HandlerStep(m)
  PROVE  GroupInv'
<1>1. CASE SkipRecord(m)
  <2>1. pc[m] = "handle" /\ Goto(m, "commit")
    BY <1>1 DEF SkipRecord
  <2>. QED
    BY <2>1, GotoKeeps
<1>2. CASE HandlerStep(m)
  <2>1. CASE Ends(m) /\ UNCHANGED committed
    BY <2>1, EndsKeeps DEF GroupInv, GroupTyped, GroupAccounted
  <2>. QED
    BY <1>2, <2>1, GotoKeeps DEF HandlerStep
<1>. QED
  BY <1>1, <1>2, PollKeeps, CommitKeeps, OtherLoopSteps DEF LoopStep

\* What does not touch the group keeps it, though the log may grow.
LEMMA GroupUndisturbed ==
  ASSUME LogGrows, GroupInv, UNCHANGED group
  PROVE  GroupInv'
<1>1. GroupTyped'
  BY DEF GroupInv, GroupTyped, LogGrows, group, Resting
<1>2. GroupAccounted'
  BY DEF GroupInv, GroupAccounted, Batch, group
<1>. QED
  BY <1>1, <1>2 DEF GroupInv

(* The property the services rely on: nothing is committed unhandled.       *)
LEMMA CommittedIsHandled ==
  ASSUME GroupInv
  PROVE  1..(committed - 1) \subseteq handled
  BY DEF GroupInv, GroupAccounted
-----------------------------------------------------------------------------
(* What a service can rely on besides.                                      *)

Counted ==
  /\ troubles \in 0..MaxTroubles /\ moves \in 0..MaxMoves
  /\ MaxTroubles \in Nat /\ MaxMoves \in Nat

StillCounted == Counted' /\ troubles <= troubles'

\* A call that does not succeed is a trouble, or its process has had its SIGTERM.
LEMMA Charged ==
  ASSUME Counted, NEW m, NEW a \in Answers(m), Charge(m, a)
  PROVE  /\ troubles' \in 0..MaxTroubles /\ troubles <= troubles'
         /\ a # "ok" => troubles' > 0 \/ stopping[m]
<1>1. CASE a # "ok" /\ ~stopping[m]
  <2>1. troubles < MaxTroubles /\ troubles' = troubles + 1
    BY <1>1 DEF Answers, Charge
  <2>. QED
    BY <2>1 DEF Counted
<1>2. CASE ~(a # "ok" /\ ~stopping[m])
  <2>1. troubles' = troubles
    BY <1>2 DEF Charge
  <2>. QED
    BY <1>2, <2>1 DEF Counted
<1>. QED
  BY <1>1, <1>2

\* A call outside the root context fails at the price of a trouble.
LEMMA ChargedInBackground ==
  ASSUME Counted, NEW a \in BackgroundAnswers, ChargeBackground(a)
  PROVE  /\ troubles' \in 0..MaxTroubles /\ troubles <= troubles'
         /\ a # "ok" => troubles' > 0
<1>1. CASE a # "ok"
  <2>1. troubles < MaxTroubles /\ troubles' = troubles + 1
    BY <1>1 DEF BackgroundAnswers, ChargeBackground
  <2>. QED
    BY <2>1 DEF Counted
<1>2. CASE a = "ok"
  <2>1. troubles' = troubles
    BY <1>2 DEF ChargeBackground
  <2>. QED
    BY <1>2, <2>1 DEF Counted
<1>. QED
  BY <1>1, <1>2

\* The loop does not touch the log, leaves a handler where it is or ends its process,
\* and takes for handled only what the service does not act on.
LEMMA LoopFrame ==
  ASSUME Setting, Counted, GroupTyped, NEW m \in Members,
         LoopStep(m) \/ Disturbance(m) \/ Assign(m)
  PROVE  /\ log' = log
         /\ troubles' \in 0..MaxTroubles /\ troubles <= troubles' /\ moves' \in 0..MaxMoves
         /\ \A k \in Members \ {m} :
              pc'[k] = pc[k] /\ next'[k] = next[k] /\ stopping'[k] = stopping[k]
         /\ pc'[m] \in HandlerSteps => pc'[m] = pc[m] /\ next'[m] = next[m]
         /\ pc[m] \in HandlerSteps =>
              \/ pc'[m] = pc[m] /\ next'[m] = next[m]
              \/ pc'[m] = "down" /\ troubles' > 0
         /\ stopping'[m] => stopping[m] \/ troubles' > 0
         /\ \/ handled' = handled
            \/ handled' = handled \cup {next[m]} /\ log[next[m]].kind # Wants
<1> USE DEF GroupTyped, Counted
<1>1. CASE Poll(m)
  BY <1>1 DEF Poll, Setting
<1>2. CASE SkipRecord(m)
  BY <1>2 DEF SkipRecord, Goto, Setting
<1>3. CASE CommitRecord(m)
  <2>1. PICK a \in Answers(m) :
          /\ IF a # "ok" THEN Ends(m)
             ELSE /\ pc' = [pc EXCEPT ![m] = IF BatchDone(m) THEN "poll" ELSE "handle"]
                  /\ next' = [next EXCEPT ![m] = IF BatchDone(m) THEN 0 ELSE @ + 1]
                  /\ UNCHANGED <<stopping, handled>>
          /\ Charge(m, a)
    BY <1>3 DEF CommitRecord
  <2>2. troubles' \in 0..MaxTroubles /\ troubles <= troubles'
    BY <2>1, Charged
  <2>3. pc[m] = "commit" /\ log' = log /\ moves' = moves
    BY <1>3 DEF CommitRecord
  <2>. QED
    BY <2>1, <2>2, <2>3 DEF Ends, Setting
<1>4. CASE StopAtPoll(m)
  BY <1>4 DEF StopAtPoll, Ends, Setting
<1>5. CASE Start(m)
  BY <1>5 DEF Start, Goto, Setting
<1>6. CASE Stop(m)
  BY <1>6 DEF Stop
<1>7. CASE Crash(m)
  BY <1>7 DEF Crash, Ends, Setting
<1>8. CASE Assign(m)
  BY <1>8 DEF Assign
<1>. QED
  BY <1>1, <1>2, <1>3, <1>4, <1>5, <1>6, <1>7, <1>8 DEF LoopStep, Disturbance

-----------------------------------------------------------------------------
(* What is in the log stays there, and a step adds at most one record.      *)

Said(kind, s) == \E o \in DOMAIN log : log[o] = [kind |-> kind, sub |-> s]
SaidNext(kind, s) == \E o \in DOMAIN log' : log'[o] = [kind |-> kind, sub |-> s]

LogAdds(new) ==
  /\ log \in Seq(Records) /\ log' \in Seq(Records) /\ LogGrows
  /\ \A o \in 1..Len(log) : log'[o] = log[o]
  /\ \A kind, s : SaidNext(kind, s) <=> Said(kind, s) \/ [kind |-> kind, sub |-> s] \in new

AddsOnly(kinds) == \E new \in SUBSET [kind : kinds, sub : Submissions] : LogAdds(new)

\* An unchanged log has no new record.
LEMMA LogStays ==
  ASSUME log \in Seq(Records), log' = log
  PROVE  LogAdds({})
<1>1. Len(log) \in Nat
  OBVIOUS
<1>2. \A kind, s : SaidNext(kind, s) <=> Said(kind, s)
  BY DEF Said, SaidNext
<1>. QED
  BY <1>1, <1>2 DEF LogAdds, LogGrows

\* Append adds the one record.
LEMMA LogAppended ==
  ASSUME log \in Seq(Records), NEW r \in Records, log' = Append(log, r)
  PROVE  LogAdds({r})
<1>1. /\ Len(log) \in Nat /\ Len(log') = Len(log) + 1 /\ log' \in Seq(Records)
      /\ \A o \in 1..Len(log) : log'[o] = log[o]
      /\ log'[Len(log) + 1] = r
      /\ DOMAIN log = 1..Len(log) /\ DOMAIN log' = 1..(Len(log) + 1)
  OBVIOUS
<1>2. ASSUME NEW kind, NEW s
      PROVE  SaidNext(kind, s) <=> Said(kind, s) \/ [kind |-> kind, sub |-> s] = r
  <2>. DEFINE rec == [kind |-> kind, sub |-> s]
  <2>. HIDE DEF rec
  <2>1. (\E o \in 1..(Len(log) + 1) : log'[o] = rec)
          <=> (\E o \in 1..Len(log) : log[o] = rec) \/ rec = r
    BY <1>1
  <2>. QED
    BY <1>1, <2>1 DEF Said, SaidNext, rec
<1>. QED
  BY <1>1, <1>2 DEF LogAdds, LogGrows

\* Adding few kinds of records is adding some of more kinds.
LEMMA AddsMore ==
  ASSUME NEW kinds, NEW more, kinds \subseteq more, AddsOnly(kinds)
  PROVE  AddsOnly(more)
<1>1. PICK new \in SUBSET [kind : kinds, sub : Submissions] : LogAdds(new)
  BY DEF AddsOnly
<1>2. new \in SUBSET [kind : more, sub : Submissions]
  OBVIOUS
<1>. QED
  BY <1>1, <1>2 DEF AddsOnly

\* An unchanged log has no new record of any kind.
LEMMA AddsNothing ==
  ASSUME log \in Seq(Records), log' = log, NEW kinds
  PROVE  AddsOnly(kinds)
<1>1. {} \in SUBSET [kind : kinds, sub : Submissions]
  OBVIOUS
<1>. QED
  BY <1>1, LogStays DEF AddsOnly

\* A member that has a record has one of the log, and keeps it while the log grows.
LEMMA RecordAtHand ==
  ASSUME GroupTyped, log \in Seq(Records), NEW m \in Members, pc[m] \notin Resting
  PROVE  /\ next[m] \in 1..Len(log) /\ Sub(m) \in Submissions
         /\ log[next[m]] \in Records
<1>1. next[m] \in Nat /\ last[m] \in Nat /\ next[m] <= last[m] /\ last[m] <= Len(log) /\ next[m] # 0
  BY DEF GroupTyped
<1>2. next[m] \in 1..Len(log)
  BY <1>1
<1>3. log[next[m]] \in Records
  BY <1>2
<1>. QED
  BY <1>2, <1>3 DEF Sub, Records

\* A member's record is the same in the longer log.
LEMMA RecordStays ==
  ASSUME GroupTyped, NEW new, LogAdds(new), NEW m \in Members, pc[m] \notin Resting, next'[m] = next[m]
  PROVE  Sub(m)' = Sub(m) /\ log'[next[m]] = log[next[m]]
<1>1. next[m] \in 1..Len(log)
  BY RecordAtHand DEF LogAdds
<1>. QED
  BY <1>1 DEF LogAdds, Sub

-----------------------------------------------------------------------------
(***************************************************************************)
(* What build-service keeps to, however many replicas it has: it answers    *)
(* build.complete only for a build that a pod has succeeded in, and, while  *)
(* no call has failed, it handles no upload without answering it.           *)
(***************************************************************************)

BuildSetting ==
  /\ Setting
  /\ HandlerSteps = {"watch", "cleanup", "publish"}
  /\ Wants = "created"

BuildsTyped ==
  /\ buildPods \in [Submissions -> {"absent", "running", "succeeded", "failed", "terminating"}]
  /\ verdict \in [Members -> {"none", "complete", "buildFailed"}]
  /\ late \in [Members -> BOOLEAN] /\ built \subseteq Submissions

\* A pod's success is remembered when the pod is gone, and a member's verdict is about
\* the record it is at.
Earned ==
  /\ \A s \in Submissions : buildPods[s] = "succeeded" => s \in built
  /\ \A m \in Members : verdict[m] = "complete" => pc[m] \in {"cleanup", "publish"} /\ Sub(m) \in built
  /\ \A s : Said("complete", s) => s \in built

Answered ==
  /\ \A m \in Members : ~stopping[m]
  /\ \A o \in handled : log[o].kind = Wants =>
       Said("complete", log[o].sub) \/ Said("buildFailed", log[o].sub)

BuildInv == GroupInv /\ BuildsTyped /\ Earned /\ (troubles = 0 => Answered)

-----------------------------------------------------------------------------
\* Nothing is built and nothing is in hand when the service starts.
LEMMA BuildInit ==
  ASSUME InitBuilds(Submissions), log = << >>, BuildSetting
  PROVE  BuildInv
<1>1. GroupInv
  BY GroupInit DEF InitBuilds, BuildSetting
<1>2. /\ buildPods = [s \in Submissions |-> "absent"] /\ built = {}
      /\ verdict = [m \in Members |-> "none"] /\ late = [m \in Members |-> FALSE]
      /\ stopping = [m \in Members |-> FALSE] /\ handled = {}
  BY DEF InitBuilds, InitGroup
<1>3. \A kind, s : ~Said(kind, s)
  <2>1. DOMAIN log = {}
    OBVIOUS
  <2>. QED
    BY <2>1 DEF Said
<1>4. BuildsTyped /\ Earned
  BY <1>2, <1>3 DEF BuildsTyped, Earned
<1>5. Answered
  BY <1>2 DEF Answered
<1>. QED
  BY <1>1, <1>4, <1>5 DEF BuildInv

\* What a step may do for Earned to go on holding.
LEMMA EarnedKept ==
  ASSUME Earned, built \subseteq built',
         \A s \in Submissions : buildPods'[s] = "succeeded" => s \in built',
         \A k \in Members : verdict'[k] = "complete" =>
           pc'[k] \in {"cleanup", "publish"} /\ Sub(k)' \in built',
         \A s : SaidNext("complete", s) => Said("complete", s) \/ s \in built'
  PROVE  Earned'
<1>1. \A s : Said("complete", s)' => s \in built'
  BY DEF Earned, Said, SaidNext
<1>. QED
  BY <1>1 DEF Earned

\* And for Answered to: an upload is handled when it is answered.
LEMMA AnsweredKept ==
  ASSUME Answered, NEW new, LogAdds(new), handled \subseteq 1..Len(log),
         \A m \in Members : ~stopping'[m],
         \A o \in handled' \ handled : log'[o].kind = Wants =>
           SaidNext("complete", log'[o].sub) \/ SaidNext("buildFailed", log'[o].sub)
  PROVE  Answered'
<1>1. \A kind, s : Said(kind, s) => SaidNext(kind, s)
  BY DEF LogAdds
<1>2. \A kind, s : SaidNext(kind, s) <=> Said(kind, s)'
  BY DEF Said, SaidNext
<1>3. ASSUME NEW o \in handled', log'[o].kind = Wants
      PROVE  SaidNext("complete", log'[o].sub) \/ SaidNext("buildFailed", log'[o].sub)
  <2>1. CASE o \in handled
    <3>1. log'[o] = log[o]
      BY <2>1 DEF LogAdds
    <3>. QED
      BY <1>1, <1>3, <2>1, <3>1 DEF Answered
  <2>. QED
    BY <1>3, <2>1
<1>. QED
  BY <1>2, <1>3 DEF Answered

(* A step of the handler keeps the invariant if it is answerable for the    *)
(* verdict it sets, the records it adds and the record it is done with.     *)
LEMMA HandlerKeeps ==
  ASSUME BuildSetting, Counted, BuildInv, NEW m \in Members, HandlerStep(m),
         NEW new, LogAdds(new), StillCounted, BuildsTyped', built' = built,
         \A s \in Submissions : buildPods'[s] = "succeeded" => buildPods[s] = "succeeded",
         \A k \in Members \ {m} : verdict'[k] = verdict[k],
         verdict'[m] = "complete" => Sub(m) \in built /\ pc'[m] \in {"cleanup", "publish"},
         \A s : [kind |-> "complete", sub |-> s] \in new => s \in built,
         troubles' = 0 => \/ handled' = handled
                          \/ [kind |-> "complete", sub |-> Sub(m)] \in new
                          \/ [kind |-> "buildFailed", sub |-> Sub(m)] \in new
  PROVE  BuildInv'
<1>1. GroupInv'
  BY GroupKept DEF BuildInv, BuildSetting, LogAdds
<1>2. /\ \A k \in Members \ {m} : pc'[k] = pc[k] /\ next'[k] = next[k] /\ stopping'[k] = stopping[k]
      /\ stopping'[m] => stopping[m]
      /\ pc'[m] \in HandlerSteps => next'[m] = next[m]
      /\ handled' = handled \/ handled' = handled \cup {next[m]}
  BY DEF HandlerStep, Goto, Ends, BuildInv, GroupInv, GroupTyped, BuildSetting
<1>3. pc[m] \notin Resting
  BY DEF HandlerStep, BuildSetting, Resting
<1>4. next[m] \in 1..Len(log) /\ log'[next[m]].sub = Sub(m)
  BY <1>3, RecordAtHand DEF BuildInv, GroupInv, LogAdds, Sub
<1>5. Earned'
  <2>1. \A k \in Members : verdict'[k] = "complete" =>
          pc'[k] \in {"cleanup", "publish"} /\ Sub(k)' \in built'
    <3>1. ASSUME NEW k \in Members, verdict'[k] = "complete"
          PROVE  pc'[k] \in {"cleanup", "publish"} /\ Sub(k) \in built
      BY <1>2, <3>1 DEF BuildInv, Earned
    <3>2. ASSUME NEW k \in Members, verdict'[k] = "complete"
          PROVE  Sub(k)' = Sub(k)
      <4>1. next'[k] = next[k] /\ pc[k] \notin Resting
        BY <1>2, <1>3, <3>1, <3>2 DEF BuildSetting, Resting
      <4>. QED
        BY <4>1, RecordStays DEF BuildInv, GroupInv
    <3>. QED
      BY <3>1, <3>2
  <2>2. \A s : SaidNext("complete", s) => Said("complete", s) \/ s \in built'
    BY DEF LogAdds
  <2>. QED
    BY <2>1, <2>2, EarnedKept DEF BuildInv, Earned
<1>6. ASSUME troubles' = 0  PROVE  Answered'
  <2>1. Answered
    BY <1>6 DEF BuildInv, Counted, StillCounted
  <2>2. handled \subseteq 1..Len(log) /\ \A k \in Members : ~stopping'[k]
    BY <1>2, <2>1 DEF Answered, BuildInv, GroupInv, GroupTyped
  <2>3. \A o \in handled' \ handled :
          SaidNext("complete", log'[o].sub) \/ SaidNext("buildFailed", log'[o].sub)
    BY <1>2, <1>4, <1>6 DEF LogAdds
  <2>. QED
    BY <2>1, <2>2, <2>3, AnsweredKept
<1>. QED
  BY <1>1, <1>5, <1>6 DEF BuildInv

\* Creating the pod: a new one, or AlreadyExists and a verdict of failure.
LEMMA CreateBuildKeeps ==
  ASSUME BuildSetting, Counted, log \in Seq(Records), BuildInv, NEW m \in Members, CreateBuildPod(m)
  PROVE  BuildInv' /\ StillCounted /\ LogAdds({})
<1>1. PICK a \in Answers(m) :
        LET made == a # "failed" /\ buildPods[Sub(m)] = "absent"
        IN /\ buildPods' = IF made THEN [buildPods EXCEPT ![Sub(m)] = "running"] ELSE buildPods
           /\ IF made /\ a = "ok" THEN Goto(m, "watch") /\ UNCHANGED verdict
              ELSE Goto(m, "publish") /\ verdict' = [verdict EXCEPT ![m] = "buildFailed"]
           /\ Charge(m, a)
  BY DEF CreateBuildPod
<1>2. /\ pc[m] = "handle" /\ log' = log /\ moves' = moves /\ late' = late /\ built' = built
      /\ Charge(m, a) /\ LogAdds({})
  BY <1>1, LogStays DEF CreateBuildPod
<1>3. StillCounted
  BY <1>2, Charged DEF Counted, StillCounted
<1>4. PICK q \in {"watch", "publish"} : Goto(m, q)
  BY <1>1
<1>5. HandlerStep(m) /\ handled' = handled
  BY <1>2, <1>4 DEF HandlerStep, BuildSetting, Goto
<1>6. BuildsTyped' /\ \A s \in Submissions : buildPods'[s] = "succeeded" => buildPods[s] = "succeeded"
  BY <1>1, <1>2 DEF BuildInv, BuildsTyped
<1>7. /\ \A k \in Members \ {m} : verdict'[k] = verdict[k]
      /\ verdict'[m] # "complete"
  <2>1. verdict[m] # "complete"
    BY <1>2 DEF BuildInv, Earned
  <2>. QED
    BY <1>1, <2>1 DEF BuildInv, BuildsTyped
<1>. QED
  BY <1>2, <1>3, <1>5, <1>6, <1>7, HandlerKeeps

\* The watch: a verdict of success needs the pod's, and the pod's is remembered.
LEMMA WatchKeeps ==
  ASSUME BuildSetting, Counted, log \in Seq(Records), BuildInv, NEW m \in Members,
         WatchSeesEnd(m) \/ WatchEnds(m)
  PROVE  BuildInv' /\ StillCounted /\ LogAdds({})
<1>1. /\ pc[m] = "watch" /\ Goto(m, "cleanup") /\ LogAdds({})
      /\ log' = log /\ troubles' = troubles /\ moves' = moves
      /\ buildPods' = buildPods /\ late' = late /\ built' = built
  BY LogStays DEF WatchSeesEnd, WatchEnds
<1>2. HandlerStep(m) /\ handled' = handled /\ pc'[m] = "cleanup"
  BY <1>1 DEF HandlerStep, BuildSetting, Goto, BuildInv, GroupInv, GroupTyped
<1>3. Sub(m) \in Submissions
  BY <1>1, RecordAtHand DEF BuildInv, GroupInv, Resting
<1>4. PICK v \in {"complete", "buildFailed"} :
        verdict' = [verdict EXCEPT ![m] = v] /\ (v = "complete" => buildPods[Sub(m)] = "succeeded")
  BY DEF WatchSeesEnd, WatchEnds, VerdictAtWatchEnd
<1>5. /\ \A k \in Members \ {m} : verdict'[k] = verdict[k]
      /\ verdict'[m] = v /\ BuildsTyped'
  BY <1>1, <1>4 DEF BuildInv, BuildsTyped
<1>6. v = "complete" => Sub(m) \in built
  BY <1>3, <1>4 DEF BuildInv, Earned
<1>7. StillCounted
  BY <1>1 DEF Counted, StillCounted
<1>. QED
  BY <1>1, <1>2, <1>5, <1>6, <1>7, HandlerKeeps

\* Deleting the pod takes no success away.
LEMMA CleanupBuildKeeps ==
  ASSUME BuildSetting, Counted, log \in Seq(Records), BuildInv, NEW m \in Members, CleanupBuildPod(m)
  PROVE  BuildInv' /\ StillCounted /\ LogAdds({})
<1>1. /\ pc[m] = "cleanup" /\ Goto(m, "publish") /\ LogAdds({})
      /\ log' = log /\ moves' = moves /\ verdict' = verdict /\ late' = late /\ built' = built
  BY LogStays DEF CleanupBuildPod
<1>2. HandlerStep(m) /\ handled' = handled /\ pc'[m] = "publish"
  BY <1>1 DEF HandlerStep, BuildSetting, Goto, BuildInv, GroupInv, GroupTyped
<1>3. StillCounted
  <2>1. CASE UNCHANGED troubles
    BY <1>1, <2>1 DEF Counted, StillCounted
  <2>2. CASE \E a \in BackgroundAnswers : ChargeBackground(a)
    BY <1>1, <2>2, ChargedInBackground DEF Counted, StillCounted
  <2>. QED
    BY <2>1, <2>2 DEF CleanupBuildPod
<1>4. buildPods' = buildPods \/ buildPods' = [buildPods EXCEPT ![Sub(m)] = "terminating"]
  BY DEF CleanupBuildPod
<1>5. BuildsTyped' /\ \A s \in Submissions : buildPods'[s] = "succeeded" => buildPods[s] = "succeeded"
  BY <1>1, <1>4 DEF BuildInv, BuildsTyped
<1>6. verdict[m] = "complete" => Sub(m) \in built
  BY DEF BuildInv, Earned
<1>. QED
  BY <1>1, <1>2, <1>3, <1>5, <1>6, HandlerKeeps

\* Publishing the verdict handles the record; an error ends the process instead.
LEMMA PublishBuildKeeps ==
  ASSUME BuildSetting, Counted, log \in Seq(Records), BuildInv, NEW m \in Members,
         PublishBuildComplete(m) \/ PublishBuildFailed(m)
  PROVE  /\ BuildInv' /\ StillCounted
         /\ \/ LogAdds({}) \/ LogAdds({[kind |-> "complete", sub |-> Sub(m)]})
            \/ LogAdds({[kind |-> "buildFailed", sub |-> Sub(m)]})
<1>1. PICK kind \in {"complete", "buildFailed"}, a \in Answers(m) :
        /\ verdict[m] = kind
        /\ log' = IF a = "failed" THEN log ELSE Publish(kind, Sub(m))
        /\ Goto(m, "commit") \/ (a # "ok" /\ Ends(m) /\ UNCHANGED committed)
        /\ Charge(m, a)
  BY DEF PublishBuildComplete, PublishBuildFailed
<1>2. /\ pc[m] = "publish" /\ moves' = moves /\ buildPods' = buildPods /\ built' = built
      /\ Forget(m)
  BY DEF PublishBuildComplete, PublishBuildFailed
<1>. DEFINE r == [kind |-> kind, sub |-> Sub(m)]
<1>3. /\ StillCounted
      /\ a # "ok" => troubles' > 0 \/ stopping[m]
  BY <1>1, <1>2, Charged DEF Counted, StillCounted
<1>4. r \in Records
  BY <1>2, RecordAtHand DEF BuildInv, GroupInv, Resting, Records
<1>5. PICK new \in {{}, {r}} : LogAdds(new) /\ (a = "ok" => new = {r})
  <2>1. CASE a = "failed"
    BY <1>1, <2>1, LogStays
  <2>2. CASE a # "failed"
    BY <1>1, <1>4, <2>2, LogAppended DEF Publish
  <2>. QED
    BY <2>1, <2>2
<1>6. HandlerStep(m)
  BY <1>1, <1>2 DEF HandlerStep, BuildSetting
<1>7. /\ \A k \in Members \ {m} : verdict'[k] = verdict[k]
      /\ verdict'[m] = "none" /\ BuildsTyped'
  BY <1>2 DEF Forget, BuildInv, BuildsTyped
<1>8. \A s : [kind |-> "complete", sub |-> s] \in new => s \in built
  <2>1. \A s : [kind |-> "complete", sub |-> s] \in new => kind = "complete" /\ s = Sub(m)
    OBVIOUS
  <2>. QED
    BY <1>1, <2>1 DEF BuildInv, Earned
<1>9. ASSUME troubles' = 0  PROVE  r \in new
  <2>1. ~stopping[m]
    BY <1>3, <1>9 DEF BuildInv, Answered, Counted, StillCounted
  <2>. QED
    BY <1>3, <1>5, <1>9, <2>1
<1>10. BuildInv'
  BY <1>2, <1>3, <1>5, <1>6, <1>7, <1>8, <1>9, HandlerKeeps
<1>. QED
  BY <1>3, <1>5, <1>10

(* Every step of handleRecord.                                              *)
LEMMA BuildStepKeeps ==
  ASSUME BuildSetting, Counted, log \in Seq(Records), BuildInv, NEW m \in Members, BuildStep(m)
  PROVE  BuildInv' /\ StillCounted /\ AddsOnly({"complete", "buildFailed"})
<1>1. Sub(m) \in Submissions
  BY RecordAtHand DEF BuildInv, GroupInv, Resting, BuildStep, CreateBuildPod, WatchSeesEnd,
     WatchEnds, CleanupBuildPod, PublishBuildComplete, PublishBuildFailed
<1>2. \A new \in SUBSET [kind : {"complete", "buildFailed"}, sub : Submissions] :
        LogAdds(new) => AddsOnly({"complete", "buildFailed"})
  BY DEF AddsOnly
<1>3. /\ LogAdds({}) => AddsOnly({"complete", "buildFailed"})
      /\ LogAdds({[kind |-> "complete", sub |-> Sub(m)]}) => AddsOnly({"complete", "buildFailed"})
      /\ LogAdds({[kind |-> "buildFailed", sub |-> Sub(m)]}) => AddsOnly({"complete", "buildFailed"})
  BY <1>1, <1>2
<1>. QED
  BY <1>3, CreateBuildKeeps, WatchKeeps, CleanupBuildKeeps, PublishBuildKeeps DEF BuildStep

(* A step of the loop around it, and what happens to the process.           *)
LEMMA BuildLoopKeeps ==
  ASSUME BuildSetting, Counted, log \in Seq(Records), BuildInv, NEW m \in Members,
         LoopStep(m) \/ Disturbance(m) \/ Assign(m), Around(m)
  PROVE  BuildInv' /\ StillCounted /\ log' = log
<1>1. /\ log' = log
      /\ troubles' \in 0..MaxTroubles /\ troubles <= troubles' /\ moves' \in 0..MaxMoves
      /\ \A k \in Members \ {m} :
           pc'[k] = pc[k] /\ next'[k] = next[k] /\ stopping'[k] = stopping[k]
      /\ pc[m] \in HandlerSteps =>
           \/ pc'[m] = pc[m] /\ next'[m] = next[m]
           \/ pc'[m] = "down" /\ troubles' > 0
      /\ stopping'[m] => stopping[m] \/ troubles' > 0
      /\ \/ handled' = handled
         \/ handled' = handled \cup {next[m]} /\ log[next[m]].kind # Wants
  BY LoopFrame DEF BuildSetting, BuildInv, GroupInv
<1>2. LogAdds({})
  BY <1>1, LogStays
<1>3. GroupInv'
  BY <1>2, GroupKept DEF BuildInv, BuildSetting, LogAdds
<1>4. /\ buildPods' = buildPods /\ built' = built /\ BuildsTyped'
      /\ \A k \in Members \ {m} : verdict'[k] = verdict[k]
      /\ verdict'[m] = "complete" => verdict[m] = "complete" /\ pc'[m] # "down"
  BY DEF Around, Forget, BuildInv, BuildsTyped
<1>5. Earned'
  <2>1. ASSUME NEW k \in Members, verdict'[k] = "complete"
        PROVE  pc'[k] \in {"cleanup", "publish"} /\ Sub(k)' \in built
    <3>1. verdict[k] = "complete" /\ pc[k] \in {"cleanup", "publish"} /\ Sub(k) \in built
      BY <1>4, <2>1 DEF BuildInv, Earned
    <3>2. pc'[k] = pc[k] /\ next'[k] = next[k]
      BY <1>1, <1>4, <2>1, <3>1 DEF BuildSetting
    <3>3. Sub(k)' = Sub(k)
      BY <1>2, <3>1, <3>2, RecordStays DEF BuildInv, GroupInv, Resting
    <3>. QED
      BY <3>1, <3>2, <3>3
  <2>2. \A s : SaidNext("complete", s) => Said("complete", s)
    BY <1>2 DEF LogAdds
  <2>. QED
    BY <1>4, <2>1, <2>2, EarnedKept DEF BuildInv, Earned
<1>6. ASSUME troubles' = 0  PROVE  Answered'
  <2>1. Answered /\ ~(troubles' > 0)
    BY <1>1, <1>6 DEF BuildInv, Counted, StillCounted
  <2>2. \A k \in Members : ~stopping'[k]
    BY <1>1, <2>1 DEF Answered
  <2>3. handled \subseteq 1..Len(log) /\ \A o \in handled' \ handled : log'[o].kind # Wants
    BY <1>1 DEF BuildInv, GroupInv, GroupTyped
  <2>. QED
    BY <1>2, <2>1, <2>2, <2>3, AnsweredKept
<1>. QED
  BY <1>1, <1>3, <1>4, <1>5, <1>6 DEF BuildInv, Counted, StillCounted

\* A step that is not this service's: of the cluster, of a clock, or of the others, which
\* add records of their own kinds.
LEMMA BuildUndisturbed ==
  ASSUME BuildSetting, Counted, StillCounted, BuildInv, UNCHANGED group,
         AddsOnly({"created", "ready", "sandboxFailed"}), BuildsTyped', verdict' = verdict,
         built \subseteq built',
         \A s \in Submissions : buildPods'[s] = "succeeded" => s \in built'
  PROVE  BuildInv'
<1>1. PICK new \in SUBSET [kind : {"created", "ready", "sandboxFailed"}, sub : Submissions] :
        LogAdds(new)
  BY DEF AddsOnly
<1>2. GroupInv'
  BY <1>1, GroupUndisturbed DEF BuildInv, LogAdds
<1>3. /\ \A k \in Members : pc'[k] = pc[k] /\ stopping'[k] = stopping[k]
      /\ handled' = handled /\ handled \subseteq 1..Len(log)
  BY DEF group, BuildInv, GroupInv, GroupTyped
<1>4. \A k \in Members : pc[k] \notin Resting => Sub(k)' = Sub(k)
  <2>1. next' = next
    BY DEF group
  <2>. QED
    BY <1>1, <2>1, RecordStays DEF BuildInv, GroupInv
<1>5. Earned'
  <2>1. \A s : SaidNext("complete", s) => Said("complete", s)
    <3>1. \A s : [kind |-> "complete", sub |-> s] \notin new
      OBVIOUS
    <3>. QED
      BY <1>1, <3>1 DEF LogAdds
  <2>2. \A k \in Members : verdict'[k] = "complete" =>
          pc'[k] \in {"cleanup", "publish"} /\ Sub(k)' \in built'
    BY <1>3, <1>4 DEF BuildInv, Earned, Resting
  <2>. QED
    BY <2>1, <2>2, EarnedKept DEF BuildInv
<1>6. ASSUME troubles' = 0  PROVE  Answered'
  <2>1. Answered
    BY <1>6 DEF BuildInv, Counted, StillCounted
  <2>2. \A k \in Members : ~stopping'[k]
    BY <1>3, <2>1 DEF Answered
  <2>. QED
    BY <1>1, <1>3, <2>1, <2>2, AnsweredKept
<1>. QED
  BY <1>2, <1>5, <1>6 DEF BuildInv

\* The ends of pods and of the clean-up context touch no record and no verdict.
LEMMA BuildSurroundingsKeep ==
  ASSUME BuildSetting, Counted, log \in Seq(Records), BuildInv,
         \/ \E m \in Members : CleanupExpires(m)
         \/ \E s \in Submissions : \/ BuildPodGone(s)
                                   \/ \E phase \in {"succeeded", "failed"} : BuildPodEnds(s, phase)
  PROVE  BuildInv' /\ StillCounted /\ log' = log
<1>1. /\ log' = log /\ troubles' = troubles /\ moves' = moves /\ UNCHANGED group
      /\ verdict' = verdict
  BY DEF CleanupExpires, BuildPodGone, BuildPodEnds
<1>2. AddsOnly({"created", "ready", "sandboxFailed"})
  BY <1>1, AddsNothing
<1>3. StillCounted
  BY <1>1 DEF Counted, StillCounted
<1>. DEFINE Harmless ==
       /\ BuildsTyped' /\ built \subseteq built'
       /\ \A s \in Submissions : buildPods'[s] = "succeeded" => s \in built'
<1>4. Harmless
  <2>1. ASSUME NEW m \in Members, CleanupExpires(m)  PROVE  Harmless
    BY <2>1 DEF CleanupExpires, BuildInv, BuildsTyped, Earned
  <2>2. ASSUME NEW s \in Submissions, BuildPodGone(s)  PROVE  Harmless
    BY <2>2 DEF BuildPodGone, BuildInv, BuildsTyped, Earned
  <2>3. ASSUME NEW s \in Submissions, NEW phase \in {"succeeded", "failed"}, BuildPodEnds(s, phase)
        PROVE  Harmless
    BY <2>3 DEF BuildPodEnds, BuildInv, BuildsTyped, Earned
  <2>. QED
    BY <2>1, <2>2, <2>3
<1>. QED
  BY <1>1, <1>2, <1>3, <1>4, BuildUndisturbed
-----------------------------------------------------------------------------
(* What follows for the pipeline's properties.                              *)

\* What the service promises follows from the invariant.
LEMMA BuildConclusions ==
  ASSUME BuildSetting, BuildInv
  PROVE  /\ \A s : Said("complete", s) => s \in built
         /\ troubles = 0 => \A o \in 1..(committed - 1) : log[o].kind = Wants =>
              Said("complete", log[o].sub) \/ Said("buildFailed", log[o].sub)
<1>1. 1..(committed - 1) \subseteq handled
  BY CommittedIsHandled DEF BuildInv
<1>. QED
  BY <1>1 DEF BuildInv, Earned, Answered

-----------------------------------------------------------------------------
(***************************************************************************)
(* What sandbox-orchestrator keeps to, however many replicas it has: who    *)
(* may still delete a sandbox, and, while no call has failed, who still     *)
(* owes one an answer.                                                      *)
(***************************************************************************)

DeploySetting ==
  /\ Setting
  /\ HandlerSteps = {"wait", "getPod", "cleanup", "publishReady", "publishFailed"}
  /\ Wants = "complete"

SandboxTyped ==
  sandboxes \in [Submissions -> {"absent", "starting", "ready", "dead", "terminating"}]

\* The steps at which a member still decides about the sandbox it has made.
Holds(m) == pc[m] \in {"wait", "getPod", "cleanup", "publishReady"}

\* A sandbox that is being decided about is there and not announced, one member decides
\* about it, and a sandbox that was announced is there.
Held ==
  /\ \A m \in Members : Holds(m) => sandboxes[Sub(m)] \in Live /\ ~Said("ready", Sub(m))
  /\ \A k, m \in Members : Holds(k) /\ Holds(m) /\ Sub(k) = Sub(m) => k = m
  /\ \A s \in Submissions : Said("ready", s) => sandboxes[s] \in Live

\* Nothing has gone wrong: a sandbox that is there was announced or is being decided about,
\* one that goes was answered for or is about to be, and so is every build that was handled.
Calm ==
  /\ \A m \in Members : ~stopping[m]
  /\ \A s \in Submissions : sandboxes[s] \in Live =>
       Said("ready", s) \/ \E m \in Members : Holds(m) /\ Sub(m) = s
  /\ \A s \in Submissions : sandboxes[s] = "terminating" =>
       Said("sandboxFailed", s) \/ \E m \in Members : pc[m] = "publishFailed" /\ Sub(m) = s
  /\ \A o \in handled : log[o].kind = Wants =>
       \/ Said("ready", log[o].sub) \/ Said("sandboxFailed", log[o].sub)
       \/ \E m \in Members : pc[m] \in HandlerSteps /\ Sub(m) = log[o].sub

DeployInv == GroupInv /\ SandboxTyped /\ Held /\ (troubles = 0 => Calm)

-----------------------------------------------------------------------------
\* No sandbox is there and nothing is in hand when the service starts.
LEMMA DeployInit ==
  ASSUME InitSandboxes(Submissions), log = << >>, DeploySetting
  PROVE  DeployInv
<1>1. GroupInv
  BY GroupInit DEF InitSandboxes, DeploySetting
<1>2. /\ sandboxes = [s \in Submissions |-> "absent"]
      /\ pc = [m \in Members |-> "poll"] /\ stopping = [m \in Members |-> FALSE] /\ handled = {}
  BY DEF InitSandboxes, InitGroup
<1>3. \A kind, s : ~Said(kind, s)
  <2>1. DOMAIN log = {}
    OBVIOUS
  <2>. QED
    BY <2>1 DEF Said
<1>4. \A m \in Members : ~Holds(m)
  BY <1>2 DEF Holds
<1>5. SandboxTyped /\ Held
  BY <1>2, <1>3, <1>4 DEF SandboxTyped, Held
<1>6. Calm
  BY <1>2 DEF Calm, Live
<1>. QED
  BY <1>1, <1>5, <1>6 DEF DeployInv

(* A step of the handler, from step p to step q of it.                      *)
Moves(m, p, q) ==
  /\ pc[m] = p /\ pc' = [pc EXCEPT ![m] = q] /\ UNCHANGED <<next, stopping>>
  /\ handled' = IF q = "commit" THEN handled \cup {next[m]} ELSE handled

\* What stays true of members, sandboxes and records when one member moves.
LEMMA MovesFrame ==
  ASSUME DeploySetting, GroupTyped, log \in Seq(Records), NEW new, LogAdds(new), NEW m \in Members,
         NEW p \in HandlerSteps \cup {"handle"}, NEW q \in HandlerSteps \cup {"commit"},
         Moves(m, p, q)
  PROVE  /\ Sub(m) \in Submissions /\ Sub(m)' = Sub(m) /\ next[m] \in 1..Len(log)
         /\ \A k \in Members : pc[k] \notin Resting => Sub(k)' = Sub(k)
         /\ \A k \in Members : pc'[k] = IF k = m THEN q ELSE pc[k]
<1>1. pc[m] \notin Resting
  BY DEF Moves, DeploySetting, Resting
<1>2. Sub(m) \in Submissions /\ next[m] \in 1..Len(log)
  BY <1>1, RecordAtHand
<1>3. \A k \in Members : pc[k] \notin Resting => Sub(k)' = Sub(k)
  <2>1. next' = next
    BY DEF Moves
  <2>. QED
    BY <2>1, RecordStays
<1>4. \A k \in Members : pc'[k] = IF k = m THEN q ELSE pc[k]
  BY DEF Moves, GroupTyped
<1>. QED
  BY <1>1, <1>2, <1>3, <1>4

\* What a step may do to the sandboxes, the log and the handlers for Held to go on holding.
LEMMA HeldKept ==
  ASSUME Held,
         \A k \in Members : Holds(k)' =>
           Holds(k) /\ Sub(k)' = Sub(k) /\ sandboxes'[Sub(k)] \in Live /\ ~SaidNext("ready", Sub(k)),
         \A s \in Submissions : SaidNext("ready", s) => sandboxes'[s] \in Live
  PROVE  Held'
<1>. \A kind, s : Said(kind, s)' <=> SaidNext(kind, s)
  BY DEF Said, SaidNext
<1>1. \A k \in Members : Holds(k)' => sandboxes'[Sub(k)'] \in Live' /\ ~SaidNext("ready", Sub(k))
  BY DEF Live
<1>2. \A k, m \in Members : Holds(k)' /\ Holds(m)' /\ Sub(k)' = Sub(m)' => k = m
  BY DEF Held
<1>. QED
  BY <1>1, <1>2 DEF Held, Live

\* And for Calm to: who stops deciding has announced the sandbox or deleted it, and who
\* stops handling has answered.
LEMMA CalmKept ==
  ASSUME Calm, NEW new, LogAdds(new), handled \subseteq 1..Len(log),
         \A m \in Members : ~stopping'[m],
         \A s \in Submissions : sandboxes'[s] \in Live =>
           sandboxes[s] \in Live \/ \E m \in Members : Holds(m)' /\ Sub(m)' = s,
         \A s \in Submissions : sandboxes'[s] = "terminating" =>
           sandboxes[s] = "terminating" \/ \E m \in Members : pc'[m] = "publishFailed" /\ Sub(m)' = s,
         \A m \in Members : Holds(m) =>
           (Holds(m)' /\ Sub(m)' = Sub(m)) \/ SaidNext("ready", Sub(m)) \/ sandboxes'[Sub(m)] \notin Live,
         \A m \in Members : pc[m] = "publishFailed" =>
           (pc'[m] = "publishFailed" /\ Sub(m)' = Sub(m)) \/ SaidNext("sandboxFailed", Sub(m)),
         \A m \in Members : pc[m] \in HandlerSteps =>
           \/ pc'[m] \in HandlerSteps /\ Sub(m)' = Sub(m)
           \/ SaidNext("ready", Sub(m)) \/ SaidNext("sandboxFailed", Sub(m)),
         \A o \in handled' \ handled : log'[o].kind = Wants =>
           \/ SaidNext("ready", log'[o].sub) \/ SaidNext("sandboxFailed", log'[o].sub)
           \/ \E m \in Members : pc'[m] \in HandlerSteps /\ Sub(m)' = log'[o].sub
  PROVE  Calm'
<1>. \A kind, s : Said(kind, s)' <=> SaidNext(kind, s)
  BY DEF Said, SaidNext
<1>1. \A kind, s : Said(kind, s) => SaidNext(kind, s)
  BY DEF LogAdds
<1>2. \A s \in Submissions : sandboxes'[s] \in Live =>
        SaidNext("ready", s) \/ \E m \in Members : Holds(m)' /\ Sub(m)' = s
  BY <1>1 DEF Calm
<1>3. \A s \in Submissions : sandboxes'[s] = "terminating" =>
        SaidNext("sandboxFailed", s) \/ \E m \in Members : pc'[m] = "publishFailed" /\ Sub(m)' = s
  BY <1>1 DEF Calm
<1>4. \A o \in handled' : log'[o].kind = Wants =>
        \/ SaidNext("ready", log'[o].sub) \/ SaidNext("sandboxFailed", log'[o].sub)
        \/ \E m \in Members : pc'[m] \in HandlerSteps /\ Sub(m)' = log'[o].sub
  <2>1. SUFFICES ASSUME NEW o \in handled, log'[o].kind = Wants
                 PROVE  \/ SaidNext("ready", log'[o].sub) \/ SaidNext("sandboxFailed", log'[o].sub)
                        \/ \E m \in Members : pc'[m] \in HandlerSteps /\ Sub(m)' = log'[o].sub
    OBVIOUS
  <2>2. log'[o] = log[o]
    BY DEF LogAdds
  <2>3. \/ Said("ready", log[o].sub) \/ Said("sandboxFailed", log[o].sub)
        \/ \E m \in Members : pc[m] \in HandlerSteps /\ Sub(m) = log[o].sub
    BY <2>1, <2>2 DEF Calm
  <2>. QED
    BY <1>1, <2>2, <2>3
<1>. QED
  BY <1>2, <1>3, <1>4 DEF Calm, Live

Deciding == {"wait", "getPod", "cleanup", "publishReady"}

\* A member that moves within handleRecord keeps the group.
LEMMA MovesInGroup ==
  ASSUME DeploySetting, GroupInv, NEW new, LogAdds(new), NEW m \in Members,
         NEW p \in HandlerSteps \cup {"handle"}, NEW q \in HandlerSteps \cup {"commit"},
         pc[m] = p, Goto(m, q)
  PROVE  Moves(m, p, q) /\ GroupInv'
<1>1. Moves(m, p, q)
  BY DEF Moves, Goto
<1>2. GroupInv'
  BY GotoKeeps DEF DeploySetting, LogAdds
<1>. QED
  BY <1>1, <1>2

\* A step that leaves the sandbox alone, and does not announce it.
LEMMA MoveAside ==
  ASSUME DeploySetting, GroupInv, SandboxTyped, Held, NEW new, LogAdds(new), NEW m \in Members,
         \A r \in new : r.kind # "ready", sandboxes' = sandboxes,
         NEW p \in HandlerSteps \cup {"handle"}, NEW q \in HandlerSteps \cup {"commit"},
         Moves(m, p, q), q \in Deciding => p \in Deciding
  PROVE  SandboxTyped' /\ Held'
<1>1. /\ Sub(m) \in Submissions /\ Sub(m)' = Sub(m) /\ next[m] \in 1..Len(log)
      /\ \A k \in Members : pc[k] \notin Resting => Sub(k)' = Sub(k)
      /\ \A k \in Members : pc'[k] = IF k = m THEN q ELSE pc[k]
  BY MovesFrame DEF GroupInv, LogAdds
<1>2. \A s : SaidNext("ready", s) <=> Said("ready", s)
  <2>1. \A s : [kind |-> "ready", sub |-> s] \notin new
    OBVIOUS
  <2>. QED
    BY <2>1 DEF LogAdds
<1>3. \A k \in Members : Holds(k)' => Holds(k) /\ Sub(k)' = Sub(k)
  BY <1>1 DEF Holds, Resting, Deciding, Moves
<1>4. Held'
  BY <1>2, <1>3, HeldKept DEF Held, SandboxTyped, Live
<1>. QED
  BY <1>4 DEF SandboxTyped

\* From one step of deciding to another.
LEMMA MoveOn ==
  ASSUME DeploySetting, GroupInv, SandboxTyped, Calm, NEW m \in Members, LogAdds({}),
         sandboxes' = sandboxes, NEW p \in Deciding, NEW q \in Deciding, Moves(m, p, q)
  PROVE  Calm'
<1>0. p \in HandlerSteps \cup {"handle"} /\ q \in HandlerSteps \cup {"commit"}
  BY DEF Deciding, DeploySetting
<1>a. log \in Seq(Records)
  BY DEF LogAdds
<1>1. /\ Sub(m) \in Submissions /\ Sub(m)' = Sub(m) /\ next[m] \in 1..Len(log)
      /\ \A k \in Members : pc[k] \notin Resting => Sub(k)' = Sub(k)
      /\ \A k \in Members : pc'[k] = IF k = m THEN q ELSE pc[k]
  BY <1>0, <1>a, MovesFrame DEF GroupInv
<1>2. \A k \in Members : Holds(k) => Holds(k)' /\ Sub(k)' = Sub(k)
  BY <1>1 DEF Holds, Resting, Deciding, Moves
<1>3. \A k \in Members : pc[k] = "publishFailed" => pc'[k] = "publishFailed" /\ Sub(k)' = Sub(k)
  BY <1>1 DEF Resting, Deciding, Moves
<1>4. \A k \in Members : pc[k] \in HandlerSteps => pc'[k] \in HandlerSteps /\ Sub(k)' = Sub(k)
  BY <1>1 DEF Resting, Deciding, Moves, DeploySetting
<1>5. handled' = handled /\ handled \subseteq 1..Len(log) /\ \A k \in Members : ~stopping'[k]
  BY DEF Moves, Deciding, GroupInv, GroupTyped, Calm
<1>. QED
  BY <1>2, <1>3, <1>4, <1>5, CalmKept

\* Creating the pod: a new one is held by its creator alone.
LEMMA CreateKeeps ==
  ASSUME DeploySetting, Counted, log \in Seq(Records), DeployInv, NEW m \in Members,
         CreateSandboxPod(m)
  PROVE  DeployInv' /\ StillCounted /\ LogAdds({})
<1>1. PICK a \in Answers(m) :
        LET exists == sandboxes[Sub(m)] # "absent"
            made == a # "failed" /\ ~exists
        IN /\ sandboxes' = IF made THEN [sandboxes EXCEPT ![Sub(m)] = "starting"] ELSE sandboxes
           /\ Goto(m, IF made /\ a = "ok" THEN "wait" ELSE AfterCreateError(exists, a))
           /\ Charge(m, a)
  BY DEF CreateSandboxPod
<1>2. pc[m] = "handle" /\ log' = log /\ moves' = moves /\ Charge(m, a) /\ LogAdds({})
  BY <1>1, LogStays DEF CreateSandboxPod
<1>3. troubles' \in 0..MaxTroubles /\ troubles <= troubles' /\ (a # "ok" => troubles' > 0 \/ stopping[m])
  BY <1>2, Charged
<1>4. StillCounted
  BY <1>2, <1>3 DEF Counted, StillCounted
<1>5. PICK q \in {"wait", "commit", "publishFailed"} :
        /\ Goto(m, q)
        /\ \/ /\ sandboxes[Sub(m)] = "absent"
              /\ sandboxes' = [sandboxes EXCEPT ![Sub(m)] = "starting"]
              /\ q = "wait" \/ (q = "publishFailed" /\ a # "ok")
           \/ /\ sandboxes' = sandboxes
              /\ \/ q = "commit" /\ sandboxes[Sub(m)] # "absent"
                 \/ q = "publishFailed" /\ a # "ok"
  BY <1>1 DEF AfterCreateError
<1>6. Moves(m, "handle", q) /\ GroupInv'
  BY <1>2, <1>5, MovesInGroup DEF DeployInv, DeploySetting
<1>7. /\ Sub(m) \in Submissions /\ Sub(m)' = Sub(m) /\ next[m] \in 1..Len(log)
      /\ \A k \in Members : pc[k] \notin Resting => Sub(k)' = Sub(k)
      /\ \A k \in Members : pc'[k] = IF k = m THEN q ELSE pc[k]
  BY <1>2, <1>5, <1>6, MovesFrame DEF DeployInv, GroupInv, DeploySetting
<1>8. \A kind, s : SaidNext(kind, s) <=> Said(kind, s)
  BY <1>2 DEF LogAdds
<1>9. \A k \in Members \ {m} : Holds(k)' <=> Holds(k) /\ Sub(k)' = Sub(k)
  BY <1>7 DEF Holds, Resting
<1>10. SandboxTyped' /\ Held'
  <2>1. CASE sandboxes' = sandboxes /\ q # "wait"
    BY <1>2, <1>5, <1>6, <2>1, MoveAside DEF DeployInv, DeploySetting, Deciding
  <2>2. CASE sandboxes[Sub(m)] = "absent" /\ sandboxes' = [sandboxes EXCEPT ![Sub(m)] = "starting"]
    <3>1. /\ SandboxTyped' /\ sandboxes'[Sub(m)] \in Live
          /\ \A s \in Submissions : sandboxes[s] \in Live => sandboxes'[s] \in Live /\ s # Sub(m)
      BY <1>7, <2>2 DEF DeployInv, SandboxTyped, Live
    <3>2. ~Said("ready", Sub(m)) /\ \A k \in Members : Holds(k) => Sub(k) # Sub(m)
      BY <1>7, <3>1 DEF DeployInv, Held, SandboxTyped, Live
    <3>3. \A k \in Members : Holds(k) => Sub(k) \in Submissions
      BY RecordAtHand DEF DeployInv, GroupInv, Holds, Resting
    <3>4. \A kind, s : Said(kind, s)' <=> Said(kind, s)
      BY <1>8 DEF Said, SaidNext
    <3>5. \A k \in Members : Holds(k)' => sandboxes'[Sub(k)'] \in Live /\ ~Said("ready", Sub(k)')
      BY <1>7, <1>9, <3>1, <3>2, <3>3 DEF DeployInv, Held
    <3>6. \A k, n \in Members : Holds(k)' /\ Holds(n)' /\ Sub(k)' = Sub(n)' => k = n
      BY <1>7, <1>9, <3>2 DEF DeployInv, Held
    <3>7. \A s \in Submissions : Said("ready", s) => sandboxes'[s] \in Live
      BY <3>1 DEF DeployInv, Held
    <3>8. Held'
      BY <3>4, <3>5, <3>6, <3>7 DEF Held, Live
    <3>. QED
      BY <3>1, <3>8
  <2>. QED
    BY <1>5, <2>1, <2>2
<1>11. ASSUME troubles' = 0  PROVE  Calm'
  <2>1. Calm /\ ~stopping[m] /\ a = "ok"
    BY <1>3, <1>11 DEF DeployInv, Calm, Counted, StillCounted
  <2>2. /\ \A k \in Members : Holds(k) => Holds(k)' /\ Sub(k)' = Sub(k)
        /\ \A k \in Members : pc[k] = "publishFailed" => pc'[k] = "publishFailed" /\ Sub(k)' = Sub(k)
        /\ \A k \in Members : pc[k] \in HandlerSteps => pc'[k] \in HandlerSteps /\ Sub(k)' = Sub(k)
    BY <1>2, <1>7 DEF Holds, Resting, DeploySetting
  <2>3. /\ \A k \in Members : ~stopping'[k]
        /\ handled \subseteq 1..Len(log)
    BY <1>6, <2>1 DEF Moves, Calm, DeployInv, GroupInv, GroupTyped
  <2>4. CASE q = "wait"
    <3>1. handled' = handled /\ Holds(m)' /\ sandboxes' = [sandboxes EXCEPT ![Sub(m)] = "starting"]
      BY <1>5, <1>6, <1>7, <2>4 DEF Moves, Holds
    <3>2. /\ \A s \in Submissions : sandboxes'[s] \in Live => sandboxes[s] \in Live \/ s = Sub(m)
          /\ \A s \in Submissions : sandboxes'[s] = "terminating" => sandboxes[s] = "terminating"
      BY <1>7, <3>1 DEF SandboxTyped, DeployInv
    <3>. QED
      BY <1>2, <1>7, <2>1, <2>2, <2>3, <3>1, <3>2, CalmKept
  <2>5. CASE q = "commit"
    <3>1. /\ handled' = handled \cup {next[m]} /\ sandboxes' = sandboxes /\ sandboxes[Sub(m)] # "absent"
          /\ log'[next[m]].sub = Sub(m)
      BY <1>2, <1>5, <1>6, <2>5 DEF Moves, Sub
    <3>2. sandboxes[Sub(m)] \in Live \/ sandboxes[Sub(m)] = "terminating"
      BY <1>7, <3>1 DEF DeployInv, SandboxTyped, Live
    <3>3. \/ Said("ready", Sub(m)) \/ Said("sandboxFailed", Sub(m))
          \/ \E k \in Members : pc[k] \in HandlerSteps /\ Sub(k) = Sub(m)
      BY <1>7, <2>1, <3>2 DEF Calm, Holds, DeploySetting
    <3>4. \/ SaidNext("ready", Sub(m)) \/ SaidNext("sandboxFailed", Sub(m))
          \/ \E k \in Members : pc'[k] \in HandlerSteps /\ Sub(k)' = Sub(m)
      BY <1>8, <2>2, <3>3
    <3>. QED
      BY <1>2, <2>1, <2>2, <2>3, <3>1, <3>4, CalmKept
  <2>. QED
    BY <1>5, <2>1, <2>4, <2>5
<1>. QED
  BY <1>2, <1>4, <1>6, <1>10, <1>11 DEF DeployInv

\* Waiting for the pod and reading it change nothing but the member.
LEMMA WaitKeeps ==
  ASSUME DeploySetting, Counted, log \in Seq(Records), DeployInv, NEW m \in Members,
         WaitSeesReady(m) \/ WaitFails(m) \/ GetPod(m)
  PROVE  DeployInv' /\ StillCounted /\ LogAdds({})
<1>1. /\ log' = log /\ moves' = moves /\ sandboxes' = sandboxes /\ LogAdds({})
      /\ troubles' \in 0..MaxTroubles /\ troubles <= troubles'
  <2>1. CASE WaitSeesReady(m) \/ WaitFails(m)
    BY <2>1, LogStays DEF WaitSeesReady, WaitFails, Counted, StillCounted
  <2>2. CASE GetPod(m)
    <3>1. PICK a \in Answers(m) : Charge(m, a)
      BY <2>2 DEF GetPod
    <3>2. troubles' \in 0..MaxTroubles /\ troubles <= troubles'
      BY <3>1, Charged
    <3>. QED
      BY <2>2, <3>2, LogStays DEF GetPod
  <2>. QED
    BY <2>1, <2>2
<1>2. PICK p \in Deciding, q \in Deciding : pc[m] = p /\ Goto(m, q)
  BY DEF WaitSeesReady, WaitFails, GetPod, AfterWaitError, Deciding
<1>3. p \in HandlerSteps /\ q \in HandlerSteps
  BY DEF DeploySetting, Deciding
<1>4. Moves(m, p, q) /\ GroupInv'
  BY <1>1, <1>2, <1>3, MovesInGroup DEF DeployInv
<1>5. SandboxTyped' /\ Held'
  BY <1>1, <1>3, <1>4, MoveAside DEF DeployInv
<1>6. troubles' = 0 => Calm'
  BY <1>1, <1>4, MoveOn DEF DeployInv, Counted, StillCounted
<1>. QED
  BY <1>1, <1>4, <1>5, <1>6 DEF DeployInv, Counted, StillCounted

\* A failed deployment deletes a sandbox that nobody was told of.
LEMMA CleanupKeeps ==
  ASSUME DeploySetting, Counted, log \in Seq(Records), DeployInv, NEW m \in Members,
         CleanupSandboxPod(m)
  PROVE  DeployInv' /\ StillCounted /\ LogAdds({})
<1>1. PICK a \in BackgroundAnswers :
        /\ sandboxes' = IF a = "ok" THEN [sandboxes EXCEPT ![Sub(m)] = "terminating"] ELSE sandboxes
        /\ ChargeBackground(a)
  BY DEF CleanupSandboxPod
<1>2. pc[m] = "cleanup" /\ Goto(m, "publishFailed") /\ log' = log /\ moves' = moves /\ LogAdds({})
  BY LogStays DEF CleanupSandboxPod
<1>3. troubles' \in 0..MaxTroubles /\ troubles <= troubles' /\ (a # "ok" => troubles' > 0)
  BY <1>1, ChargedInBackground
<1>4. "cleanup" \in HandlerSteps /\ "publishFailed" \in HandlerSteps
  BY DEF DeploySetting
<1>5. Moves(m, "cleanup", "publishFailed") /\ GroupInv'
  BY <1>2, <1>4, MovesInGroup DEF DeployInv
<1>6. /\ Sub(m) \in Submissions /\ Sub(m)' = Sub(m) /\ next[m] \in 1..Len(log)
      /\ \A k \in Members : pc[k] \notin Resting => Sub(k)' = Sub(k)
      /\ \A k \in Members : pc'[k] = IF k = m THEN "publishFailed" ELSE pc[k]
  BY <1>2, <1>4, <1>5, MovesFrame DEF DeployInv, GroupInv
<1>7. \A kind, s : SaidNext(kind, s) <=> Said(kind, s)
  BY <1>2 DEF LogAdds
<1>8. \A k \in Members \ {m} : Holds(k) <=> Holds(k)'
  BY <1>6 DEF Holds
<1>9. Holds(m) /\ ~Holds(m)' /\ \A k \in Members : Holds(k) => Sub(k)' = Sub(k) /\ Sub(k) \in Submissions
  BY <1>2, <1>6, RecordAtHand DEF Holds, Resting, DeployInv, GroupInv
<1>10. ~Said("ready", Sub(m)) /\ \A k \in Members \ {m} : Holds(k) => Sub(k) # Sub(m)
  BY <1>9 DEF DeployInv, Held
<1>11. SandboxTyped' /\ \A s \in Submissions \ {Sub(m)} : sandboxes'[s] = sandboxes[s]
  BY <1>1, <1>6 DEF DeployInv, SandboxTyped
<1>12. Held'
  <2>1. \A k \in Members : Holds(k)' =>
          Holds(k) /\ Sub(k)' = Sub(k) /\ sandboxes'[Sub(k)] \in Live /\ ~SaidNext("ready", Sub(k))
    BY <1>7, <1>8, <1>9, <1>10, <1>11 DEF DeployInv, Held
  <2>2. \A s \in Submissions : SaidNext("ready", s) => sandboxes'[s] \in Live
    BY <1>7, <1>10, <1>11 DEF DeployInv, Held
  <2>. QED
    BY <2>1, <2>2, HeldKept DEF DeployInv
<1>13. ASSUME troubles' = 0  PROVE  Calm'
  <2>1. Calm /\ a = "ok"
    BY <1>3, <1>13 DEF DeployInv, Counted, StillCounted
  <2>2. sandboxes'[Sub(m)] = "terminating"
    BY <1>1, <1>6, <2>1 DEF DeployInv, SandboxTyped
  <2>3. \A s \in Submissions : sandboxes'[s] \in Live => sandboxes[s] \in Live
    BY <1>11, <2>2 DEF Live
  <2>4. \A s \in Submissions : sandboxes'[s] = "terminating" =>
          sandboxes[s] = "terminating" \/ \E k \in Members : pc'[k] = "publishFailed" /\ Sub(k)' = s
    BY <1>6, <1>11
  <2>5. \A k \in Members : Holds(k) =>
          (Holds(k)' /\ Sub(k)' = Sub(k)) \/ sandboxes'[Sub(k)] \notin Live
    BY <1>8, <1>9, <2>2 DEF Live
  <2>6. /\ \A k \in Members : pc[k] = "publishFailed" => pc'[k] = "publishFailed" /\ Sub(k)' = Sub(k)
        /\ \A k \in Members : pc[k] \in HandlerSteps => pc'[k] \in HandlerSteps /\ Sub(k)' = Sub(k)
    BY <1>2, <1>6 DEF Resting, DeploySetting
  <2>7. handled' = handled /\ handled \subseteq 1..Len(log) /\ \A k \in Members : ~stopping'[k]
    BY <1>5, <2>1 DEF Moves, Calm, DeployInv, GroupInv, GroupTyped
  <2>. QED
    BY <1>2, <2>1, <2>3, <2>4, <2>5, <2>6, <2>7, CalmKept
<1>. QED
  BY <1>2, <1>3, <1>5, <1>11, <1>12, <1>13 DEF DeployInv, Counted, StillCounted

\* sandbox.ready is about a sandbox that is there.
LEMMA PublishReadyKeeps ==
  ASSUME DeploySetting, Counted, log \in Seq(Records), DeployInv, NEW m \in Members,
         PublishSandboxReady(m)
  PROVE  /\ DeployInv' /\ StillCounted
         /\ LogAdds({}) \/ LogAdds({[kind |-> "ready", sub |-> Sub(m)]})
<1>. DEFINE r == [kind |-> "ready", sub |-> Sub(m)]
<1>1. PICK a \in Answers(m) :
        /\ log' = IF a = "failed" THEN log ELSE Publish("ready", Sub(m))
        /\ IF a = "ok" THEN Goto(m, "commit") ELSE Ends(m) /\ UNCHANGED committed
        /\ Charge(m, a)
  BY DEF PublishSandboxReady
<1>2. pc[m] = "publishReady" /\ moves' = moves /\ sandboxes' = sandboxes
  BY DEF PublishSandboxReady
<1>3. troubles' \in 0..MaxTroubles /\ troubles <= troubles' /\ (a # "ok" => troubles' > 0 \/ stopping[m])
  BY <1>1, Charged
<1>4. /\ Sub(m) \in Submissions /\ next[m] \in 1..Len(log)
      /\ \A k \in Members : pc[k] \notin Resting => Sub(k) \in Submissions
  BY <1>2, RecordAtHand DEF DeployInv, GroupInv, Resting
<1>5. PICK new \in {{}, {r}} : LogAdds(new) /\ (a = "ok" => new = {r})
  <2>1. r \in Records
    BY <1>4 DEF Records
  <2>2. CASE a = "failed"
    BY <1>1, <2>2, LogStays
  <2>3. CASE a # "failed"
    BY <1>1, <2>1, <2>3, LogAppended DEF Publish
  <2>. QED
    BY <2>2, <2>3
<1>6. HandlerStep(m) /\ "publishReady" \in HandlerSteps
  BY <1>1, <1>2 DEF HandlerStep, DeploySetting
<1>7. GroupInv'
  BY <1>5, <1>6, GroupKept DEF DeployInv, DeploySetting, LogAdds
<1>8. /\ \A k \in Members \ {m} : pc'[k] = pc[k] /\ next'[k] = next[k] /\ stopping'[k] = stopping[k]
      /\ pc'[m] \in {"commit", "down"} /\ (stopping'[m] => stopping[m])
      /\ a = "ok" => pc'[m] = "commit" /\ handled' = handled \cup {next[m]}
  BY <1>1 DEF Goto, Ends, DeployInv, GroupInv, GroupTyped
<1>9. \A k \in Members \ {m} : pc[k] \notin Resting => Sub(k)' = Sub(k)
  BY <1>5, <1>8, RecordStays DEF DeployInv, GroupInv
<1>10. /\ \A k \in Members \ {m} : Holds(k) <=> Holds(k)'
       /\ Holds(m) /\ ~Holds(m)' /\ \A k \in Members : Holds(k) => pc[k] \notin Resting
  BY <1>2, <1>8 DEF Holds, Resting
<1>11. \A s : SaidNext("ready", s) => Said("ready", s) \/ s = Sub(m)
  <2>1. \A s : [kind |-> "ready", sub |-> s] \in new => s = Sub(m)
    OBVIOUS
  <2>. QED
    BY <1>5, <2>1 DEF LogAdds
<1>12. \A k \in Members \ {m} : Holds(k) => Sub(k) # Sub(m)
  BY <1>10 DEF DeployInv, Held
<1>13. SandboxTyped' /\ Held'
  <2>1. \A k \in Members : Holds(k)' =>
          Holds(k) /\ Sub(k)' = Sub(k) /\ sandboxes'[Sub(k)] \in Live /\ ~SaidNext("ready", Sub(k))
    BY <1>2, <1>9, <1>10, <1>11, <1>12 DEF DeployInv, Held
  <2>2. \A s \in Submissions : SaidNext("ready", s) => sandboxes'[s] \in Live
    BY <1>2, <1>10, <1>11 DEF DeployInv, Held
  <2>. QED
    BY <1>2, <2>1, <2>2, HeldKept DEF DeployInv, SandboxTyped
<1>14. ASSUME troubles' = 0  PROVE  Calm'
  <2>1. Calm /\ a = "ok" /\ pc'[m] = "commit" /\ handled' = handled \cup {next[m]}
    BY <1>3, <1>8, <1>14 DEF DeployInv, Calm, Counted, StillCounted
  <2>2. SaidNext("ready", Sub(m))
    BY <1>5, <2>1 DEF LogAdds
  <2>3. log'[next[m]].sub = Sub(m)
    BY <1>4, <1>5 DEF LogAdds, Sub
  <2>4. \A k \in Members : Holds(k) =>
          (Holds(k)' /\ Sub(k)' = Sub(k)) \/ SaidNext("ready", Sub(k))
    BY <1>9, <1>10, <2>2
  <2>5. /\ \A k \in Members : pc[k] = "publishFailed" => pc'[k] = "publishFailed" /\ Sub(k)' = Sub(k)
        /\ \A k \in Members : pc[k] \in HandlerSteps =>
             (pc'[k] \in HandlerSteps /\ Sub(k)' = Sub(k)) \/ SaidNext("ready", Sub(k))
    BY <1>2, <1>8, <1>9, <2>2 DEF Resting, DeploySetting
  <2>6. handled \subseteq 1..Len(log) /\ \A k \in Members : ~stopping'[k]
    BY <1>8, <2>1 DEF Calm, DeployInv, GroupInv, GroupTyped
  <2>. QED
    BY <1>2, <1>5, <2>1, <2>2, <2>3, <2>4, <2>5, <2>6, CalmKept
<1>. QED
  BY <1>2, <1>3, <1>5, <1>7, <1>13, <1>14 DEF DeployInv, Counted, StillCounted

\* sandbox.failed handles the record, published or not.
LEMMA PublishFailedKeeps ==
  ASSUME DeploySetting, Counted, log \in Seq(Records), DeployInv, NEW m \in Members,
         PublishSandboxFailed(m)
  PROVE  /\ DeployInv' /\ StillCounted
         /\ LogAdds({}) \/ LogAdds({[kind |-> "sandboxFailed", sub |-> Sub(m)]})
<1>. DEFINE r == [kind |-> "sandboxFailed", sub |-> Sub(m)]
<1>1. PICK a \in Answers(m) :
        /\ log' = IF a = "failed" THEN log ELSE Publish("sandboxFailed", Sub(m))
        /\ Charge(m, a)
  BY DEF PublishSandboxFailed
<1>2. /\ pc[m] = "publishFailed" /\ Goto(m, "commit")
      /\ moves' = moves /\ sandboxes' = sandboxes
  BY DEF PublishSandboxFailed
<1>3. troubles' \in 0..MaxTroubles /\ troubles <= troubles' /\ (a # "ok" => troubles' > 0 \/ stopping[m])
  BY <1>1, Charged
<1>4. Sub(m) \in Submissions /\ r \in Records
  BY <1>2, RecordAtHand DEF DeployInv, GroupInv, Resting, Records
<1>5. PICK new \in {{}, {r}} : LogAdds(new) /\ (a = "ok" => new = {r})
  <2>1. CASE a = "failed"
    BY <1>1, <2>1, LogStays
  <2>2. CASE a # "failed"
    BY <1>1, <1>4, <2>2, LogAppended DEF Publish
  <2>. QED
    BY <2>1, <2>2
<1>6. "publishFailed" \in HandlerSteps
  BY DEF DeploySetting
<1>7. Moves(m, "publishFailed", "commit") /\ GroupInv'
  BY <1>2, <1>5, <1>6, MovesInGroup DEF DeployInv
<1>8. /\ next[m] \in 1..Len(log)
      /\ \A k \in Members : pc[k] \notin Resting => Sub(k)' = Sub(k)
      /\ \A k \in Members : pc'[k] = IF k = m THEN "commit" ELSE pc[k]
  BY <1>5, <1>6, <1>7, MovesFrame DEF DeployInv, GroupInv
<1>9. SandboxTyped' /\ Held'
  <2>1. \A x \in new : x.kind # "ready"
    OBVIOUS
  <2>2. "commit" \notin Deciding
    BY DEF Deciding
  <2>. QED
    BY <1>2, <1>5, <1>6, <1>7, <2>1, <2>2, MoveAside DEF DeployInv
<1>10. ASSUME troubles' = 0  PROVE  Calm'
  <2>1. Calm /\ a = "ok" /\ handled' = handled \cup {next[m]}
    BY <1>3, <1>7, <1>10 DEF DeployInv, Calm, Counted, StillCounted, Moves
  <2>2. SaidNext("sandboxFailed", Sub(m)) /\ log'[next[m]].sub = Sub(m)
    BY <1>5, <1>8, <2>1 DEF LogAdds, Sub
  <2>3. \A k \in Members : Holds(k) => Holds(k)' /\ Sub(k)' = Sub(k)
    BY <1>2, <1>8 DEF Holds, Resting
  <2>4. /\ \A k \in Members : pc[k] = "publishFailed" =>
             (pc'[k] = "publishFailed" /\ Sub(k)' = Sub(k)) \/ SaidNext("sandboxFailed", Sub(k))
        /\ \A k \in Members : pc[k] \in HandlerSteps =>
             (pc'[k] \in HandlerSteps /\ Sub(k)' = Sub(k)) \/ SaidNext("sandboxFailed", Sub(k))
    BY <1>2, <1>8, <2>2 DEF Resting, DeploySetting
  <2>5. handled \subseteq 1..Len(log) /\ \A k \in Members : ~stopping'[k]
    BY <1>7, <2>1 DEF Moves, Calm, DeployInv, GroupInv, GroupTyped
  <2>. QED
    BY <1>2, <1>5, <2>1, <2>2, <2>3, <2>4, <2>5, CalmKept
<1>. QED
  BY <1>2, <1>3, <1>5, <1>7, <1>9, <1>10 DEF DeployInv, Counted, StillCounted

(* Every step of handleRecord.                                              *)
LEMMA DeployStepKeeps ==
  ASSUME DeploySetting, Counted, log \in Seq(Records), DeployInv, NEW m \in Members, DeployStep(m)
  PROVE  DeployInv' /\ StillCounted /\ AddsOnly({"ready", "sandboxFailed"})
<1>1. Sub(m) \in Submissions
  BY RecordAtHand DEF DeployInv, GroupInv, Resting, DeployStep, CreateSandboxPod, WaitSeesReady,
     WaitFails, GetPod, CleanupSandboxPod, PublishSandboxReady, PublishSandboxFailed
<1>2. \A new \in SUBSET [kind : {"ready", "sandboxFailed"}, sub : Submissions] :
        LogAdds(new) => AddsOnly({"ready", "sandboxFailed"})
  BY DEF AddsOnly
<1>3. /\ LogAdds({}) => AddsOnly({"ready", "sandboxFailed"})
      /\ LogAdds({[kind |-> "ready", sub |-> Sub(m)]}) => AddsOnly({"ready", "sandboxFailed"})
      /\ LogAdds({[kind |-> "sandboxFailed", sub |-> Sub(m)]}) => AddsOnly({"ready", "sandboxFailed"})
  BY <1>1, <1>2
<1>. QED
  BY <1>3, CreateKeeps, WaitKeeps, CleanupKeeps, PublishReadyKeeps, PublishFailedKeeps DEF DeployStep

(* A step of the loop around it, and what happens to the process.           *)
LEMMA DeployLoopKeeps ==
  ASSUME DeploySetting, Counted, log \in Seq(Records), DeployInv, NEW m \in Members,
         LoopStep(m) \/ Disturbance(m) \/ Assign(m), sandboxes' = sandboxes
  PROVE  DeployInv' /\ StillCounted /\ log' = log
<1>1. /\ log' = log
      /\ troubles' \in 0..MaxTroubles /\ troubles <= troubles' /\ moves' \in 0..MaxMoves
      /\ \A k \in Members \ {m} :
           pc'[k] = pc[k] /\ next'[k] = next[k] /\ stopping'[k] = stopping[k]
      /\ pc'[m] \in HandlerSteps => pc'[m] = pc[m] /\ next'[m] = next[m]
      /\ pc[m] \in HandlerSteps =>
           \/ pc'[m] = pc[m] /\ next'[m] = next[m]
           \/ pc'[m] = "down" /\ troubles' > 0
      /\ stopping'[m] => stopping[m] \/ troubles' > 0
      /\ \/ handled' = handled
         \/ handled' = handled \cup {next[m]} /\ log[next[m]].kind # Wants
  BY LoopFrame DEF DeploySetting, DeployInv, GroupInv
<1>2. LogAdds({})
  BY <1>1, LogStays
<1>3. GroupInv'
  BY <1>2, GroupKept DEF DeployInv, DeploySetting, LogAdds
<1>4. \A kind, s : SaidNext(kind, s) <=> Said(kind, s)
  BY <1>2 DEF LogAdds
<1>5. \A k \in Members : pc[k] \in HandlerSteps /\ next'[k] = next[k] => Sub(k)' = Sub(k)
  BY <1>2, RecordStays DEF DeployInv, GroupInv, Resting, DeploySetting
<1>6. \A k \in Members : Holds(k)' => Holds(k) /\ Sub(k)' = Sub(k)
  BY <1>1, <1>5 DEF Holds, DeploySetting
<1>7. SandboxTyped' /\ Held'
  BY <1>4, <1>6, HeldKept DEF DeployInv, Held, SandboxTyped
<1>8. ASSUME troubles' = 0  PROVE  Calm'
  <2>1. Calm
    BY <1>1, <1>8 DEF DeployInv, Counted, StillCounted
  <2>2. \A k \in Members : pc[k] \in HandlerSteps => pc'[k] = pc[k] /\ Sub(k)' = Sub(k)
    BY <1>1, <1>5, <1>8
  <2>3. \A k \in Members : Holds(k) => Holds(k)' /\ Sub(k)' = Sub(k)
    BY <2>2 DEF Holds, DeploySetting
  <2>4. \A k \in Members : pc[k] = "publishFailed" => pc'[k] = "publishFailed" /\ Sub(k)' = Sub(k)
    BY <2>2 DEF DeploySetting
  <2>5. handled \subseteq 1..Len(log) /\ \A k \in Members : ~stopping'[k]
    <3>1. ~(troubles' > 0)
      BY <1>8
    <3>2. \A k \in Members : ~stopping'[k]
      BY <1>1, <2>1, <3>1 DEF Calm
    <3>. QED
      BY <3>2 DEF DeployInv, GroupInv, GroupTyped
  <2>6. \A o \in handled' \ handled : log'[o].kind # Wants
    BY <1>1
  <2>. QED
    BY <1>2, <2>1, <2>2, <2>3, <2>4, <2>5, <2>6, CalmKept
<1>. QED
  BY <1>1, <1>3, <1>7, <1>8 DEF DeployInv, Counted, StillCounted

\* A step that is not this service's: of the cluster, which never unmakes a live sandbox,
\* or of the other services, which add records of their own kinds.
LEMMA DeployUndisturbed ==
  ASSUME DeploySetting, Counted, StillCounted, DeployInv, UNCHANGED group,
         AddsOnly({"created", "complete", "buildFailed"}), SandboxTyped',
         \A s \in Submissions : sandboxes'[s] \in Live <=> sandboxes[s] \in Live,
         \A s \in Submissions : sandboxes'[s] = "terminating" => sandboxes[s] = "terminating"
  PROVE  DeployInv'
<1>1. PICK new \in SUBSET [kind : {"created", "complete", "buildFailed"}, sub : Submissions] :
        LogAdds(new)
  BY DEF AddsOnly
<1>2. GroupInv'
  BY <1>1, GroupUndisturbed DEF DeployInv, LogAdds
<1>3. /\ \A k \in Members : pc'[k] = pc[k] /\ stopping'[k] = stopping[k]
      /\ handled' = handled /\ handled \subseteq 1..Len(log)
  BY DEF group, DeployInv, GroupInv, GroupTyped
<1>4. \A k \in Members : pc[k] \notin Resting => Sub(k)' = Sub(k) /\ Sub(k) \in Submissions
  <2>1. next' = next /\ log \in Seq(Records)
    BY <1>1 DEF group, LogAdds
  <2>. QED
    BY <1>1, <2>1, RecordStays, RecordAtHand DEF DeployInv, GroupInv
<1>5. \A s : SaidNext("ready", s) <=> Said("ready", s)
  <2>1. \A s : [kind |-> "ready", sub |-> s] \notin new
    OBVIOUS
  <2>. QED
    BY <1>1, <2>1 DEF LogAdds
<1>6. \A k \in Members : Holds(k) <=> Holds(k)'
  BY <1>3 DEF Holds
<1>7. \A k \in Members : Holds(k) => pc[k] \notin Resting
  BY DEF Holds, Resting
<1>8. Held'
  <2>1. \A k \in Members : Holds(k)' =>
          Holds(k) /\ Sub(k)' = Sub(k) /\ sandboxes'[Sub(k)] \in Live /\ ~SaidNext("ready", Sub(k))
    BY <1>4, <1>5, <1>6, <1>7 DEF DeployInv, Held
  <2>2. \A s \in Submissions : SaidNext("ready", s) => sandboxes'[s] \in Live
    BY <1>5 DEF DeployInv, Held
  <2>. QED
    BY <2>1, <2>2, HeldKept DEF DeployInv
<1>9. ASSUME troubles' = 0  PROVE  Calm'
  <2>1. Calm
    BY <1>9 DEF DeployInv, Counted, StillCounted
  <2>2. /\ \A k \in Members : Holds(k) => Holds(k)' /\ Sub(k)' = Sub(k)
        /\ \A k \in Members : pc[k] = "publishFailed" => pc'[k] = "publishFailed" /\ Sub(k)' = Sub(k)
        /\ \A k \in Members : pc[k] \in HandlerSteps => pc'[k] \in HandlerSteps /\ Sub(k)' = Sub(k)
    BY <1>3, <1>4, <1>6, <1>7 DEF Resting, DeploySetting
  <2>3. \A k \in Members : ~stopping'[k]
    BY <1>3, <2>1 DEF Calm
  <2>. QED
    BY <1>1, <1>3, <2>1, <2>2, <2>3, CalmKept
<1>. QED
  BY <1>2, <1>8, <1>9 DEF DeployInv

\* The cluster moves a pod through its life; only one that is being deleted goes.
LEMMA SandboxClusterKeeps ==
  ASSUME DeploySetting, Counted, log \in Seq(Records), DeployInv, NEW s \in Submissions,
         SandboxGone(s) \/ \E phase \in {"ready", "dead"} : SandboxTurns(s, phase)
  PROVE  DeployInv' /\ StillCounted /\ log' = log
<1>1. log' = log /\ troubles' = troubles /\ moves' = moves /\ UNCHANGED group
  BY DEF SandboxGone, SandboxTurns
<1>2. AddsOnly({"created", "complete", "buildFailed"})
  BY <1>1, AddsNothing
<1>3. StillCounted
  BY <1>1 DEF Counted, StillCounted
<1>. DEFINE Harmless ==
       /\ SandboxTyped'
       /\ \A x \in Submissions : sandboxes'[x] \in Live <=> sandboxes[x] \in Live
       /\ \A x \in Submissions : sandboxes'[x] = "terminating" => sandboxes[x] = "terminating"
<1>4. Harmless
  <2>1. CASE SandboxGone(s)
    BY <2>1 DEF SandboxGone, DeployInv, SandboxTyped, Live
  <2>2. ASSUME NEW phase \in {"ready", "dead"}, SandboxTurns(s, phase)
        PROVE  Harmless
    BY <2>2 DEF SandboxTurns, DeployInv, SandboxTyped, Live
  <2>. QED
    BY <2>1, <2>2
<1>. QED
  BY <1>1, <1>2, <1>3, <1>4, DeployUndisturbed
-----------------------------------------------------------------------------
(* What follows for the pipeline's properties.                              *)

\* What the service promises follows from the invariant.
LEMMA DeployConclusions ==
  ASSUME DeploySetting, log \in Seq(Records), DeployInv
  PROVE  /\ \A s \in Submissions : Said("ready", s) => sandboxes[s] \in Live
         /\ troubles = 0 => \A s \in Submissions : sandboxes[s] \in Live =>
              \/ Said("ready", s)
              \/ \E m \in Members : pc[m] \notin {"down", "poll", "commit"} /\ Sub(m) = s
         /\ troubles = 0 => \A o \in 1..(committed - 1) : log[o].kind = Wants =>
              \/ Said("ready", log[o].sub) \/ Said("sandboxFailed", log[o].sub)
              \/ \E m \in Members : pc[m] \notin {"down", "poll", "commit"} /\ Sub(m) = log[o].sub
<1>1. 1..(committed - 1) \subseteq handled
  BY CommittedIsHandled DEF DeployInv
<1>. QED
  BY <1>1 DEF DeployInv, Held, Calm, Holds, DeploySetting
=============================================================================
