--------------------------- MODULE LifecycleConsumer ---------------------------
(***************************************************************************)
(* A consumer group of submission.lifecycle, the loop build-service and     *)
(* sandbox-orchestrator share: a member polls a batch, hands its records    *)
(* one by one to handleRecord, commits each when it returns, and ends the   *)
(* process on the first error.  The services add their handleRecord.        *)
(*                                                                         *)
(* One partition of the topic is modelled.  All records of a submission are *)
(* in one, since they are keyed by its id.  Several replicas are members of *)
(* a group and the partition may move between them at any time: the client  *)
(* does not hold a rebalance back while a batch is being handled.           *)
(***************************************************************************)
EXTENDS Naturals, Sequences

CONSTANTS
  Members, NoMember,
  Wants,         \* the kind of record this group acts on
  MaxTroubles,   \* bound: failed calls, crashes and SIGTERMs
  Sigterms,      \* bound: are SIGTERMs among them
  MaxMoves       \* bound: moves of the partition between live members

VARIABLES
  log,           \* the partition: [kind, sub] records
  troubles, moves,
  \* the broker's view of the group
  committed,     \* next offset, as committed
  assigned,      \* the member the partition belongs to
  \* the members
  position,      \* next offset the assigned member will fetch
  pc, stopping,  \* where a member is, and has it had a SIGTERM
  next, last,    \* the rest of its batch
  handled        \* history: offsets for which handleRecord returned nil

group == <<committed, assigned, position, pc, stopping, next, last, handled>>

InitGroup ==
  /\ committed = 1 /\ assigned = NoMember /\ position = 1
  /\ pc = [m \in Members |-> "poll"] /\ stopping = [m \in Members |-> FALSE]
  /\ next = [m \in Members |-> 0] /\ last = [m \in Members |-> 0]
  /\ handled = {}

Sub(m) == log[next[m]].sub
Publish(kind, s) == Append(log, [kind |-> kind, sub |-> s])

-----------------------------------------------------------------------------
(* Calls.  Under the root context a call succeeds, fails, or takes effect   *)
(* and loses its answer; after a SIGTERM it no longer succeeds.  Clean-up   *)
(* runs under a context of its own.                                         *)
Answers(m) ==
  (IF stopping[m] THEN {"failed", "lost"} ELSE {"ok"}) \cup
  (IF troubles < MaxTroubles THEN {"failed", "lost"} ELSE {})
Charge(m, a) == troubles' = IF a # "ok" /\ ~stopping[m] THEN troubles + 1 ELSE troubles

BackgroundAnswers == {"ok"} \cup (IF troubles < MaxTroubles THEN {"failed"} ELSE {})
ChargeBackground(a) == troubles' = IF a = "ok" THEN troubles ELSE troubles + 1

Goto(m, step) ==
  /\ pc' = [pc EXCEPT ![m] = step]
  /\ handled' = IF step = "commit" THEN handled \cup {next[m]} ELSE handled
  /\ UNCHANGED <<committed, assigned, position, stopping, next, last>>

(* The end of a process: it leaves the group.                               *)
Ends(m) ==
  /\ pc' = [pc EXCEPT ![m] = "down"]
  /\ stopping' = [stopping EXCEPT ![m] = FALSE]
  /\ next' = [next EXCEPT ![m] = 0] /\ last' = [last EXCEPT ![m] = 0]
  /\ assigned' = IF assigned = m THEN NoMember ELSE assigned
  /\ UNCHANGED <<position, handled>>

-----------------------------------------------------------------------------
(* Consumer.Run.  PollFetches returns some of what there is.                *)
Poll(m) ==
  /\ pc[m] = "poll" /\ assigned = m /\ ~stopping[m]
  /\ \E n \in position..Len(log) :
       /\ next' = [next EXCEPT ![m] = position]
       /\ last' = [last EXCEPT ![m] = n]
       /\ position' = n + 1
  /\ pc' = [pc EXCEPT ![m] = "handle"]
  /\ UNCHANGED <<log, troubles, moves, committed, assigned, stopping, handled>>

(* handleRecord of another kind of record does nothing, but it is committed *)
(* like every other.                                                        *)
SkipRecord(m) ==
  /\ pc[m] = "handle" /\ log[next[m]].kind # Wants
  /\ Goto(m, "commit")
  /\ UNCHANGED <<log, troubles, moves>>

\* The offset committed with a record is the next one, not the batch's end.
NextOffsetOfBatch(m) == last[m] + 1
NextOffset(m) == next[m] + 1

\* The range over the batch ends with its last record.
BatchDoneLate(m) == next[m] > last[m]
BatchDone(m) == next[m] = last[m]

CommitRecord(m) ==
  /\ pc[m] = "commit"
  /\ \E a \in Answers(m) :
       /\ committed' = IF a = "failed" THEN committed ELSE NextOffset(m)
       /\ IF a # "ok" THEN Ends(m)
          ELSE /\ pc' = [pc EXCEPT ![m] = IF BatchDone(m) THEN "poll" ELSE "handle"]
               /\ next' = [next EXCEPT ![m] = IF BatchDone(m) THEN 0 ELSE @ + 1]
               /\ last' = [last EXCEPT ![m] = IF BatchDone(m) THEN 0 ELSE @]
               /\ UNCHANGED <<assigned, position, stopping, handled>>
       /\ Charge(m, a)
  /\ UNCHANGED <<log, moves>>

(* SIGTERM cancels the root context; the loop looks at it after a poll.     *)
Stop(m) ==
  /\ pc[m] # "down" /\ ~stopping[m] /\ Sigterms /\ troubles < MaxTroubles
  /\ stopping' = [stopping EXCEPT ![m] = TRUE]
  /\ troubles' = troubles + 1
  /\ UNCHANGED <<log, moves, committed, assigned, position, pc, next, last, handled>>

StopAtPoll(m) ==
  /\ pc[m] = "poll" /\ stopping[m]
  /\ Ends(m)
  /\ UNCHANGED <<log, troubles, moves, committed>>

Crash(m) ==
  /\ pc[m] # "down" /\ troubles < MaxTroubles
  /\ Ends(m)
  /\ troubles' = troubles + 1
  /\ UNCHANGED <<log, moves, committed>>

Start(m) ==
  /\ pc[m] = "down"
  /\ Goto(m, "poll")
  /\ UNCHANGED <<log, troubles, moves>>

(* The coordinator gives the partition to a live member, which fetches from *)
(* the committed offset.  The member that loses it goes on with its batch.  *)
Assign(m) ==
  /\ pc[m] # "down" /\ assigned # m
  /\ moves' = IF assigned = NoMember THEN moves ELSE moves + 1
  /\ moves' <= MaxMoves
  /\ assigned' = m /\ position' = committed
  /\ UNCHANGED <<log, troubles, committed, pc, stopping, next, last, handled>>

LoopStep(m) == Poll(m) \/ SkipRecord(m) \/ CommitRecord(m) \/ StopAtPoll(m) \/ Start(m)
Disturbance(m) == Stop(m) \/ Crash(m)
=============================================================================
