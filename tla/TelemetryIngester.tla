--------------------------- MODULE TelemetryIngester ---------------------------
(***************************************************************************)
(* telemetry-ingester: the consumer of bot.metrics hands each record to     *)
(* Handle, which appends it to a buffer and then updates the leaderboard in *)
(* Redis; flushLoop writes the buffer to TimescaleDB every half second.     *)
(* Offsets are committed after a batch is handled, not after it is stored.  *)
(*                                                                         *)
(* One partition and the replicas, which are the members of the group: it   *)
(* may move between them at any time, and the one that loses it goes on     *)
(* with its batch and its buffer.  An event is its offset; the score        *)
(* computed from it is left out.  The Lua script of Redis is one step, so   *)
(* its three keys are one `board`, and `pubsub` what it publishes.          *)
(***************************************************************************)
EXTENDS Naturals, Sequences, SequencesExt

CONSTANTS
  Submissions, Malformed,   \* a record that cannot be decoded
  Members, NoMember,        \* the replicas
  MaxEvents,                \* bound: records of the topic
  MaxAttempts,              \* writes per flush (3 in the code)
  MaxTroubles,              \* bound: failed or unanswered calls
  MaxUpsets,                \* bound: crashes, SIGTERMs, moves between live members
  CanCrash                  \* FALSE leaves SIGTERMs only

VARIABLES
  log,             \* the partition: the submission of each record, or Malformed
  committed,       \* the group's next offset
  assigned,        \* the member the partition belongs to
  position,        \* next offset that member will fetch
  proc,            \* member -> "running", "stopping" (its root context has ended), "down"
  pc,              \* its Consumer.Run: "poll", "handle", "score", "commit", "ended"
  next, last,      \* the rest of its batch of records
  buffer,          \* its Ingester.eventBuffer
  flusher,         \* its flushLoop: "wait", "write"
  batch, attempt,  \* what that has taken, and the writes it has begun
  rows,            \* TimescaleDB: events in telemetry_events
  scores,          \* TimescaleDB: submission -> its event in submission_scores
  late,            \* TimescaleDB: writes without an answer that it may still commit
  board,           \* Redis: submission -> its event in the ranking and the details
  pubsub,          \* Redis: events on their way to the subscriber
  troubles, upsets,
  ingested,        \* history: events Handle has put into a buffer
  lossy,           \* history: events given up by a flush or held by a process that ended
  reordered        \* history: submissions whose events need not be written in their order

group    == <<committed, assigned, position>>
consumer == <<proc, pc, next, last>>
flushing == <<buffer, flusher, batch, attempt>>
stores   == <<rows, scores, late>>
redis    == <<board, pubsub>>
bounds   == <<troubles, upsets>>
history  == <<ingested, lossy, reordered>>
ingester == <<log, group, consumer, flushing, stores, bounds, history>>

Empty == << >>
Always(x) == [m \in Members |-> x]

InitIngester ==
  /\ log = << >> /\ committed = 1 /\ assigned = NoMember /\ position = 1
  /\ proc = Always("running") /\ pc = Always("poll") /\ next = Always(0) /\ last = Always(0)
  /\ buffer = Always(<< >>) /\ flusher = Always("wait") /\ batch = Always(<< >>)
  /\ attempt = Always(0)
  /\ rows = {} /\ scores = Empty /\ late = {} /\ board = Empty /\ pubsub = << >>
  /\ troubles = 0 /\ upsets = 0
  /\ ingested = {} /\ lossy = {} /\ reordered = {}

(* Calls under the root context, or one derived from it: once that has      *)
(* ended they fail before they are made.                                    *)
Answers(m) ==
  IF proc[m] = "stopping" THEN {"failed"}
  ELSE {"ok"} \cup (IF troubles < MaxTroubles THEN {"failed", "lost"} ELSE {})
Charge(m, a) == troubles' = IF a # "ok" /\ proc[m] = "running" THEN troubles + 1 ELSE troubles

Held(m) == ToSet(buffer[m]) \cup ToSet(batch[m])
Of(events) == {log[e] : e \in events}

\* A write given up without an answer: it may still be committed, after later ones.
GivenUp(m) ==
  /\ late' = late \cup {[batch |-> batch[m], serial |-> troubles + upsets]}
  /\ reordered' = reordered \cup Of(ToSet(batch[m]))

-----------------------------------------------------------------------------
(* Consumer.Run and Handle.                                                 *)
EmitMetrics(s) ==
  /\ Len(log) < MaxEvents
  /\ log' = Append(log, s)
  /\ UNCHANGED <<group, consumer, flushing, stores, redis, bounds, history>>

PollFetches(m) ==
  /\ proc[m] = "running" /\ pc[m] = "poll" /\ assigned = m
  /\ \E n \in position..Len(log) :
       /\ next' = [next EXCEPT ![m] = position] /\ last' = [last EXCEPT ![m] = n]
       /\ position' = n + 1
  /\ pc' = [pc EXCEPT ![m] = "handle"]
  /\ UNCHANGED <<log, committed, assigned, proc, flushing, stores, redis, bounds, history>>

BatchEnd(m) ==
  /\ pc' = [pc EXCEPT ![m] = IF next[m] = last[m] THEN "commit" ELSE "handle"]
  /\ next' = [next EXCEPT ![m] = IF @ = last[m] THEN 0 ELSE @ + 1]

SkipMalformed(m) ==
  /\ pc[m] = "handle" /\ log[next[m]] = Malformed
  /\ BatchEnd(m)
  /\ UNCHANGED <<log, group, proc, last, flushing, stores, redis, bounds, history>>

\* An event handled again after a later one of its submission, or while another process
\* has one that is not written yet.
OutOfOrder(m, e) ==
  \/ \E f \in ingested : f > e /\ log[f] = log[e]
  \/ \E o \in Members \ {m} : log[e] \in Of(Held(o))

HandleEvent(m) ==
  /\ pc[m] = "handle" /\ log[next[m]] # Malformed
  /\ buffer' = [buffer EXCEPT ![m] = Append(@, next[m])]
  /\ pc' = [pc EXCEPT ![m] = "score"]
  /\ ingested' = ingested \cup {next[m]}
  /\ lossy' = IF proc[m] = "stopping" THEN lossy \cup {next[m]} ELSE lossy
  /\ reordered' = IF OutOfOrder(m, next[m]) THEN reordered \cup {log[next[m]]} ELSE reordered
  /\ UNCHANGED <<log, group, proc, next, last, flusher, batch, attempt, stores, redis, bounds>>

Put(f, s, e) == [t \in DOMAIN f \cup {s} |-> IF t = s THEN e ELSE f[t]]

(* A failure is logged and the event forgotten, as far as Redis goes.       *)
UpdateLeaderboard(m) ==
  /\ pc[m] = "score"
  /\ \E a \in Answers(m) :
       /\ IF a = "failed" THEN UNCHANGED redis
          ELSE board' = Put(board, log[next[m]], next[m]) /\ pubsub' = Append(pubsub, next[m])
       /\ Charge(m, a)
  /\ BatchEnd(m)
  /\ UNCHANGED <<log, group, proc, last, flushing, stores, upsets, history>>

(* CommitUncommittedOffsets: all that was fetched, unless the partition has *)
(* gone to another member; an error is only logged.                         *)
CommitOffsets(m) ==
  /\ pc[m] = "commit"
  /\ \E a \in Answers(m) :
       /\ committed' = IF a = "failed" \/ assigned # m THEN committed ELSE position
       /\ Charge(m, a)
  /\ pc' = [pc EXCEPT ![m] = "poll"]
  /\ UNCHANGED <<log, assigned, position, proc, next, last, flushing, stores, redis, upsets, history>>

-----------------------------------------------------------------------------
(* flushLoop.                                                               *)

TakeBuffer(m) ==
  /\ flusher[m] = "wait" /\ proc[m] # "down" /\ buffer[m] # << >>
  /\ batch' = [batch EXCEPT ![m] = buffer[m]] /\ attempt' = [attempt EXCEPT ![m] = 1]
  /\ flusher' = [flusher EXCEPT ![m] = "write"]
  /\ buffer' = [buffer EXCEPT ![m] = << >>]
  /\ UNCHANGED <<log, group, consumer, stores, redis, bounds, history>>

\* One upsert per event, in their order: of a submission's events the last one stays.
UpsertedOnce(f, b) ==
  LET of(s) == {n \in DOMAIN b : log[b[n]] = s}
  IN [s \in DOMAIN f \cup Of(ToSet(b)) |-> IF s \in DOMAIN f THEN f[s] ELSE b[Min(of(s))]]
Upserted(f, b) ==
  LET of(s) == {n \in DOMAIN b : log[b[n]] = s}
  IN [s \in DOMAIN f \cup Of(ToSet(b)) |-> IF of(s) = {} THEN f[s] ELSE b[Max(of(s))]]

Store(b) == rows' = rows \cup ToSet(b) /\ scores' = Upserted(scores, b)

EndFlush(m) ==
  /\ flusher' = [flusher EXCEPT ![m] = "wait"] /\ batch' = [batch EXCEPT ![m] = << >>]
  /\ attempt' = [attempt EXCEPT ![m] = 0]

\* A failed batch is tried again by the same flush.
MoreAttemptsNone(m) == FALSE
MoreAttempts(m) == attempt[m] < MaxAttempts /\ proc[m] = "running"

(* writeBatch: one implicit transaction, all of it or nothing.  A write     *)
(* that ends without an answer may have been committed or may be yet.  What *)
(* cannot be written is dropped.                                            *)
WriteBatch(m) ==
  /\ flusher[m] = "write"
  /\ \E a \in Answers(m) :
       /\ CASE a = "ok"     -> Store(batch[m]) /\ UNCHANGED <<late, reordered>>
            [] a = "failed" -> UNCHANGED <<stores, reordered>>
            [] a = "lost"   -> GivenUp(m) /\ UNCHANGED <<rows, scores>>
       /\ IF a # "ok" /\ MoreAttempts(m)
            THEN attempt' = [attempt EXCEPT ![m] = @ + 1] /\ UNCHANGED <<flusher, batch>>
            ELSE EndFlush(m)
       /\ lossy' = IF a # "ok" /\ attempt[m] = MaxAttempts THEN lossy \cup ToSet(batch[m]) ELSE lossy
       /\ Charge(m, a)
  /\ UNCHANGED <<log, group, consumer, buffer, redis, upsets, ingested>>

(* The ten seconds of a flush are for all its writes: one that hangs uses   *)
(* them up.                                                                 *)
WriteHangs(m) ==
  /\ flusher[m] = "write" /\ proc[m] = "running" /\ troubles < MaxTroubles
  /\ EndFlush(m) /\ GivenUp(m)
  /\ troubles' = troubles + 1 /\ lossy' = lossy \cup ToSet(batch[m])
  /\ UNCHANGED <<log, group, consumer, buffer, rows, scores, redis, upsets, ingested>>

LateCommit ==
  /\ \E w \in late : Store(w.batch) /\ late' = late \ {w}
  /\ UNCHANGED <<log, group, consumer, flushing, redis, bounds, history>>

-----------------------------------------------------------------------------
(* SIGTERM: the root context, which every flush derives from, ends.  Run    *)
(* returns after its next poll, the client leaves the group, and Close      *)
(* makes flushLoop flush once more.                                         *)
GivenUpIfWriting(m) ==
  IF flusher[m] = "write" /\ proc[m] = "running" THEN GivenUp(m) ELSE UNCHANGED <<late, reordered>>

Stop(m) ==
  /\ proc[m] = "running" /\ upsets < MaxUpsets
  /\ proc' = [proc EXCEPT ![m] = "stopping"] /\ upsets' = upsets + 1
  /\ GivenUpIfWriting(m) /\ lossy' = lossy \cup Held(m)
  /\ UNCHANGED <<log, group, pc, next, last, flushing, rows, scores, redis, troubles, ingested>>

Released(m) == assigned' = IF assigned = m THEN NoMember ELSE assigned

RunReturns(m) ==
  /\ proc[m] = "stopping" /\ pc[m] = "poll"
  /\ pc' = [pc EXCEPT ![m] = "ended"] /\ Released(m)
  /\ UNCHANGED <<log, committed, position, proc, next, last, flushing, stores, redis, bounds,
                 history>>

Down(m) ==
  /\ proc' = [proc EXCEPT ![m] = "down"] /\ pc' = [pc EXCEPT ![m] = "poll"]
  /\ next' = [next EXCEPT ![m] = 0] /\ last' = [last EXCEPT ![m] = 0]
  /\ buffer' = [buffer EXCEPT ![m] = << >>]

CloseReturns(m) ==
  /\ proc[m] = "stopping" /\ pc[m] = "ended" /\ flusher[m] = "wait" /\ buffer[m] = << >>
  /\ Down(m)
  /\ UNCHANGED <<log, group, flusher, batch, attempt, stores, redis, bounds, history>>

Crash(m) ==
  /\ CanCrash /\ proc[m] # "down" /\ upsets < MaxUpsets
  /\ Down(m) /\ EndFlush(m) /\ Released(m) /\ upsets' = upsets + 1
  /\ GivenUpIfWriting(m) /\ lossy' = lossy \cup Held(m)
  /\ UNCHANGED <<log, committed, position, rows, scores, redis, troubles, ingested>>

(* A new process, once Redis and TimescaleDB answer.                        *)
Start(m) ==
  /\ proc[m] = "down"
  /\ proc' = [proc EXCEPT ![m] = "running"]
  /\ UNCHANGED <<log, group, pc, next, last, flushing, stores, redis, bounds, history>>

\* A member resumes at the offset its group has committed.
ResumeAtEnd == Len(log) + 1
ResumeAfter == committed + 1
ResumeAt == committed

(* The coordinator gives the partition to a member of the group.            *)
Assign(m) ==
  /\ proc[m] # "down" /\ pc[m] # "ended" /\ assigned # m
  /\ \/ assigned = NoMember /\ UNCHANGED upsets
     \/ assigned # NoMember /\ upsets < MaxUpsets /\ upsets' = upsets + 1
  /\ assigned' = m /\ position' = ResumeAt
  /\ UNCHANGED <<log, committed, consumer, flushing, stores, redis, troubles, history>>

ConsumerStep(m) ==
  \/ PollFetches(m) \/ SkipMalformed(m) \/ HandleEvent(m) \/ UpdateLeaderboard(m)
  \/ CommitOffsets(m) \/ RunReturns(m) \/ CloseReturns(m) \/ Start(m)
FlusherStep(m) == TakeBuffer(m) \/ WriteBatch(m)
Disturbance(m) == WriteHangs(m) \/ Stop(m) \/ Crash(m)
FirstAssignment == assigned = NoMember /\ \E m \in Members : Assign(m)
=============================================================================
