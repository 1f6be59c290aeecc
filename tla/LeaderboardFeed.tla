---------------------------- MODULE LeaderboardFeed ----------------------------
(***************************************************************************)
(* From bot.metrics to the browsers: TelemetryIngester and LeaderboardHub   *)
(* composed over Redis, which is all they share: the leaderboard, and a     *)
(* publish/subscribe channel that keeps nothing for those who are away.     *)
(***************************************************************************)
EXTENDS Naturals, Sequences, SequencesExt

CONSTANTS
  Submissions, Malformed, Members, NoMember, Clients,
  MaxEvents, MaxAttempts, MaxTroubles, MaxUpsets, CanCrash,
  RegCap, MsgCap, SendCap

ASSUME FeedAssumption ==
  /\ Malformed \notin Submissions /\ NoMember \notin Members
  /\ MaxEvents \in Nat /\ MaxTroubles \in Nat /\ MaxUpsets \in Nat /\ CanCrash \in BOOLEAN
  /\ MaxAttempts \in Nat \ {0}
  /\ RegCap \in Nat \ {0} /\ MsgCap \in Nat \ {0} /\ SendCap \in Nat \ {0}

VARIABLES
  log, board, pubsub, troubles,
  \* TelemetryIngester
  committed, assigned, position, proc, pc, next, last, buffer, flusher, batch, attempt,
  rows, scores, late, upsets, ingested, lossy, reordered,
  \* LeaderboardHub
  msgs, regQ, unregQ, clients, send, closed, handler, snapshot, writer, gone, view, excused

redis == <<board, pubsub>>
ingester == <<committed, assigned, position, proc, pc, next, last, buffer, flusher, batch, attempt,
              rows, scores, late, upsets, ingested, lossy, reordered>>
hub == <<msgs, regQ, unregQ, clients, send, closed, handler, snapshot, writer, gone, view, excused>>
vars == <<log, redis, troubles, ingester, hub>>

Ingester == INSTANCE TelemetryIngester
Hub == INSTANCE LeaderboardHub

Init == Ingester!InitIngester /\ Hub!InitHub

EmitMetrics(s)  == Ingester!EmitMetrics(s) /\ UNCHANGED hub
ConsumerStep(m) == Ingester!ConsumerStep(m) /\ UNCHANGED hub
FlusherStep(m)  == Ingester!FlusherStep(m) /\ UNCHANGED hub
Disturbance(m)  == Ingester!Disturbance(m) /\ UNCHANGED hub
Assign(m)       == Ingester!Assign(m) /\ UNCHANGED hub
LateCommit      == Ingester!LateCommit /\ UNCHANGED hub

Receive         == Hub!Receive /\ UNCHANGED ingester
HubStep         == Hub!HubStep /\ UNCHANGED ingester
HandlerStep(c)  == Hub!HandlerStep(c) /\ UNCHANGED ingester
Visitor(c)      == (Hub!Connect(c) \/ Hub!GoAway(c)) /\ UNCHANGED ingester

Next ==
  \/ \E s \in Submissions \cup {Malformed} : EmitMetrics(s)
  \/ \E m \in Members : ConsumerStep(m) \/ FlusherStep(m) \/ Disturbance(m) \/ Assign(m)
  \/ LateCommit
  \/ Receive \/ HubStep
  \/ \E c \in Clients : HandlerStep(c) \/ Visitor(c)

Spec == Init /\ [][Next]_vars

(* Goroutines are scheduled and calls end, by an answer or their timeout;   *)
(* the Deployment restarts a process that has ended, and a partition that   *)
(* belongs to no one is given to someone.  Nothing is assumed of records,   *)
(* visitors, troubles, SIGTERMs, rebalances or late commits.                *)
FirstAssignment == Ingester!FirstAssignment /\ UNCHANGED hub

Fairness ==
  /\ \A m \in Members : WF_vars(ConsumerStep(m)) /\ WF_vars(FlusherStep(m))
  /\ WF_vars(FirstAssignment)
  /\ WF_vars(Receive) /\ WF_vars(HubStep)
  /\ \A c \in Clients : WF_vars(HandlerStep(c))

FairSpec == Spec /\ Fairness

-----------------------------------------------------------------------------
(* Properties *)

Events == 1..MaxEvents
Entries == Events \cup {Hub!Stripped}
WellFormed(e) == e <= Len(log) /\ log[e] # Malformed
Maps(T) == UNION {[S -> T] : S \in SUBSET Submissions}

\* Every variable keeps its type and no channel outgrows its capacity.
TypeOK ==
  /\ log \in Seq(Submissions \cup {Malformed}) /\ Len(log) <= MaxEvents
  /\ committed \in 1..(Len(log) + 1) /\ position \in committed..(Len(log) + 1)
  /\ assigned \in Members \cup {NoMember}
  /\ proc \in [Members -> {"running", "stopping", "down"}]
  /\ pc \in [Members -> {"poll", "handle", "score", "commit", "ended"}]
  /\ flusher \in [Members -> {"wait", "write"}] /\ attempt \in [Members -> 0..MaxAttempts]
  /\ \A m \in Members :
       /\ flusher[m] = "write" <=> batch[m] # << >>
       /\ ToSet(buffer[m]) \cup ToSet(batch[m]) \subseteq ingested
  /\ rows \subseteq ingested /\ lossy \subseteq ingested
  /\ scores \in Maps(Events) /\ board \in Maps(Events)
  /\ troubles \in 0..MaxTroubles /\ upsets \in 0..MaxUpsets
  /\ Len(msgs) <= MsgCap /\ Len(regQ) <= RegCap /\ Len(unregQ) <= RegCap
  /\ \A c \in Clients : Len(send[c]) <= SendCap /\ view[c] \in Maps(Entries)
  /\ clients \subseteq Clients /\ closed \subseteq Clients

\* Each well-formed record reaches the buffer, whatever is malformed before it,
\* fails or crashes: the group's offset never passes a record Handle has not seen
\* (telemetry-ingester/consumer.go:32-75).
EveryEventIngested ==
  []<>(\A e \in Events : WellFormed(e) => e \in ingested)

\* What a process has buffered it stores, also when the partition is taken from it,
\* unless it is ended with the event in its hands, a write of the event hangs for a
\* whole flush or all the attempts of its flush fail (ingester.go:153-184).
StoredUnlessLossy ==
  []<>(ingested \subseteq rows \cup lossy)

\* The score stored for a submission is never that of an earlier run than one that is
\* stored, with these exceptions: an event was handled again after a later one, two
\* processes held events of the submission at a time, or a write of one was given up
\* without an answer (ingester.go:139, 159-181, 197-211, consumer.go:71).
LatestScoreStored ==
  \A e \in rows :
    log[e] \in DOMAIN scores /\ (scores[log[e]] >= e \/ log[e] \in reordered)

\* The hub never sends on a closed channel and neither does a handler: a client's
\* channel is closed in the step that forgets it, whichever of its registration and
\* its departure the hub sees first (leaderboard-ws/hub.go:48-59, 63-65, 126).
HubNeverPanics ==
  \A c \in closed : c \notin clients /\ c \notin ToSet(unregQ) /\ handler[c] = "left"

\* The hub always catches up with what Redis publishes: no client, slow or gone,
\* holds it up (hub.go:61-70, 75-82).
HubKeepsUp == []<>(msgs = << >>)

Quiet(c) ==
  pubsub = << >> /\ msgs = << >> /\ send[c] = << >> /\ regQ = << >> /\ handler[c] = "serving"

\* A browser shows the board as it is once nothing is under way to it, unless one of
\* these happened to it: a lost or dropped publication, no snapshot, one whose details
\* could not all be read, an update before it was registered, or a snapshot older than
\* an update queued before it (hub.go:61-70, 78-80, 115-129, 194, 208-217).
StalenessExplained ==
  \A c \in Clients \ gone : Quiet(c) => view[c] = board \/ c \in excused

\* docs/telemetry-ingester.md:148, "Final flush on shutdown via doneCh signal
\* (flushLoop drains and closes)": what is in the buffer of a process that has been
\* told to stop is stored.
FinalFlushStores ==
  \A e \in Events, m \in Members :
    proc[m] = "stopping" /\ e \in ToSet(buffer[m]) ~> e \in rows
=============================================================================
