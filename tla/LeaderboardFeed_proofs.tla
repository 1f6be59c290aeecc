------------------------- MODULE LeaderboardFeed_proofs -------------------------
(***************************************************************************)
(* The safety properties of the leaderboard's feed, for any number of       *)
(* submissions, records, replicas, browsers and troubles and channels of    *)
(* any size.                                                                *)
(***************************************************************************)
EXTENDS LeaderboardFeed, WellFoundedInduction, TLAPS

\* The events of well-formed records, and the subject of one.
Readable == {e \in 1..Len(log) : log[e] # Malformed}

Sound(f) == \A s \in DOMAIN f : f[s] \in Readable /\ log[f[s]] = s

IngesterTyped ==
  /\ log \in Seq(Submissions \cup {Malformed}) /\ Len(log) <= MaxEvents
  /\ committed \in 1..(Len(log) + 1) /\ position \in committed..(Len(log) + 1)
  /\ assigned \in Members \cup {NoMember}
  /\ proc \in [Members -> {"running", "stopping", "down"}]
  /\ pc \in [Members -> {"poll", "handle", "score", "commit", "ended"}]
  /\ next \in [Members -> Nat] /\ last \in [Members -> Nat]
  /\ \A m \in Members :
       /\ next[m] = 0 <=> pc[m] \notin {"handle", "score"}
       /\ next[m] # 0 => next[m] <= last[m] /\ last[m] <= Len(log)
       /\ pc[m] = "score" => next[m] \in ingested
  /\ troubles \in 0..MaxTroubles /\ upsets \in 0..MaxUpsets
  /\ ingested \subseteq Readable /\ lossy \subseteq ingested

FlusherTyped ==
  /\ buffer \in [Members -> Seq(ingested)] /\ batch \in [Members -> Seq(ingested)]
  /\ rows \subseteq ingested
  /\ flusher \in [Members -> {"wait", "write"}] /\ attempt \in [Members -> 0..MaxAttempts]
  /\ \A m \in Members : flusher[m] = "write" <=> batch[m] # << >>
  /\ \A w \in late : w.batch \in Seq(ingested)
  /\ scores \in Maps(Readable)

RedisTyped ==
  /\ board \in Maps(Readable) /\ Sound(board)
  /\ pubsub \in Seq(Readable) /\ \A n \in 1..Len(pubsub) : log[pubsub[n]] \in DOMAIN board

\* What a client's channel may hold.
Entry == Readable \cup {Hub!Stripped}

Messages ==
  [type : {"update"}, event : Readable, board : {Hub!Empty}]
    \cup [type : {"snapshot"}, event : {0}, board : Maps(Entry)]

HubTyped ==
  /\ msgs \in Seq(Readable) /\ Len(msgs) <= MsgCap
  /\ \A n \in 1..Len(msgs) : log[msgs[n]] \in DOMAIN board
  /\ regQ \in Seq(Clients) /\ Len(regQ) <= RegCap
  /\ unregQ \in Seq(Clients) /\ Len(unregQ) <= RegCap
  /\ clients \subseteq Clients /\ closed \subseteq Clients /\ gone \subseteq Clients
  /\ excused \subseteq Clients
  /\ handler \in [Clients -> {"none", "rank", "details", "put", "serving", "leaving", "left"}]
  /\ writer \in [Clients -> {"none", "up", "gone"}]
  /\ send \in [Clients -> Seq(Messages)] /\ \A c \in Clients : Len(send[c]) <= SendCap
  /\ snapshot \in [Clients -> Maps(Entry)] /\ view \in [Clients -> Maps(Entry)]
  /\ \A c \in Clients : handler[c] \in {"details", "put"} => DOMAIN snapshot[c] \subseteq DOMAIN board

Typed == IngesterTyped /\ FlusherTyped /\ RedisTyped /\ HubTyped

\* What is committed has been ingested; what has been fetched since the partition was
\* assigned has, or is left of the batch of the member it is assigned to.
Ready(e) == e \in Readable => e \in ingested
Left(m, e) == next[m] # 0 /\ next[m] <= e /\ e <= last[m]

Accounted ==
  /\ \A e \in 1..(committed - 1) : Ready(e)
  /\ \A m \in Members : assigned = m =>
       \A e \in 1..(position - 1) : Ready(e) \/ Left(m, e)

-----------------------------------------------------------------------------
(* The ingester writes a submission's events in the order of the log, unless *)
(* the submission is among the reordered.                                    *)

Held(m) == ToSet(buffer[m]) \cup ToSet(batch[m])

\* d may be written before e.
InStep(d, e) == log[d] = log[e] /\ log[e] \notin reordered => d <= e

Rising(q) == \A i, j \in DOMAIN q : i < j => InStep(q[i], q[j])

Ordered ==
  /\ \A m \in Members : Rising(buffer[m]) /\ Rising(batch[m])
  /\ \A m \in Members : \A d \in ToSet(batch[m]), e \in ToSet(buffer[m]) : InStep(d, e)
  /\ \A m \in Members : \A d \in rows, e \in Held(m) : InStep(d, e)
  /\ \A m, o \in Members : m # o =>
       \A d \in Held(m), e \in Held(o) : log[d] = log[e] => log[e] \in reordered
  /\ \A w \in late : \A e \in ToSet(w.batch) : log[e] \in reordered
  /\ \A e \in rows : log[e] \in DOMAIN scores /\ (scores[log[e]] >= e \/ log[e] \in reordered)

-----------------------------------------------------------------------------
(* A client is registered once and unregistered once.                       *)

Once(q) == \A i, j \in DOMAIN q : q[i] = q[j] => i = j

Registered ==
  /\ Once(regQ) /\ Once(unregQ)
  /\ \A c \in ToSet(regQ) : handler[c] # "none" /\ c \notin clients
  /\ \A c \in clients : handler[c] # "none"
  /\ \A c \in ToSet(unregQ) : handler[c] = "left"
  /\ \A c \in closed : /\ handler[c] = "left"
                       /\ c \notin clients \cup ToSet(regQ) \cup ToSet(unregQ)
  /\ \A c \in Clients : handler[c] \in {"rank", "details", "put", "serving"} =>
       c \in clients \cup ToSet(regQ)
  /\ \A c \in Clients : handler[c] \in {"none", "rank", "details", "put"} =>
       writer[c] = "none" /\ \A n \in DOMAIN send[c] : send[c][n].type = "update"

-----------------------------------------------------------------------------
(* The way of an update from Redis to a page.                               *)

Concerned(q, s) == \E n \in DOMAIN q : log[q[n]] = s

\* The last event of a submission in a queue is the one on the board.
UpToDate(q, s) ==
  \A n \in DOMAIN q :
    log[q[n]] = s /\ (\A k \in DOMAIN q : k > n => log[q[k]] # s) => q[n] = board[s]

Fresh ==
  \A s \in Submissions :
    UpToDate(pubsub, s) /\ (Concerned(pubsub, s) \/ UpToDate(msgs, s))

\* An update is on its way to the hub's clients.
UnderWay(s) == Concerned(pubsub, s) \/ Concerned(msgs, s)

Agrees(v, s) == (s \in DOMAIN v <=> s \in DOMAIN board) /\ (s \in DOMAIN v => v[s] = board[s])

Concerns(m, s) == m.type = "snapshot" \/ log[m.event] = s
Says(m, s) ==
  IF m.type = "snapshot" THEN Agrees(m.board, s) ELSE s \in DOMAIN board /\ m.event = board[s]

\* A page agrees with the board, as far as a submission goes, once its channel is empty.
WillAgree(q, v, s) ==
  /\ \A n \in DOMAIN q :
       Concerns(q[n], s) /\ (\A k \in DOMAIN q : k > n => ~Concerns(q[k], s)) => Says(q[n], s)
  /\ (\A n \in DOMAIN q : ~Concerns(q[n], s)) => Agrees(v, s)

\* A snapshot that lacks something will be told, or has been overtaken.
Covered(c, s) ==
  \/ s \in DOMAIN snapshot[c] /\ (handler[c] = "put" => snapshot[c][s] = board[s])
  \/ UnderWay(s)
  \/ \E n \in DOMAIN send[c] : send[c][n].event = board[s]

Tracks(c) ==
  /\ handler[c] = "serving" => \A s \in Submissions : UnderWay(s) \/ WillAgree(send[c], view[c], s)
  /\ handler[c] \in {"details", "put"} => \A s \in DOMAIN board : Covered(c, s)

Followed == excused = Clients \/ (Fresh /\ \A c \in Clients \ excused : Tracks(c))

IInv ==
  /\ Typed /\ Accounted /\ Ordered
  /\ Registered /\ Followed
-----------------------------------------------------------------------------
(* Maps of submissions to events.                                           *)

\* A map is a function on some of the submissions.
LEMMA MapIs ==
  ASSUME NEW T, NEW f
  PROVE  f \in Maps(T) <=> DOMAIN f \subseteq Submissions /\ f \in [DOMAIN f -> T]
  BY DEF Maps

\* A map to fewer events is a map to more.
LEMMA MapsGrow ==
  ASSUME NEW T, NEW U, T \subseteq U, NEW f \in Maps(T)
  PROVE  f \in Maps(U)
<1>1. DOMAIN f \subseteq Submissions /\ f \in [DOMAIN f -> T]
  BY MapIs
<1>2. f \in [DOMAIN f -> U]
  BY <1>1
<1>. QED
  BY <1>1, <1>2, MapIs

\* The empty function is a map to anything.
LEMMA EmptyMap ==
  ASSUME NEW T
  PROVE  << >> \in Maps(T) /\ DOMAIN << >> = {}
<1>1. DOMAIN << >> = {}
  OBVIOUS
<1>2. << >> \in [{} -> T]
  OBVIOUS
<1>. QED
  BY <1>1, <1>2, MapIs

-----------------------------------------------------------------------------
(* The log only grows.                                                      *)

Grows ==
  /\ Len(log) \in Nat /\ Len(log') \in Nat /\ Len(log) <= Len(log')
  /\ Readable \subseteq Readable'
  /\ \A e \in Readable : log'[e] = log[e] /\ log[e] \in Submissions

\* An append leaves the events of the log where they were.
LEMMA LogGrows ==
  ASSUME log \in Seq(Submissions \cup {Malformed}),
         \/ log' = log
         \/ \E s \in Submissions \cup {Malformed} : log' = Append(log, s)
  PROVE  Grows
<1>1. \A e \in Readable : log[e] \in Submissions
  BY DEF Readable
<1>2. CASE log' = log
  BY <1>1, <1>2 DEF Grows, Readable
<1>3. CASE \E s \in Submissions \cup {Malformed} : log' = Append(log, s)
  <2>1. /\ Len(log) \in Nat /\ Len(log') = Len(log) + 1
        /\ \A e \in 1..Len(log) : log'[e] = log[e]
    BY <1>3
  <2>. QED
    BY <1>1, <2>1 DEF Grows, Readable
<1>. QED
  BY <1>2, <1>3

\* A sequence over a set is one over a larger set.
LEMMA SeqGrows ==
  ASSUME NEW S, NEW T, S \subseteq T, NEW q \in Seq(S)
  PROVE  q \in Seq(T)
  OBVIOUS

\* What a channel may hold, it may hold once the log is longer.
LEMMA MessagesGrow ==
  ASSUME Grows
  PROVE  Messages \subseteq Messages'
<1>1. Readable \subseteq Readable' /\ Entry \subseteq Entry'
  BY DEF Grows, Entry
<1>2. Maps(Entry) \subseteq Maps(Entry')
  BY <1>1, MapsGrow
<1>. QED
  BY <1>1, <1>2 DEF Messages, Hub!Empty

\* What the hub holds stays what it is while the log and the board grow.
LEMMA HubStaysTyped ==
  ASSUME Typed, Grows, UNCHANGED hub, DOMAIN board \subseteq DOMAIN board'
  PROVE  HubTyped'
<1>1. Readable \subseteq Readable' /\ Messages \subseteq Messages'
  BY MessagesGrow DEF Grows
<1>2. \A q : q \in Seq(Readable) => q \in Seq(Readable')
  BY <1>1, SeqGrows
<1>3. \A q : q \in Seq(Messages) => q \in Seq(Messages')
  BY <1>1, SeqGrows
<1>4. \A f : f \in Maps(Entry) => f \in Maps(Entry')
  BY <1>1, MapsGrow DEF Entry
<1>5. msgs' \in Seq(Readable') /\ \A n \in 1..Len(msgs) : msgs[n] \in Readable
  BY <1>2 DEF hub, Typed, HubTyped
<1>6. send' \in [Clients -> Seq(Messages')]
  BY <1>3 DEF hub, Typed, HubTyped
<1>7. snapshot' \in [Clients -> Maps(Entry')] /\ view' \in [Clients -> Maps(Entry')]
  BY <1>4 DEF hub, Typed, HubTyped
<1>. QED
  BY <1>5, <1>6, <1>7 DEF hub, Typed, HubTyped, Grows

-----------------------------------------------------------------------------
(* Typing.                                                                  *)

\* At first there is nothing to type or to account for.
LEMMA TypedInit ==
  ASSUME Init
  PROVE  Typed /\ Accounted
<1> USE FeedAssumption
<1>1. Readable = {} /\ Len(log) = 0
  BY DEF Init, Ingester!InitIngester, Readable
<1>2. IngesterTyped
  BY <1>1 DEF Init, Ingester!InitIngester, IngesterTyped, Ingester!Always
<1>3. FlusherTyped
  BY <1>1, EmptyMap DEF Init, Ingester!InitIngester, FlusherTyped, Ingester!Empty,
     Ingester!Always
<1>4. RedisTyped
  BY <1>1, EmptyMap DEF Init, Ingester!InitIngester, RedisTyped, Ingester!Empty, Sound
<1>5. HubTyped
  BY <1>1, EmptyMap DEF Init, Hub!InitHub, HubTyped, Hub!Empty
<1>6. Accounted
  BY <1>1 DEF Init, Ingester!InitIngester, Accounted
<1>. QED
  BY <1>2, <1>3, <1>4, <1>5, <1>6 DEF Typed

\* A new record is at the end of the log, where nothing has been read.
LEMMA EmitTyped ==
  ASSUME Typed, Accounted, NEW s \in Submissions \cup {Malformed}, EmitMetrics(s)
  PROVE  Typed' /\ Accounted' /\ Grows
<1> USE FeedAssumption DEF Ingester!EmitMetrics, EmitMetrics
<1>1. Grows /\ Len(log') = Len(log) + 1 /\ log' \in Seq(Submissions \cup {Malformed})
  BY LogGrows DEF Typed, IngesterTyped
<1>2. /\ UNCHANGED <<committed, assigned, position, proc, pc, next, last, buffer, flusher, batch,
                     attempt, rows, scores, late, board, pubsub, troubles, upsets, ingested, lossy>>
      /\ Len(log) < MaxEvents
  BY DEF Ingester!group, Ingester!consumer, Ingester!flushing, Ingester!stores, Ingester!redis,
     Ingester!bounds, Ingester!history
<1>3. Readable \subseteq Readable'
  BY <1>1 DEF Grows
<1>4. IngesterTyped'
  BY <1>1, <1>2, <1>3 DEF Typed, IngesterTyped
<1>5. FlusherTyped'
  BY <1>2, <1>3, MapsGrow DEF Typed, FlusherTyped
<1>6. RedisTyped'
  <2>1. board' \in Maps(Readable') /\ pubsub' \in Seq(Readable')
    BY <1>2, <1>3, MapsGrow, SeqGrows DEF Typed, RedisTyped
  <2>2. \A n \in 1..Len(pubsub) : pubsub[n] \in Readable
    BY DEF Typed, RedisTyped
  <2>. QED
    BY <1>1, <1>2, <1>3, <2>1, <2>2 DEF Typed, RedisTyped, Sound, Grows
<1>7. HubTyped'
  BY <1>1, <1>2, HubStaysTyped
<1>8. Accounted'
  <2>1. \A e \in 1..Len(log) : e \in Readable' => e \in Readable
    BY <1>1, <1>2 DEF Readable, Typed, IngesterTyped
  <2>2. committed - 1 <= Len(log) /\ position - 1 <= Len(log)
    BY DEF Typed, IngesterTyped
  <2>. QED
    BY <1>1, <1>2, <2>1, <2>2 DEF Typed, IngesterTyped, Accounted, Ready, Left
<1>. QED
  BY <1>1, <1>4, <1>5, <1>6, <1>7, <1>8 DEF Typed

\* The rest of the ingester reads the log, and of Redis it only adds to the board.
LEMMA StoresTyped ==
  ASSUME Typed, log' = log, UNCHANGED <<board, pubsub, hub>>
  PROVE  Grows /\ RedisTyped' /\ HubTyped'
<1>1. Grows
  BY LogGrows DEF Typed, IngesterTyped
<1>2. RedisTyped'
  BY DEF Typed, RedisTyped, Sound, Readable, Maps
<1>3. HubTyped'
  BY <1>1, HubStaysTyped
<1>. QED
  BY <1>1, <1>2, <1>3

\* The flusher keeps its type when only the consumer moves.
LEMMA SameFlusher ==
  ASSUME FlusherTyped, log' = log,
         UNCHANGED <<buffer, flusher, batch, attempt, rows, scores, late>>,
         ingested \subseteq ingested'
  PROVE  FlusherTyped'
<1>1. \A q : q \in Seq(ingested) => q \in Seq(ingested')
  BY SeqGrows
<1>2. buffer' \in [Members -> Seq(ingested')] /\ batch' \in [Members -> Seq(ingested')]
  BY <1>1 DEF FlusherTyped
<1>3. Maps(Readable)' = Maps(Readable)
  BY DEF Maps, Readable
<1>. QED
  BY <1>1, <1>2, <1>3 DEF FlusherTyped

\* A batch is what lies between the position and the end of the log.
LEMMA PollTyped ==
  ASSUME Typed, Accounted, NEW m \in Members, Ingester!PollFetches(m), UNCHANGED hub
  PROVE  Typed' /\ Accounted'
<1>1. PICK n \in position..Len(log) :
        /\ next' = [next EXCEPT ![m] = position] /\ last' = [last EXCEPT ![m] = n]
        /\ position' = n + 1
  BY DEF Ingester!PollFetches
<1>2. /\ pc[m] = "poll" /\ assigned = m /\ pc' = [pc EXCEPT ![m] = "handle"]
      /\ UNCHANGED <<log, committed, assigned, proc, buffer, flusher, batch, attempt, rows, scores,
                     late, board, pubsub, troubles, upsets, ingested, lossy>>
  BY DEF Ingester!PollFetches, Ingester!flushing, Ingester!stores, Ingester!redis,
     Ingester!bounds, Ingester!history
<1>3. Readable' = Readable
  BY <1>2 DEF Readable
<1>4. /\ next'[m] = position /\ last'[m] = n /\ pc'[m] = "handle"
      /\ \A o \in Members \ {m} : next'[o] = next[o] /\ last'[o] = last[o] /\ pc'[o] = pc[o]
      /\ next[m] = 0
  BY <1>1, <1>2 DEF Typed, IngesterTyped
<1>5. IngesterTyped'
  BY <1>1, <1>2, <1>3, <1>4 DEF Typed, IngesterTyped
<1>6. Accounted'
  <2>1. \A e \in 1..(position - 1) : Ready(e)
    BY <1>2, <1>4 DEF Accounted, Left
  <2>2. ASSUME NEW e \in 1..(position' - 1)
        PROVE  Ready(e) \/ Left(m, e)'
    <3>1. position \in Nat /\ position # 0 /\ n \in Nat
      BY <1>1 DEF Typed, IngesterTyped
    <3>2. e \in 1..(position - 1) \/ (position <= e /\ e <= n)
      BY <1>1, <3>1, <2>2
    <3>. QED
      BY <1>4, <2>1, <3>1, <3>2 DEF Left
  <2>3. \A e : Ready(e)' <=> Ready(e)
    BY <1>2, <1>3 DEF Ready
  <2>. QED
    BY <1>2, <2>2, <2>3 DEF Accounted
<1>. QED
  BY <1>2, <1>5, <1>6, StoresTyped, SameFlusher DEF Typed

\* The next record, once the one in hand is done.
LEMMA BatchEnds ==
  ASSUME Typed, Accounted, NEW m \in Members, pc[m] \in {"handle", "score"}, Ready(next[m]),
         Ingester!BatchEnd(m),
         UNCHANGED <<log, committed, assigned, position, proc, last, upsets, ingested, lossy>>,
         troubles' \in 0..MaxTroubles
  PROVE  IngesterTyped' /\ Accounted'
<1>1. /\ pc' = [pc EXCEPT ![m] = IF next[m] = last[m] THEN "commit" ELSE "handle"]
      /\ next' = [next EXCEPT ![m] = IF next[m] = last[m] THEN 0 ELSE next[m] + 1]
  BY DEF Ingester!BatchEnd, Typed, IngesterTyped
<1>2. /\ next[m] \in Nat /\ last[m] \in Nat /\ next[m] # 0 /\ next[m] <= last[m]
      /\ last[m] <= Len(log) /\ Len(log) \in Nat
  BY DEF Typed, IngesterTyped
<1>3. /\ pc'[m] = IF next[m] = last[m] THEN "commit" ELSE "handle"
      /\ next'[m] = IF next[m] = last[m] THEN 0 ELSE next[m] + 1
      /\ \A o \in Members \ {m} : next'[o] = next[o] /\ pc'[o] = pc[o]
  BY <1>1 DEF Typed, IngesterTyped
<1>4. Readable' = Readable
  BY DEF Readable
<1>5. IngesterTyped'
  BY <1>1, <1>2, <1>3, <1>4 DEF Typed, IngesterTyped
<1>6. \A e \in Nat : Ready(e) \/ Left(m, e) => Ready(e) \/ Left(m, e)'
  BY <1>2, <1>3 DEF Left
<1>7. \A e : Ready(e)' <=> Ready(e)
  BY <1>4 DEF Ready
<1>8. \A o \in Members \ {m} : \A e : Left(o, e)' <=> Left(o, e)
  BY <1>3 DEF Left
<1>9. \A e \in 1..(position - 1) : e \in Nat
  OBVIOUS
<1>10. Accounted'
  BY <1>6, <1>7, <1>8, <1>9 DEF Accounted
<1>. QED
  BY <1>5, <1>10

\* A malformed record is passed over, and none is ingested with it.
LEMMA SkipTyped ==
  ASSUME Typed, Accounted, NEW m \in Members, Ingester!SkipMalformed(m), UNCHANGED hub
  PROVE  Typed' /\ Accounted'
<1>1. /\ pc[m] = "handle" /\ log[next[m]] = Malformed /\ Ingester!BatchEnd(m)
      /\ UNCHANGED <<log, committed, assigned, position, proc, last, buffer, flusher, batch,
                     attempt, rows, scores, late, board, pubsub, troubles, upsets, ingested, lossy>>
  BY DEF Ingester!SkipMalformed, Ingester!group, Ingester!flushing, Ingester!stores,
     Ingester!redis, Ingester!bounds, Ingester!history
<1>2. Ready(next[m]) /\ troubles' \in 0..MaxTroubles
  BY <1>1 DEF Ready, Readable, Typed, IngesterTyped
<1>3. IngesterTyped' /\ Accounted'
  BY <1>1, <1>2, BatchEnds
<1>. QED
  BY <1>1, <1>3, StoresTyped, SameFlusher DEF Typed

\* What handling an event changes.
LEMMA HandleEffect ==
  ASSUME Typed, NEW m \in Members, Ingester!HandleEvent(m)
  PROVE  /\ pc[m] = "handle" /\ pc' = [pc EXCEPT ![m] = "score"]
         /\ next[m] \in Readable /\ next[m] # 0
         /\ buffer' = [buffer EXCEPT ![m] = Append(buffer[m], next[m])]
         /\ ingested' = ingested \cup {next[m]} /\ lossy' \subseteq lossy \cup {next[m]}
         /\ reordered' = IF Ingester!OutOfOrder(m, next[m]) THEN reordered \cup {log[next[m]]}
                         ELSE reordered
         /\ UNCHANGED <<log, committed, assigned, position, proc, next, last, flusher, batch,
                        attempt, rows, scores, late, board, pubsub, troubles, upsets>>
<1>1. /\ pc[m] = "handle" /\ log[next[m]] # Malformed /\ pc' = [pc EXCEPT ![m] = "score"]
      /\ buffer' = [buffer EXCEPT ![m] = Append(buffer[m], next[m])]
      /\ ingested' = ingested \cup {next[m]}
      /\ lossy' = IF proc[m] = "stopping" THEN lossy \cup {next[m]} ELSE lossy
      /\ reordered' = IF Ingester!OutOfOrder(m, next[m]) THEN reordered \cup {log[next[m]]}
                      ELSE reordered
      /\ UNCHANGED <<log, committed, assigned, position, proc, next, last, flusher, batch,
                     attempt, rows, scores, late, board, pubsub, troubles, upsets>>
  BY DEF Ingester!HandleEvent, Ingester!group, Ingester!stores, Ingester!redis, Ingester!bounds
<1>2. next[m] \in Readable /\ next[m] # 0
  BY <1>1 DEF Typed, IngesterTyped, Readable
<1>. QED
  BY <1>1, <1>2

\* A record that is handled is ingested before the position moves past it.
LEMMA HandleTyped ==
  ASSUME Typed, Accounted, NEW m \in Members, Ingester!HandleEvent(m), UNCHANGED hub
  PROVE  Typed' /\ Accounted'
<1>1. /\ pc[m] = "handle" /\ pc' = [pc EXCEPT ![m] = "score"]
      /\ next[m] \in Readable /\ next[m] # 0
      /\ buffer' = [buffer EXCEPT ![m] = Append(buffer[m], next[m])]
      /\ ingested' = ingested \cup {next[m]} /\ lossy' \subseteq lossy \cup {next[m]}
      /\ UNCHANGED <<log, committed, assigned, position, proc, next, last, flusher, batch,
                     attempt, rows, scores, late, board, pubsub, troubles, upsets>>
  BY HandleEffect
<1>2. Readable' = Readable /\ ingested \subseteq ingested'
  BY <1>1 DEF Readable
<1>3. IngesterTyped'
  <2>1. pc'[m] = "score" /\ \A o \in Members \ {m} : pc'[o] = pc[o]
    BY <1>1 DEF Typed, IngesterTyped
  <2>. QED
    BY <1>1, <1>2, <2>1 DEF Typed, IngesterTyped
<1>4. Accounted'
  BY <1>1, <1>2 DEF Accounted, Ready, Left
<1>5. FlusherTyped'
  <2>1. \A q : q \in Seq(ingested) => q \in Seq(ingested')
    BY <1>2, SeqGrows
  <2>2. batch' \in [Members -> Seq(ingested')] /\ buffer \in [Members -> Seq(ingested')]
    BY <1>1, <2>1 DEF Typed, FlusherTyped
  <2>3. buffer' \in [Members -> Seq(ingested')]
    <3>1. Append(buffer[m], next[m]) \in Seq(ingested')
      BY <1>1, <2>2
    <3>. QED
      BY <1>1, <2>2, <3>1
  <2>4. Maps(Readable)' = Maps(Readable)
    BY <1>2 DEF Maps
  <2>. QED
    BY <1>1, <1>2, <2>1, <2>2, <2>3, <2>4 DEF Typed, FlusherTyped
<1>. QED
  BY <1>1, <1>3, <1>4, <1>5, StoresTyped DEF Typed

\* What a call does to the count of troubles.
LEMMA ChargeTyped ==
  ASSUME Typed, NEW m \in Members, NEW a \in Ingester!Answers(m), Ingester!Charge(m, a)
  PROVE  troubles' \in 0..MaxTroubles
<1> USE FeedAssumption
<1>1. troubles \in 0..MaxTroubles
  BY DEF Typed, IngesterTyped
<1>2. CASE a # "ok" /\ proc[m] = "running"
  BY <1>1, <1>2 DEF Ingester!Answers, Ingester!Charge
<1>3. CASE ~(a # "ok" /\ proc[m] = "running")
  BY <1>1, <1>3 DEF Ingester!Charge
<1>. QED
  BY <1>2, <1>3

\* The board and the channel change together, or not at all.
LEMMA UpdateEffect ==
  ASSUME Typed, NEW m \in Members, Ingester!UpdateLeaderboard(m)
  PROVE  /\ next[m] \in Readable /\ next[m] \in ingested /\ log[next[m]] \in Submissions
         /\ \/ UNCHANGED <<board, pubsub>>
            \/ /\ board' = Ingester!Put(board, log[next[m]], next[m])
               /\ pubsub' = Append(pubsub, next[m])
         /\ pc[m] = "score" /\ troubles' \in 0..MaxTroubles /\ Ingester!BatchEnd(m)
         /\ UNCHANGED <<log, committed, assigned, position, proc, last, buffer, flusher, batch,
                        attempt, rows, scores, late, upsets, ingested, lossy, reordered>>
<1>1. /\ pc[m] = "score" /\ next[m] \in ingested /\ next[m] \in Readable
      /\ log[next[m]] \in Submissions
  BY DEF Typed, IngesterTyped, Ingester!UpdateLeaderboard, Readable
<1>2. PICK a \in Ingester!Answers(m) :
        /\ IF a = "failed" THEN UNCHANGED <<board, pubsub>>
           ELSE /\ board' = Ingester!Put(board, log[next[m]], next[m])
                /\ pubsub' = Append(pubsub, next[m])
        /\ Ingester!Charge(m, a)
  BY DEF Ingester!UpdateLeaderboard, Ingester!redis
<1>3. troubles' \in 0..MaxTroubles
  BY <1>2, ChargeTyped
<1>4. UNCHANGED <<log, committed, assigned, position, proc, last, buffer, flusher, batch,
                  attempt, rows, scores, late, upsets, ingested, lossy, reordered>>
  BY DEF Ingester!UpdateLeaderboard, Ingester!group, Ingester!flushing, Ingester!stores,
     Ingester!history
<1>5. Ingester!BatchEnd(m)
  BY DEF Ingester!UpdateLeaderboard
<1>. QED
  BY <1>1, <1>2, <1>3, <1>4, <1>5

\* A call to Redis may fail: the record it is for stays ingested.
LEMMA UpdateTyped ==
  ASSUME Typed, Accounted, NEW m \in Members, Ingester!UpdateLeaderboard(m), UNCHANGED hub
  PROVE  Typed' /\ Accounted'
<1>0. PICK e : e = next[m]
  OBVIOUS
<1>1. /\ e \in Readable /\ e \in ingested /\ log[e] \in Submissions
      /\ \/ UNCHANGED <<board, pubsub>>
         \/ board' = Ingester!Put(board, log[e], e) /\ pubsub' = Append(pubsub, e)
      /\ pc[m] = "score" /\ troubles' \in 0..MaxTroubles /\ Ingester!BatchEnd(m)
      /\ UNCHANGED <<log, committed, assigned, position, proc, last, buffer, flusher, batch,
                     attempt, rows, scores, late, upsets, ingested, lossy>>
  BY <1>0, UpdateEffect
<1>2. Readable' = Readable
  BY <1>1 DEF Readable
<1>3. IngesterTyped' /\ Accounted'
  <2>1. Ready(next[m])
    BY <1>0, <1>1 DEF Ready
  <2>. QED
    BY <1>1, <2>1, BatchEnds
<1>5. Grows
  BY <1>1, LogGrows DEF Typed, IngesterTyped
<1>6. RedisTyped' /\ DOMAIN board \subseteq DOMAIN board'
  <2>1. CASE UNCHANGED <<board, pubsub>>
    BY <1>1, <2>1 DEF Typed, RedisTyped, Sound, Readable, Maps
  <2>2. CASE board' = Ingester!Put(board, log[e], e) /\ pubsub' = Append(pubsub, e)
    <3>1. board \in Maps(Readable) /\ Sound(board) /\ pubsub \in Seq(Readable)
      BY DEF Typed, RedisTyped
    <3>2. /\ board' \in Maps(Readable) /\ DOMAIN board' = DOMAIN board \cup {log[e]}
          /\ board'[log[e]] = e
          /\ \A t \in DOMAIN board \ {log[e]} : board'[t] = board[t]
      <4>1. /\ DOMAIN board' = DOMAIN board \cup {log[e]} /\ board'[log[e]] = e
            /\ \A t \in DOMAIN board \ {log[e]} : board'[t] = board[t]
            /\ board' = [t \in DOMAIN board' |-> board'[t]]
        BY <2>2 DEF Ingester!Put
      <4>2. DOMAIN board \subseteq Submissions /\ \A t \in DOMAIN board : board[t] \in Readable
        BY <3>1, MapIs
      <4>3. DOMAIN board' \subseteq Submissions /\ \A t \in DOMAIN board' : board'[t] \in Readable
        BY <1>1, <4>1, <4>2
      <4>. QED
        BY <4>1, <4>3, MapIs
    <3>3. Sound(board)'
      BY <1>1, <1>2, <3>1, <3>2 DEF Sound
    <3>4. /\ pubsub' \in Seq(Readable) /\ Len(pubsub') = Len(pubsub) + 1 /\ Len(pubsub) \in Nat
          /\ \A n \in 1..Len(pubsub) : pubsub'[n] = pubsub[n]
          /\ pubsub'[Len(pubsub) + 1] = e
      BY <1>1, <2>2, <3>1
    <3>5. \A n \in 1..Len(pubsub') : log[pubsub'[n]] \in DOMAIN board'
      BY <3>2, <3>4 DEF Typed, RedisTyped
    <3>6. Maps(Readable)' = Maps(Readable)
      BY <1>2 DEF Maps
    <3>. QED
      BY <1>1, <1>2, <3>2, <3>3, <3>4, <3>5, <3>6 DEF RedisTyped
  <2>. QED
    BY <1>1, <2>1, <2>2
<1>7. HubTyped'
  BY <1>5, <1>6, HubStaysTyped
<1>8. FlusherTyped'
  BY <1>1, SameFlusher DEF Typed
<1>. QED
  BY <1>3, <1>6, <1>7, <1>8 DEF Typed

\* All that was fetched since the partition was assigned is committed, and all of it has
\* been ingested.
LEMMA CommitTyped ==
  ASSUME Typed, Accounted, NEW m \in Members, Ingester!CommitOffsets(m), UNCHANGED hub
  PROVE  Typed' /\ Accounted'
<1>1. /\ pc[m] = "commit" /\ pc' = [pc EXCEPT ![m] = "poll"]
      /\ committed' = committed \/ (assigned = m /\ committed' = position)
      /\ troubles' \in 0..MaxTroubles
      /\ UNCHANGED <<log, assigned, position, proc, next, last, buffer, flusher, batch, attempt,
                     rows, scores, late, board, pubsub, upsets, ingested, lossy>>
  <2>1. PICK a \in Ingester!Answers(m) :
          /\ committed' = IF a = "failed" \/ assigned # m THEN committed ELSE position
          /\ Ingester!Charge(m, a)
    BY DEF Ingester!CommitOffsets
  <2>2. troubles' \in 0..MaxTroubles
    BY <2>1, ChargeTyped
  <2>. QED
    BY <2>1, <2>2 DEF Ingester!CommitOffsets, Ingester!flushing, Ingester!stores, Ingester!redis,
       Ingester!history
<1>2. Readable' = Readable /\ next[m] = 0
  BY <1>1 DEF Readable, Typed, IngesterTyped
<1>3. pc'[m] = "poll" /\ \A o \in Members \ {m} : pc'[o] = pc[o]
  BY <1>1 DEF Typed, IngesterTyped
<1>4. IngesterTyped'
  BY <1>1, <1>2, <1>3 DEF Typed, IngesterTyped
<1>5. Accounted'
  <2>1. \A e : (Ready(e)' <=> Ready(e)) /\ \A o : Left(o, e)' <=> Left(o, e)
    BY <1>1, <1>2 DEF Ready, Left
  <2>2. assigned = m => \A e \in 1..(position - 1) : Ready(e)
    BY <1>2 DEF Accounted, Left
  <2>3. CASE committed' = committed
    BY <1>1, <2>1, <2>3 DEF Accounted
  <2>4. CASE assigned = m /\ committed' = position
    BY <1>1, <2>1, <2>2, <2>4 DEF Accounted
  <2>. QED
    BY <1>1, <2>3, <2>4
<1>. QED
  BY <1>1, <1>4, <1>5, StoresTyped, SameFlusher DEF Typed

-----------------------------------------------------------------------------
(* The flusher.                                                             *)

\* What a step of the flusher leaves alone.
LEMMA FlusherSide ==
  ASSUME Typed, Accounted,
         UNCHANGED <<log, committed, assigned, position, proc, pc, next, last, board, pubsub,
                     upsets, ingested, hub>>,
         troubles' \in 0..MaxTroubles, lossy' \subseteq ingested, FlusherTyped'
  PROVE  Typed' /\ Accounted'
<1>1. Readable' = Readable
  BY DEF Readable
<1>2. IngesterTyped'
  BY <1>1 DEF Typed, IngesterTyped
<1>3. Accounted'
  BY <1>1 DEF Accounted, Ready, Left
<1>. QED
  BY <1>2, <1>3, StoresTyped DEF Typed

\* What a member holds has been ingested.
LEMMA HeldIngested ==
  ASSUME Typed, NEW m \in Members
  PROVE  /\ Held(m) \subseteq ingested /\ ToSet(batch[m]) \subseteq ingested
         /\ Ingester!Held(m) = Held(m) /\ Ingester!ToSet(batch[m]) = ToSet(batch[m])
<1>1. buffer[m] \in Seq(ingested) /\ batch[m] \in Seq(ingested)
  BY DEF Typed, FlusherTyped
<1>2. ToSet(buffer[m]) \subseteq ingested /\ ToSet(batch[m]) \subseteq ingested
  BY <1>1 DEF ToSet
<1>. QED
  BY <1>2 DEF Held, Ingester!Held, ToSet, Ingester!ToSet

\* The flusher takes the whole buffer.
LEMMA TakeTyped ==
  ASSUME Typed, Accounted, NEW m \in Members, Ingester!TakeBuffer(m), UNCHANGED hub
  PROVE  Typed' /\ Accounted'
<1>1. /\ buffer[m] # << >> /\ batch' = [batch EXCEPT ![m] = buffer[m]]
      /\ attempt' = [attempt EXCEPT ![m] = 1] /\ flusher' = [flusher EXCEPT ![m] = "write"]
      /\ buffer' = [buffer EXCEPT ![m] = << >>]
      /\ UNCHANGED <<log, committed, assigned, position, proc, pc, next, last, board, pubsub,
                     ingested, lossy, rows, scores, late, troubles, upsets>>
  BY DEF Ingester!TakeBuffer, Ingester!group, Ingester!consumer, Ingester!stores, Ingester!redis,
     Ingester!bounds, Ingester!history
<1>2. Maps(Readable)' = Maps(Readable)
  BY <1>1 DEF Maps, Readable
<1>3. FlusherTyped'
  <2>1. << >> \in Seq(ingested) /\ buffer[m] \in Seq(ingested) /\ 1 \in 0..MaxAttempts
    BY FeedAssumption DEF Typed, FlusherTyped
  <2>2. /\ buffer' \in [Members -> Seq(ingested)] /\ batch' \in [Members -> Seq(ingested)]
        /\ flusher' \in [Members -> {"wait", "write"}] /\ attempt' \in [Members -> 0..MaxAttempts]
    BY <1>1, <2>1 DEF Typed, FlusherTyped
  <2>3. \A o \in Members : flusher'[o] = "write" <=> batch'[o] # << >>
    BY <1>1 DEF Typed, FlusherTyped
  <2>. QED
    BY <1>1, <1>2, <2>2, <2>3 DEF Typed, FlusherTyped
<1>4. troubles' \in 0..MaxTroubles /\ lossy' \subseteq ingested
  BY <1>1 DEF Typed, IngesterTyped
<1>. QED
  BY <1>1, <1>3, <1>4, FlusherSide

(* A nonempty set of natural numbers has a least one.                       *)
LEMMA LeastNatural ==
  ASSUME NEW T, T \subseteq Nat, T # {}
  PROVE  \E x \in T : \A y \in T : x <= y
<1>1. PICK x \in T : \A y \in T : <<y, x>> \notin OpToRel(<, Nat)
  BY NatLessThanWellFounded, WFMin
<1>2. \A y \in T : ~(y < x)
  BY <1>1 DEF OpToRel
<1>. QED
  BY <1>2

\* A nonempty set of a sequence's positions has a last one.
LEMMA LastExists ==
  ASSUME NEW n \in Nat, NEW S \in SUBSET (1..n), S # {}
  PROVE  Ingester!Max(S) \in S /\ \A k \in S : k <= Ingester!Max(S)
<1>. DEFINE Bounds == {b \in Nat : \A k \in S : k <= b}
<1>1. n \in Bounds
  OBVIOUS
<1>2. PICK b \in Bounds : \A c \in Bounds : b <= c
  BY <1>1, LeastNatural
<1>3. b \in Nat /\ \A k \in S : k <= b
  OBVIOUS
<1>4. b \in S
  <2>1. SUFFICES ASSUME b \notin S
                 PROVE  FALSE
    OBVIOUS
  <2>2. b # 0
    <3>1. PICK k \in S : k <= b
      BY <1>3
    <3>. QED
      BY <1>3, <3>1
  <2>3. \A k \in S : k <= b - 1
    BY <1>3, <2>1
  <2>4. b - 1 \in Bounds
    BY <1>3, <2>2, <2>3
  <2>. QED
    BY <1>2, <1>3, <2>4
<1>. QED
  BY <1>3, <1>4 DEF Ingester!Max

\* Of the events of a submission in a batch the last one is stored; the rest stays.
LEMMA UpsertEffect ==
  ASSUME Typed, NEW b \in Seq(ingested), scores' = Ingester!Upserted(scores, b)
  PROVE  /\ scores' \in Maps(Readable)
         /\ DOMAIN scores' = DOMAIN scores \cup {log[e] : e \in ToSet(b)}
         /\ \A k \in DOMAIN b :
              \E j \in DOMAIN b :
                j >= k /\ log[b[j]] = log[b[k]] /\ scores'[log[b[k]]] = b[j]
         /\ \A s \in DOMAIN scores : s \notin {log[e] : e \in ToSet(b)} => scores'[s] = scores[s]
<1>. DEFINE At(s) == {n \in DOMAIN b : log[b[n]] = s}
            Named == {log[e] : e \in ToSet(b)}
<1>1. /\ b \in Seq(Readable) /\ DOMAIN b = 1..Len(b) /\ Len(b) \in Nat
      /\ scores \in Maps(Readable)
  BY SeqGrows DEF Typed, FlusherTyped, IngesterTyped
<1>2. DOMAIN scores \subseteq Submissions /\ \A s \in DOMAIN scores : scores[s] \in Readable
  BY <1>1, MapIs
<1>3. \A k \in DOMAIN b : b[k] \in Readable /\ log[b[k]] \in Submissions
  BY <1>1 DEF Typed, IngesterTyped, Readable
<1>4. Named \subseteq Submissions /\ \A s \in Named : At(s) # {}
  BY <1>3 DEF ToSet
<1>5. \A s : At(s) # {} => Ingester!Max(At(s)) \in At(s) /\ \A k \in At(s) : k <= Ingester!Max(At(s))
  BY <1>1, LastExists
<1>6. scores' = [s \in DOMAIN scores \cup Named |->
                   IF At(s) = {} THEN scores[s] ELSE b[Ingester!Max(At(s))]]
  BY DEF Ingester!Upserted, Ingester!Of, Ingester!ToSet, ToSet
<1>7. \A s \in DOMAIN scores : s \notin Named => At(s) = {}
  BY DEF ToSet
<1>8. \A k \in DOMAIN b : log[b[k]] \in Named /\ k \in At(log[b[k]])
  BY DEF ToSet
<1>. HIDE DEF At, Named
<1>9. DOMAIN scores' = DOMAIN scores \cup Named
  BY <1>6
<1>10. ASSUME NEW k \in DOMAIN b
       PROVE  \E j \in DOMAIN b :
                j >= k /\ log[b[j]] = log[b[k]] /\ scores'[log[b[k]]] = b[j]
  <2>1. /\ Ingester!Max(At(log[b[k]])) \in At(log[b[k]])
        /\ k <= Ingester!Max(At(log[b[k]]))
    BY <1>5, <1>8
  <2>2. scores'[log[b[k]]] = b[Ingester!Max(At(log[b[k]]))]
    BY <1>6, <1>8
  <2>3. /\ Ingester!Max(At(log[b[k]])) \in DOMAIN b
        /\ log[b[Ingester!Max(At(log[b[k]]))]] = log[b[k]]
    BY <2>1 DEF At
  <2>. QED
    BY <1>1, <2>1, <2>2, <2>3
<1>11. \A s \in DOMAIN scores' : scores'[s] \in Readable
  <2>1. ASSUME NEW s \in DOMAIN scores', At(s) # {}
        PROVE  scores'[s] \in Readable
    <3>1. Ingester!Max(At(s)) \in DOMAIN b
      BY <1>5, <2>1 DEF At
    <3>. QED
      BY <1>3, <1>6, <1>9, <2>1, <3>1
  <2>2. ASSUME NEW s \in DOMAIN scores', At(s) = {}
        PROVE  scores'[s] \in Readable
    <3>1. s \in DOMAIN scores
      BY <1>4, <1>9, <2>2
    <3>. QED
      BY <1>2, <1>6, <1>9, <2>2, <3>1
  <2>. QED
    BY <2>1, <2>2
<1>12. scores' \in Maps(Readable)
  <2>1. DOMAIN scores' \subseteq Submissions
    BY <1>2, <1>4, <1>9
  <2>2. scores' = [s \in DOMAIN scores' |-> scores'[s]]
    BY <1>6, <1>9
  <2>. QED
    BY <1>11, <2>1, <2>2, MapIs
<1>13. \A s \in DOMAIN scores : s \notin Named => scores'[s] = scores[s]
  BY <1>6, <1>7
<1>. QED
  BY <1>9, <1>10, <1>12, <1>13 DEF Named

\* What a batch given up leaves behind.
LEMMA GivenUpEffect ==
  ASSUME Typed, NEW m \in Members, Ingester!GivenUp(m)
  PROVE  \E w : /\ late' = late \cup {w} /\ w.batch = batch[m] /\ w.batch \in Seq(ingested)
                /\ reordered' = reordered \cup {log[e] : e \in ToSet(batch[m])}
<1>1. batch[m] \in Seq(ingested)
  BY DEF Typed, FlusherTyped
<1>. WITNESS [batch |-> batch[m], serial |-> troubles + upsets]
<1>. QED
  BY <1>1 DEF Ingester!GivenUp, Ingester!Of, Ingester!ToSet, ToSet

\* The stores are left alone, or a batch is stored, or one is given up without an answer.
Stored(b) == rows' = rows \cup ToSet(b) /\ scores' = Ingester!Upserted(scores, b)
Abandoned(m) ==
  \E w : /\ late' = late \cup {w} /\ w.batch = batch[m] /\ w.batch \in Seq(ingested)
         /\ reordered' = reordered \cup {log[e] : e \in ToSet(batch[m])}

\* The flusher of a member is done with its batch.
Ended(m) ==
  /\ flusher' = [flusher EXCEPT ![m] = "wait"] /\ batch' = [batch EXCEPT ![m] = << >>]
  /\ attempt' = [attempt EXCEPT ![m] = 0]

\* What a write does to the tables and to the flusher.
LEMMA WriteEffect ==
  ASSUME Typed, NEW m \in Members, Ingester!WriteBatch(m)
  PROVE  /\ flusher[m] = "write"
         /\ \/ UNCHANGED <<rows, scores, late, reordered>>
            \/ Stored(batch[m]) /\ UNCHANGED <<late, reordered>> /\ Ended(m)
            \/ Abandoned(m) /\ UNCHANGED <<rows, scores>>
         /\ \/ /\ attempt[m] < MaxAttempts /\ attempt' = [attempt EXCEPT ![m] = attempt[m] + 1]
               /\ UNCHANGED <<flusher, batch>>
            \/ Ended(m)
         /\ buffer' = buffer /\ troubles' \in 0..MaxTroubles
         /\ lossy' \subseteq lossy \cup ToSet(batch[m])
         /\ UNCHANGED <<log, committed, assigned, position, proc, pc, next, last, board, pubsub,
                        upsets, ingested>>
<1>1. PICK a \in Ingester!Answers(m) :
        /\ CASE a = "ok"     -> Ingester!Store(batch[m]) /\ UNCHANGED <<late, reordered>>
             [] a = "failed" -> UNCHANGED <<rows, scores, late, reordered>>
             [] a = "lost"   -> Ingester!GivenUp(m) /\ UNCHANGED <<rows, scores>>
        /\ IF a # "ok" /\ Ingester!MoreAttempts(m)
             THEN attempt' = [attempt EXCEPT ![m] = @ + 1] /\ UNCHANGED <<flusher, batch>>
             ELSE Ingester!EndFlush(m)
        /\ lossy' = IF a # "ok" /\ attempt[m] = MaxAttempts
                      THEN lossy \cup Ingester!ToSet(batch[m]) ELSE lossy
        /\ Ingester!Charge(m, a)
  BY DEF Ingester!WriteBatch, Ingester!stores
<1>2. troubles' \in 0..MaxTroubles
  BY <1>1, ChargeTyped
<1>3. /\ flusher[m] = "write" /\ buffer' = buffer
      /\ UNCHANGED <<log, committed, assigned, position, proc, pc, next, last, board, pubsub,
                     upsets, ingested>>
  BY DEF Ingester!WriteBatch, Ingester!group, Ingester!consumer, Ingester!redis
<1>4. lossy' \subseteq lossy \cup ToSet(batch[m])
  BY <1>1 DEF ToSet, Ingester!ToSet
<1>5. \/ /\ attempt[m] < MaxAttempts /\ attempt' = [attempt EXCEPT ![m] = attempt[m] + 1]
         /\ UNCHANGED <<flusher, batch>>
      \/ Ended(m)
  <2>1. CASE a # "ok" /\ Ingester!MoreAttempts(m)
    BY <1>1, <2>1 DEF Ingester!MoreAttempts, Typed, FlusherTyped
  <2>2. CASE ~(a # "ok" /\ Ingester!MoreAttempts(m))
    BY <1>1, <2>2 DEF Ingester!EndFlush, Ended
  <2>. QED
    BY <2>1, <2>2
<1>6. \/ UNCHANGED <<rows, scores, late, reordered>>
      \/ Stored(batch[m]) /\ UNCHANGED <<late, reordered>> /\ Ended(m)
      \/ Abandoned(m) /\ UNCHANGED <<rows, scores>>
  <2>1. a \in {"ok", "failed", "lost"}
    BY DEF Ingester!Answers
  <2>2. CASE a = "ok"
    BY <1>1, <2>2 DEF Ingester!Store, Stored, Ingester!EndFlush, Ended, Ingester!ToSet, ToSet
  <2>3. CASE a = "failed"
    BY <1>1, <2>3
  <2>4. CASE a = "lost"
    <3>1. Ingester!GivenUp(m) /\ UNCHANGED <<rows, scores>>
      BY <1>1, <2>4
    <3>. QED
      BY <3>1, GivenUpEffect DEF Abandoned
  <2>. QED
    BY <2>1, <2>2, <2>3, <2>4
<1>. QED
  BY <1>2, <1>3, <1>4, <1>5, <1>6

\* The stores keep their types, whatever becomes of a batch of what has been ingested.
LEMMA StoredTyped ==
  ASSUME Typed, NEW b \in Seq(ingested), log' = log, ingested' = ingested,
         (UNCHANGED <<rows, scores>>) \/ Stored(b)
  PROVE  rows' \subseteq ingested' /\ scores' \in Maps(Readable)'
<1>1. Maps(Readable)' = Maps(Readable)
  BY DEF Maps, Readable
<1>2. ToSet(b) \subseteq ingested
  BY DEF ToSet
<1>3. CASE UNCHANGED <<rows, scores>>
  BY <1>1, <1>3 DEF Typed, FlusherTyped
<1>4. CASE Stored(b)
  <2>1. scores' \in Maps(Readable)
    BY <1>4, UpsertEffect DEF Stored
  <2>. QED
    BY <1>1, <1>2, <1>4, <2>1 DEF Typed, FlusherTyped, Stored
<1>. QED
  BY <1>3, <1>4

\* A write that may still be committed is one of events that have been ingested.
LEMMA LateStays ==
  ASSUME Typed, NEW m \in Members, ingested' = ingested,
         late' \subseteq late \/ Abandoned(m)
  PROVE  \A w \in late' : w.batch \in Seq(ingested')
  BY DEF Abandoned, Typed, FlusherTyped

\* The flusher keeps its type once it is done with a batch.
LEMMA EndedTyped ==
  ASSUME Typed, NEW m \in Members, Ended(m)
  PROVE  /\ batch' \in [Members -> Seq(ingested)] /\ flusher' \in [Members -> {"wait", "write"}]
         /\ attempt' \in [Members -> 0..MaxAttempts]
         /\ \A o \in Members : flusher'[o] = "write" <=> batch'[o] # << >>
         /\ batch'[m] = << >> /\ \A o \in Members \ {m} : batch'[o] = batch[o]
<1>1. << >> \in Seq(ingested) /\ 0 \in 0..MaxAttempts
  BY FeedAssumption
<1>. QED
  BY <1>1 DEF Ended, Typed, FlusherTyped

\* A write stores its batch or not, and is tried again or given up.
LEMMA WriteTyped ==
  ASSUME Typed, Accounted, NEW m \in Members, Ingester!WriteBatch(m), UNCHANGED hub
  PROVE  Typed' /\ Accounted'
<1>1. /\ (UNCHANGED <<rows, scores>>) \/ Stored(batch[m])
      /\ late' \subseteq late \/ Abandoned(m)
      /\ \/ /\ attempt[m] < MaxAttempts /\ attempt' = [attempt EXCEPT ![m] = attempt[m] + 1]
            /\ UNCHANGED <<flusher, batch>>
         \/ Ended(m)
      /\ buffer' = buffer /\ troubles' \in 0..MaxTroubles
      /\ lossy' \subseteq lossy \cup ToSet(batch[m])
      /\ UNCHANGED <<log, committed, assigned, position, proc, pc, next, last, board, pubsub,
                     upsets, ingested>>
  BY WriteEffect
<1>2. batch[m] \in Seq(ingested) /\ lossy' \subseteq ingested
  BY <1>1, HeldIngested DEF Typed, FlusherTyped, IngesterTyped
<1>3. rows' \subseteq ingested' /\ scores' \in Maps(Readable)'
  BY <1>1, <1>2, StoredTyped
<1>4. \A w \in late' : w.batch \in Seq(ingested')
  BY <1>1, LateStays
<1>5. /\ batch' \in [Members -> Seq(ingested)] /\ flusher' \in [Members -> {"wait", "write"}]
      /\ attempt' \in [Members -> 0..MaxAttempts]
      /\ \A o \in Members : flusher'[o] = "write" <=> batch'[o] # << >>
  <2>1. CASE /\ attempt[m] < MaxAttempts /\ attempt' = [attempt EXCEPT ![m] = attempt[m] + 1]
             /\ UNCHANGED <<flusher, batch>>
    BY <2>1, FeedAssumption DEF Typed, FlusherTyped
  <2>. QED
    BY <1>1, <2>1, EndedTyped
<1>6. FlusherTyped'
  BY <1>1, <1>3, <1>4, <1>5 DEF Typed, FlusherTyped
<1>. QED
  BY <1>1, <1>2, <1>6, FlusherSide

\* What a write that hangs changes.
LEMMA HangEffect ==
  ASSUME Typed, NEW m \in Members, Ingester!WriteHangs(m)
  PROVE  /\ Ended(m) /\ Abandoned(m)
         /\ troubles' \in 0..MaxTroubles /\ lossy' \subseteq lossy \cup ToSet(batch[m])
         /\ UNCHANGED <<log, committed, assigned, position, proc, pc, next, last, board, pubsub,
                        ingested, rows, scores, buffer, upsets>>
<1>1. /\ Ingester!EndFlush(m) /\ Ingester!GivenUp(m)
      /\ troubles < MaxTroubles /\ troubles' = troubles + 1
      /\ lossy' = lossy \cup Ingester!ToSet(batch[m])
      /\ UNCHANGED <<log, committed, assigned, position, proc, pc, next, last, board, pubsub,
                     ingested, rows, scores, buffer, upsets>>
  BY DEF Ingester!WriteHangs, Ingester!group, Ingester!consumer, Ingester!redis
<1>2. Abandoned(m)
  BY <1>1, GivenUpEffect DEF Abandoned
<1>3. troubles' \in 0..MaxTroubles
  BY <1>1, FeedAssumption DEF Typed, IngesterTyped
<1>. QED
  BY <1>1, <1>2, <1>3 DEF Ended, Ingester!EndFlush, ToSet, Ingester!ToSet

\* A write that hangs leaves its batch to the database.
LEMMA HangTyped ==
  ASSUME Typed, Accounted, NEW m \in Members, Ingester!WriteHangs(m), UNCHANGED hub
  PROVE  Typed' /\ Accounted'
<1>1. /\ Ended(m) /\ Abandoned(m)
      /\ troubles' \in 0..MaxTroubles /\ lossy' \subseteq lossy \cup ToSet(batch[m])
      /\ UNCHANGED <<log, committed, assigned, position, proc, pc, next, last, board, pubsub,
                     ingested, rows, scores, buffer, upsets>>
  BY HangEffect
<1>2. Maps(Readable)' = Maps(Readable)
  BY <1>1 DEF Maps, Readable
<1>3. \A w \in late' : w.batch \in Seq(ingested')
  BY <1>1, LateStays
<1>4. FlusherTyped'
  BY <1>1, <1>2, <1>3, EndedTyped DEF Typed, FlusherTyped
<1>5. lossy' \subseteq ingested
  BY <1>1, HeldIngested DEF Typed, IngesterTyped
<1>. QED
  BY <1>1, <1>4, <1>5, FlusherSide

\* What a write given up changes when it is committed after all.
LEMMA LateEffect ==
  ASSUME Typed, Ingester!LateCommit
  PROVE  \E w \in late :
           /\ w.batch \in Seq(ingested) /\ Stored(w.batch) /\ late' = late \ {w}
           /\ UNCHANGED <<log, committed, assigned, position, proc, pc, next, last, board, pubsub,
                          ingested, lossy, reordered, buffer, flusher, batch, attempt, troubles,
                          upsets>>
<1>1. PICK w \in late : Ingester!Store(w.batch) /\ late' = late \ {w}
  BY DEF Ingester!LateCommit
<1>2. w.batch \in Seq(ingested) /\ Stored(w.batch)
  BY <1>1 DEF Typed, FlusherTyped, Stored, Ingester!Store, ToSet, Ingester!ToSet
<1>. QED
  BY <1>1, <1>2 DEF Ingester!LateCommit, Ingester!group, Ingester!consumer, Ingester!flushing,
     Ingester!redis, Ingester!bounds, Ingester!history

\* A write given up may be committed later.
LEMMA LateTyped ==
  ASSUME Typed, Accounted, Ingester!LateCommit, UNCHANGED hub
  PROVE  Typed' /\ Accounted'
<1>1. PICK w \in late :
        /\ w.batch \in Seq(ingested) /\ Stored(w.batch) /\ late' = late \ {w}
        /\ UNCHANGED <<log, committed, assigned, position, proc, pc, next, last, board, pubsub,
                       ingested, lossy, reordered, buffer, flusher, batch, attempt, troubles,
                       upsets>>
  BY LateEffect
<1>2. rows' \subseteq ingested' /\ scores' \in Maps(Readable)'
  BY <1>1, StoredTyped
<1>3. FlusherTyped'
  BY <1>1, <1>2 DEF Typed, FlusherTyped
<1>4. troubles' \in 0..MaxTroubles /\ lossy' \subseteq ingested
  BY <1>1 DEF Typed, IngesterTyped
<1>. QED
  BY <1>1, <1>3, <1>4, FlusherSide

\* A process that is told to stop or dies while it writes leaves its batch to the database.
LEMMA GivenUpOrNot ==
  ASSUME Typed, NEW m \in Members, Ingester!GivenUpIfWriting(m)
  PROVE  UNCHANGED <<late, reordered>> \/ Abandoned(m)
  BY GivenUpEffect DEF Ingester!GivenUpIfWriting, Abandoned

\* What a SIGTERM changes.
LEMMA StopEffect ==
  ASSUME Typed, NEW m \in Members, Ingester!Stop(m)
  PROVE  /\ proc' = [proc EXCEPT ![m] = "stopping"] /\ upsets' \in 0..MaxUpsets
         /\ UNCHANGED <<late, reordered>> \/ Abandoned(m)
         /\ lossy' = lossy \cup Held(m)
         /\ UNCHANGED <<log, committed, assigned, position, pc, next, last, buffer, flusher, batch,
                        attempt, rows, scores, board, pubsub, troubles, ingested>>
<1>1. UNCHANGED <<late, reordered>> \/ Abandoned(m)
  BY GivenUpOrNot DEF Ingester!Stop
<1>2. upsets' \in 0..MaxUpsets
  BY FeedAssumption DEF Ingester!Stop, Typed, IngesterTyped
<1>. QED
  BY <1>1, <1>2, HeldIngested DEF Ingester!Stop, Ingester!group, Ingester!flushing, Ingester!redis

\* What is left of a process that has ended.
Emptied(m) ==
  /\ proc' = [proc EXCEPT ![m] = "down"] /\ pc' = [pc EXCEPT ![m] = "poll"]
  /\ next' = [next EXCEPT ![m] = 0] /\ last' = [last EXCEPT ![m] = 0]
  /\ buffer' = [buffer EXCEPT ![m] = << >>]

\* What a crash changes.
LEMMA CrashEffect ==
  ASSUME Typed, NEW m \in Members, Ingester!Crash(m)
  PROVE  /\ Emptied(m) /\ Ended(m) /\ upsets' \in 0..MaxUpsets
         /\ assigned' = IF assigned = m THEN NoMember ELSE assigned
         /\ UNCHANGED <<late, reordered>> \/ Abandoned(m)
         /\ lossy' = lossy \cup Held(m)
         /\ UNCHANGED <<log, committed, position, rows, scores, board, pubsub, troubles, ingested>>
<1>1. UNCHANGED <<late, reordered>> \/ Abandoned(m)
  BY GivenUpOrNot DEF Ingester!Crash
<1>2. upsets' \in 0..MaxUpsets
  BY FeedAssumption DEF Ingester!Crash, Typed, IngesterTyped
<1>3. /\ Emptied(m) /\ Ended(m) /\ assigned' = IF assigned = m THEN NoMember ELSE assigned
  BY DEF Ingester!Crash, Ingester!Down, Ingester!EndFlush, Ingester!Released, Emptied, Ended
<1>. QED
  BY <1>1, <1>2, <1>3, HeldIngested DEF Ingester!Crash, Ingester!redis

\* A process that has ended holds nothing.
LEMMA EmptiedTyped ==
  ASSUME Typed, NEW m \in Members, Emptied(m)
  PROVE  /\ proc' \in [Members -> {"running", "stopping", "down"}]
         /\ pc' \in [Members -> {"poll", "handle", "score", "commit", "ended"}]
         /\ next' \in [Members -> Nat] /\ last' \in [Members -> Nat]
         /\ buffer' \in [Members -> Seq(ingested)] /\ buffer'[m] = << >>
         /\ pc'[m] = "poll" /\ next'[m] = 0
         /\ \A o \in Members \ {m} : /\ pc'[o] = pc[o] /\ next'[o] = next[o] /\ last'[o] = last[o]
                                     /\ buffer'[o] = buffer[o]
<1>1. << >> \in Seq(ingested)
  OBVIOUS
<1>. QED
  BY <1>1 DEF Emptied, Typed, IngesterTyped, FlusherTyped

\* What a member has left to ingest does not depend on who owns the partition.
LEMMA AccountStays ==
  ASSUME Accounted, UNCHANGED <<log, committed, position, ingested>>,
         assigned' = assigned \/ assigned' \notin Members,
         \A o \in Members : assigned' = o /\ next[o] # 0 => next'[o] = next[o] /\ last'[o] = last[o]
  PROVE  Accounted'
<1>1. \A e : Ready(e)' <=> Ready(e)
  BY DEF Ready, Readable
<1>2. \A o \in Members : assigned' = o => assigned = o /\ \A e : Left(o, e) => Left(o, e)'
  BY DEF Left
<1>. QED
  BY <1>1, <1>2 DEF Accounted

\* A process that is told to stop keeps what it holds for the moment.
LEMMA StopTyped ==
  ASSUME Typed, Accounted, NEW m \in Members, Ingester!Stop(m), UNCHANGED hub
  PROVE  Typed' /\ Accounted'
<1>1. /\ proc' = [proc EXCEPT ![m] = "stopping"] /\ upsets' \in 0..MaxUpsets
      /\ UNCHANGED <<late, reordered>> \/ Abandoned(m)
      /\ lossy' = lossy \cup Held(m)
      /\ UNCHANGED <<log, committed, assigned, position, pc, next, last, buffer, flusher, batch,
                     attempt, rows, scores, board, pubsub, troubles, ingested>>
  BY StopEffect
<1>2. Maps(Readable)' = Maps(Readable) /\ Readable' = Readable
  BY <1>1 DEF Maps, Readable
<1>3. \A w \in late' : w.batch \in Seq(ingested')
  BY <1>1, LateStays
<1>4. FlusherTyped'
  BY <1>1, <1>2, <1>3 DEF Typed, FlusherTyped
<1>5. IngesterTyped'
  BY <1>1, <1>2, HeldIngested DEF Typed, IngesterTyped
<1>6. Accounted'
  BY <1>1, AccountStays
<1>. QED
  BY <1>1, <1>4, <1>5, <1>6, StoresTyped DEF Typed

\* A process that dies takes its batch of records and its buffer with it.
LEMMA CrashTyped ==
  ASSUME Typed, Accounted, NEW m \in Members, Ingester!Crash(m), UNCHANGED hub
  PROVE  Typed' /\ Accounted'
<1>1. /\ Emptied(m) /\ Ended(m) /\ upsets' \in 0..MaxUpsets
      /\ assigned' = IF assigned = m THEN NoMember ELSE assigned
      /\ UNCHANGED <<late, reordered>> \/ Abandoned(m)
      /\ lossy' = lossy \cup Held(m)
      /\ UNCHANGED <<log, committed, position, rows, scores, board, pubsub, troubles, ingested>>
  BY CrashEffect
<1>2. Maps(Readable)' = Maps(Readable) /\ Readable' = Readable
  BY <1>1 DEF Maps, Readable
<1>3. \A w \in late' : w.batch \in Seq(ingested')
  BY <1>1, LateStays
<1>4. FlusherTyped'
  BY <1>1, <1>2, <1>3, EndedTyped, EmptiedTyped DEF Typed, FlusherTyped
<1>5. IngesterTyped'
  <2>1. lossy' \subseteq ingested /\ assigned' \in Members \cup {NoMember}
    BY <1>1, HeldIngested DEF Typed, IngesterTyped
  <2>. QED
    BY <1>1, <1>2, <2>1, EmptiedTyped DEF Typed, IngesterTyped
<1>6. Accounted'
  <2>1. (assigned' # m /\ assigned' = assigned) \/ assigned' \notin Members
    BY <1>1, FeedAssumption
  <2>2. \A o \in Members \ {m} : next'[o] = next[o] /\ last'[o] = last[o]
    BY <1>1, EmptiedTyped
  <2>. QED
    BY <1>1, <2>1, <2>2, AccountStays
<1>. QED
  BY <1>1, <1>4, <1>5, <1>6, StoresTyped DEF Typed

\* Run returns between batches, and Close once there is nothing left to write.
LEMMA ReturnsTyped ==
  ASSUME Typed, Accounted, NEW m \in Members, Ingester!RunReturns(m) \/ Ingester!CloseReturns(m),
         UNCHANGED hub
  PROVE  Typed' /\ Accounted'
<1>1. UNCHANGED <<log, committed, position, flusher, batch, attempt, rows, scores, late, board,
                  pubsub, troubles, upsets, ingested, lossy>>
  BY DEF Ingester!RunReturns, Ingester!CloseReturns, Ingester!group, Ingester!flushing,
     Ingester!stores, Ingester!redis, Ingester!bounds, Ingester!history
<1>2. Readable' = Readable /\ Maps(Readable)' = Maps(Readable)
  BY <1>1 DEF Maps, Readable
<1>3. CASE Ingester!RunReturns(m)
  <2>1. /\ pc[m] = "poll" /\ pc' = [pc EXCEPT ![m] = "ended"]
        /\ assigned' = IF assigned = m THEN NoMember ELSE assigned
        /\ UNCHANGED <<proc, next, last, buffer>>
    BY <1>3 DEF Ingester!RunReturns, Ingester!Released, Ingester!flushing
  <2>2. FlusherTyped'
    BY <1>1, <2>1, SameFlusher DEF Typed
  <2>3. next[m] = 0 /\ pc'[m] = "ended" /\ \A o \in Members \ {m} : pc'[o] = pc[o]
    BY <2>1 DEF Typed, IngesterTyped
  <2>4. IngesterTyped'
    BY <1>1, <1>2, <2>1, <2>3 DEF Typed, IngesterTyped
  <2>5. Accounted'
    BY <1>1, <2>1, FeedAssumption, AccountStays
  <2>. QED
    BY <1>1, <2>2, <2>4, <2>5, StoresTyped DEF Typed
<1>4. CASE Ingester!CloseReturns(m)
  <2>1. Emptied(m) /\ assigned' = assigned /\ pc[m] = "ended" /\ buffer[m] = << >>
    BY <1>4 DEF Ingester!CloseReturns, Ingester!Down, Emptied, Ingester!group
  <2>2. next[m] = 0
    BY <2>1 DEF Typed, IngesterTyped
  <2>3. FlusherTyped'
    BY <1>1, <1>2, <2>1, EmptiedTyped DEF Typed, FlusherTyped
  <2>4. IngesterTyped'
    BY <1>1, <1>2, <2>1, EmptiedTyped DEF Typed, IngesterTyped
  <2>5. Accounted'
    BY <1>1, <2>1, <2>2, EmptiedTyped, AccountStays
  <2>. QED
    BY <1>1, <2>3, <2>4, <2>5, StoresTyped DEF Typed
<1>. QED
  BY <1>3, <1>4

\* A member that gets the partition resumes at what is committed.
LEMMA AssignTyped ==
  ASSUME Typed, Accounted, NEW m \in Members, Ingester!Assign(m) \/ Ingester!Start(m), UNCHANGED hub
  PROVE  Typed' /\ Accounted'
<1>1. UNCHANGED <<log, committed, pc, next, last, buffer, flusher, batch, attempt, rows, scores,
                  late, board, pubsub, troubles, ingested, lossy>>
  BY DEF Ingester!Assign, Ingester!Start, Ingester!group, Ingester!consumer, Ingester!flushing,
     Ingester!stores, Ingester!redis, Ingester!bounds, Ingester!history
<1>2. Readable' = Readable
  BY <1>1 DEF Readable
<1>3. /\ proc' \in [Members -> {"running", "stopping", "down"}] /\ upsets' \in 0..MaxUpsets
      /\ UNCHANGED <<assigned, position>> \/ (assigned' = m /\ position' = committed)
  <2>1. CASE Ingester!Assign(m)
    BY <2>1, FeedAssumption DEF Ingester!Assign, Ingester!ResumeAt, Ingester!consumer, Typed,
       IngesterTyped
  <2>2. CASE Ingester!Start(m)
    BY <2>2 DEF Ingester!Start, Ingester!group, Ingester!bounds, Typed, IngesterTyped
  <2>. QED
    BY <2>1, <2>2
<1>4. IngesterTyped'
  BY <1>1, <1>2, <1>3 DEF Typed, IngesterTyped
<1>5. \A e : (Ready(e)' <=> Ready(e)) /\ \A o : Left(o, e)' <=> Left(o, e)
  BY <1>1, <1>2 DEF Ready, Left
<1>6. Accounted'
  <2>1. CASE UNCHANGED <<assigned, position>>
    BY <1>1, <1>5, <2>1 DEF Accounted
  <2>2. CASE assigned' = m /\ position' = committed
    BY <1>1, <1>5, <2>2 DEF Accounted
  <2>. QED
    BY <1>3, <2>1, <2>2
<1>. QED
  BY <1>1, <1>4, <1>6, StoresTyped, SameFlusher DEF Typed
-----------------------------------------------------------------------------
(* The hub leaves the log, the board and the ingester alone.                *)

HubBy(c) == Hub!Connect(c) \/ Hub!GoAway(c) \/ Hub!HandlerStep(c)

\* It takes from Redis only by receiving.
LEMMA HubFrame ==
  ASSUME \/ Hub!Receive \/ Hub!HubStep \/ \E c \in Clients : HubBy(c)
  PROVE  UNCHANGED <<log, board>> /\ (pubsub' = pubsub \/ Hub!Receive)
  BY DEF HubBy, Hub!HubStep, Hub!HubRegisters, Hub!HubUnregisters, Hub!HubFansOut, Hub!Receive,
     Hub!Connect, Hub!GoAway, Hub!HandlerStep, Hub!ReadRanking, Hub!ReadDetails, Hub!PutSnapshot,
     Hub!WriteToClient, Hub!WriterEnds, Hub!ReadFails, Hub!Leave

\* What a step of the hub has to keep for its typing and that of the ingester.
LEMMA HubSide ==
  ASSUME Typed, Accounted, UNCHANGED <<log, board, ingester>>, troubles' \in 0..MaxTroubles,
         RedisTyped', HubTyped'
  PROVE  Typed' /\ Accounted'
<1>1. Readable' = Readable /\ Maps(Readable)' = Maps(Readable)
  BY DEF Readable, Maps
<1>2. IngesterTyped' /\ FlusherTyped'
  BY <1>1 DEF Typed, IngesterTyped, FlusherTyped, ingester
<1>3. Accounted'
  BY <1>1 DEF Accounted, Ready, Left, ingester
<1>. QED
  BY <1>2, <1>3 DEF Typed

\* The types do not change with the log and the board.
LEMMA SameTypes ==
  ASSUME UNCHANGED <<log, board>>
  PROVE  /\ Readable' = Readable /\ Maps(Readable)' = Maps(Readable)
         /\ Maps(Entry)' = Maps(Entry) /\ Messages' = Messages
         /\ (RedisTyped /\ pubsub' = pubsub => RedisTyped')
<1>1. Readable' = Readable /\ Entry' = Entry
  BY DEF Readable, Entry
<1>2. Maps(Readable)' = Maps(Readable) /\ Maps(Entry)' = Maps(Entry)
  BY <1>1 DEF Maps
<1>3. Messages' = Messages
  BY <1>1, <1>2 DEF Messages, Hub!Empty
<1>4. RedisTyped /\ pubsub' = pubsub => RedisTyped'
  BY <1>1, <1>2 DEF RedisTyped, Sound
<1>. QED
  BY <1>1, <1>2, <1>3, <1>4

\* Taking from a queue and adding to it.
LEMMA TailOf ==
  ASSUME NEW S, NEW q \in Seq(S), q # << >>
  PROVE  /\ Tail(q) \in Seq(S) /\ Head(q) \in S /\ Head(q) = q[1] /\ Len(q) \in Nat /\ Len(q) >= 1
         /\ Len(Tail(q)) = Len(q) - 1
         /\ DOMAIN q = 1..Len(q) /\ DOMAIN Tail(q) = 1..(Len(q) - 1)
         /\ \A n \in 1..(Len(q) - 1) : Tail(q)[n] = q[n + 1]
  OBVIOUS

\* The positions of a queue that has grown by one.
LEMMA AppendTo ==
  ASSUME NEW S, NEW q \in Seq(S), NEW e \in S
  PROVE  /\ Append(q, e) \in Seq(S) /\ Len(q) \in Nat /\ Len(Append(q, e)) = Len(q) + 1
         /\ DOMAIN q = 1..Len(q) /\ DOMAIN Append(q, e) = 1..(Len(q) + 1)
         /\ \A n \in 1..Len(q) : Append(q, e)[n] = q[n]
         /\ Append(q, e)[Len(q) + 1] = e
  OBVIOUS

\* A publication is queued if there is room, else dropped.
LEMMA ReceiveTyped ==
  ASSUME Typed, Accounted, Hub!Receive, UNCHANGED ingester
  PROVE  Typed' /\ Accounted'
<1> USE FeedAssumption
<1>1. /\ pubsub # << >> /\ pubsub' = Tail(pubsub)
      /\ \/ /\ Len(msgs) < MsgCap /\ msgs' = Append(msgs, Head(pubsub))
            /\ UNCHANGED <<excused, troubles>>
         \/ /\ troubles' = troubles \/ (troubles < MaxTroubles /\ troubles' = troubles + 1)
            /\ excused' = excused \cup Hub!Misled /\ UNCHANGED msgs
      /\ UNCHANGED <<log, board, regQ, unregQ, clients, send, closed, handler, snapshot, writer,
                     gone, view>>
  BY DEF Hub!Receive, Typed, HubTyped
<1>2. /\ Readable' = Readable /\ Maps(Entry)' = Maps(Entry) /\ Messages' = Messages
  BY <1>1, SameTypes
<1>3. /\ pubsub \in Seq(Readable) /\ \A n \in 1..Len(pubsub) : log[pubsub[n]] \in DOMAIN board
      /\ msgs \in Seq(Readable) /\ \A n \in 1..Len(msgs) : log[msgs[n]] \in DOMAIN board
  BY DEF Typed, RedisTyped, HubTyped
<1>4. /\ pubsub' \in Seq(Readable) /\ Len(pubsub') = Len(pubsub) - 1 /\ Len(pubsub) \in Nat
      /\ Head(pubsub) \in Readable /\ log[Head(pubsub)] \in DOMAIN board
      /\ \A n \in 1..(Len(pubsub) - 1) : pubsub'[n] = pubsub[n + 1]
  BY <1>1, <1>3, TailOf
<1>5. RedisTyped'
  BY <1>1, <1>2, <1>3, <1>4 DEF Typed, RedisTyped, Sound
<1>6. /\ msgs' \in Seq(Readable) /\ Len(msgs') <= MsgCap
      /\ \A n \in 1..Len(msgs') : log[msgs'[n]] \in DOMAIN board
  <2>1. Len(msgs) \in Nat /\ Len(msgs) <= MsgCap
    BY DEF Typed, HubTyped
  <2>2. CASE Len(msgs) < MsgCap /\ msgs' = Append(msgs, Head(pubsub))
    BY <1>3, <1>4, <2>1, <2>2, AppendTo
  <2>3. CASE UNCHANGED msgs
    BY <1>3, <2>1, <2>3
  <2>. QED
    BY <1>1, <2>2, <2>3
<1>7. excused' \subseteq Clients
  BY <1>1 DEF Typed, HubTyped, Hub!Misled
<1>8. HubTyped'
  BY <1>1, <1>2, <1>6, <1>7 DEF Typed, HubTyped
<1>9. troubles' \in 0..MaxTroubles
  BY <1>1 DEF Typed, IngesterTyped
<1>. QED
  BY <1>1, <1>5, <1>8, <1>9, HubSide

\* The hub's goroutine moves what it finds, within the capacities.
LEMMA HubStepTyped ==
  ASSUME Typed, Accounted, Hub!HubStep, UNCHANGED ingester
  PROVE  Typed' /\ Accounted'
<1> USE FeedAssumption
<1>1. UNCHANGED <<log, board, pubsub, troubles, handler, snapshot, writer, gone, view>>
  BY DEF Hub!HubStep, Hub!HubRegisters, Hub!HubUnregisters, Hub!HubFansOut
<1>2. /\ Readable' = Readable /\ Maps(Entry)' = Maps(Entry) /\ Messages' = Messages
      /\ RedisTyped'
  BY <1>1, SameTypes DEF Typed
<1>3. troubles' \in 0..MaxTroubles
  BY <1>1 DEF Typed, IngesterTyped
<1>4. CASE Hub!HubRegisters
  <2>1. /\ regQ # << >> /\ regQ' = Tail(regQ) /\ clients' = clients \cup {Head(regQ)}
        /\ UNCHANGED <<msgs, unregQ, send, closed, excused>>
    BY <1>4 DEF Hub!HubRegisters
  <2>2. regQ' \in Seq(Clients) /\ Len(regQ') <= RegCap /\ clients' \subseteq Clients
    BY <2>1, TailOf DEF Typed, HubTyped
  <2>3. HubTyped'
    BY <1>1, <1>2, <2>1, <2>2 DEF Typed, HubTyped
  <2>. QED
    BY <1>1, <1>2, <1>3, <2>3, HubSide
<1>5. CASE Hub!HubUnregisters
  <2>1. /\ unregQ # << >> /\ unregQ' = Tail(unregQ) /\ clients' \subseteq clients
        /\ closed' \in {closed, closed \cup {Head(unregQ)}}
        /\ UNCHANGED <<msgs, regQ, send, excused>>
    BY <1>5 DEF Hub!HubUnregisters, Hub!ClosedAfter
  <2>2. /\ unregQ' \in Seq(Clients) /\ Len(unregQ') <= RegCap
        /\ closed' \subseteq Clients /\ clients' \subseteq Clients
    <3>1. unregQ \in Seq(Clients) /\ Len(unregQ) <= RegCap /\ closed \subseteq Clients
      BY DEF Typed, HubTyped
    <3>2. /\ Tail(unregQ) \in Seq(Clients) /\ Head(unregQ) \in Clients
          /\ Len(Tail(unregQ)) = Len(unregQ) - 1 /\ Len(unregQ) \in Nat
      BY <2>1, <3>1, TailOf
    <3>. QED
      BY <2>1, <3>1, <3>2 DEF Typed, HubTyped
  <2>3. HubTyped'
    BY <1>1, <1>2, <2>1, <2>2 DEF Typed, HubTyped
  <2>. QED
    BY <1>1, <1>2, <1>3, <2>3, HubSide
<1>6. CASE Hub!HubFansOut
  <2>1. /\ msgs # << >> /\ msgs' = Tail(msgs)
        /\ send' = [c \in Clients |->
             IF c \in clients /\ Len(send[c]) < SendCap
               THEN Append(send[c], Hub!Update(Head(msgs))) ELSE send[c]]
        /\ excused' = excused \cup {c \in clients : ~Hub!Room(c)} \cup Hub!ToSet(regQ)
        /\ UNCHANGED <<regQ, unregQ, clients, closed>>
    BY <1>6 DEF Hub!HubFansOut, Hub!Receives, Hub!Room
  <2>2. /\ msgs' \in Seq(Readable) /\ Head(msgs) \in Readable /\ Len(msgs') <= MsgCap
        /\ \A n \in 1..Len(msgs') : log[msgs'[n]] \in DOMAIN board
    BY <2>1, TailOf DEF Typed, HubTyped
  <2>3. Hub!Update(Head(msgs)) \in Messages
    BY <2>2 DEF Hub!Update, Messages
  <2>4. send' \in [Clients -> Seq(Messages)] /\ \A c \in Clients : Len(send'[c]) <= SendCap
    BY <2>1, <2>3, AppendTo DEF Typed, HubTyped
  <2>5. excused' \subseteq Clients
    BY <2>1 DEF Typed, HubTyped, Hub!ToSet
  <2>6. HubTyped'
    BY <1>1, <1>2, <2>1, <2>2, <2>4, <2>5 DEF Typed, HubTyped
  <2>. QED
    BY <1>1, <1>2, <1>3, <2>6, HubSide
<1>. QED
  BY <1>4, <1>5, <1>6 DEF Hub!HubStep

\* A visitor comes and goes.
LEMMA VisitorTyped ==
  ASSUME Typed, Accounted, UNCHANGED ingester, NEW c \in Clients,
         Hub!Connect(c) \/ Hub!GoAway(c) \/ Hub!ReadFails(c) \/ Hub!Leave(c) \/ Hub!WriterEnds(c)
  PROVE  Typed' /\ Accounted'
<1> USE FeedAssumption
<1>1. UNCHANGED <<log, board, pubsub, troubles, msgs, clients, send, closed, snapshot, view, excused>>
  BY DEF Hub!Connect, Hub!GoAway, Hub!ReadFails, Hub!Leave, Hub!WriterEnds
<1>2. /\ Readable' = Readable /\ Maps(Entry)' = Maps(Entry) /\ Messages' = Messages
      /\ RedisTyped'
  BY <1>1, SameTypes DEF Typed
<1>3. troubles' \in 0..MaxTroubles
  BY <1>1 DEF Typed, IngesterTyped
<1>4. /\ handler' \in [Clients -> {"none", "rank", "details", "put", "serving", "leaving", "left"}]
      /\ writer' \in [Clients -> {"none", "up", "gone"}] /\ gone' \subseteq Clients
      /\ \A d \in Clients : handler'[d] \in {"details", "put"} => handler[d] = handler'[d]
  BY DEF Hub!Connect, Hub!GoAway, Hub!ReadFails, Hub!Leave, Hub!WriterEnds, Typed, HubTyped
<1>5. regQ' \in Seq(Clients) /\ Len(regQ') <= RegCap
  <2>1. regQ' = regQ \/ (Len(regQ) < RegCap /\ regQ' = Append(regQ, c))
    BY DEF Hub!Connect, Hub!GoAway, Hub!ReadFails, Hub!Leave, Hub!WriterEnds
  <2>2. regQ \in Seq(Clients) /\ Len(regQ) \in Nat /\ Len(regQ) <= RegCap
    BY DEF Typed, HubTyped
  <2>3. CASE Len(regQ) < RegCap /\ regQ' = Append(regQ, c)
    BY <2>2, <2>3
  <2>. QED
    BY <2>1, <2>2, <2>3
<1>6. unregQ' \in Seq(Clients) /\ Len(unregQ') <= RegCap
  <2>1. unregQ' = unregQ \/ (Len(unregQ) < RegCap /\ unregQ' = Append(unregQ, c))
    BY DEF Hub!Connect, Hub!GoAway, Hub!ReadFails, Hub!Leave, Hub!WriterEnds
  <2>2. unregQ \in Seq(Clients) /\ Len(unregQ) \in Nat /\ Len(unregQ) <= RegCap
    BY DEF Typed, HubTyped
  <2>3. CASE Len(unregQ) < RegCap /\ unregQ' = Append(unregQ, c)
    BY <2>2, <2>3
  <2>. QED
    BY <2>1, <2>2, <2>3
<1>7. HubTyped'
  BY <1>1, <1>2, <1>4, <1>5, <1>6 DEF Typed, HubTyped
<1>. QED
  BY <1>1, <1>2, <1>3, <1>7, HubSide

\* A snapshot is taken from the board, in two reads.
LEMMA ReadTyped ==
  ASSUME Typed, Accounted, UNCHANGED ingester, NEW c \in Clients,
         Hub!ReadRanking(c) \/ Hub!ReadDetails(c)
  PROVE  Typed' /\ Accounted'
<1> USE FeedAssumption
<1>1. UNCHANGED <<log, board, pubsub, msgs, regQ, unregQ, clients, send, closed, gone, view>>
  BY DEF Hub!ReadRanking, Hub!ReadDetails
<1>2. /\ Readable' = Readable /\ Maps(Entry)' = Maps(Entry) /\ Messages' = Messages
      /\ RedisTyped' /\ board \in Maps(Readable)
  BY <1>1, SameTypes DEF Typed, RedisTyped
<1>3. troubles' \in 0..MaxTroubles
  <2>1. troubles \in 0..MaxTroubles
    BY DEF Typed, IngesterTyped
  <2>2. troubles' = troubles \/ (troubles < MaxTroubles /\ troubles' = troubles + 1)
    BY DEF Hub!ReadRanking, Hub!ReadDetails
  <2>. QED
    BY <2>1, <2>2
<1>4. /\ handler' \in [Clients -> {"none", "rank", "details", "put", "serving", "leaving", "left"}]
      /\ writer' \in [Clients -> {"none", "up", "gone"}] /\ excused' \subseteq Clients
  <2>1. CASE Hub!ReadRanking(c)
    BY <2>1 DEF Hub!ReadRanking, Typed, HubTyped
  <2>2. CASE Hub!ReadDetails(c)
    <3>1. excused' \subseteq excused \cup {c}
      BY <2>2 DEF Hub!ReadDetails
    <3>. QED
      BY <2>2, <3>1 DEF Hub!ReadDetails, Typed, HubTyped
  <2>. QED
    BY <2>1, <2>2
<1>5. snapshot' \in [Clients -> Maps(Entry)]
  <2>0. board \in Maps(Entry)
    BY <1>2, MapsGrow DEF Entry
  <2>1. CASE Hub!ReadRanking(c)
    BY <2>0, <2>1 DEF Hub!ReadRanking, Typed, HubTyped
  <2>2. CASE Hub!ReadDetails(c)
    <3>1. PICK missing \in SUBSET DOMAIN snapshot[c] :
            snapshot' = [snapshot EXCEPT ![c] =
              [s \in DOMAIN snapshot[c] |-> IF s \in missing THEN Hub!Stripped ELSE board[s]]]
      BY <2>2 DEF Hub!ReadDetails, Typed, HubTyped
    <3>. DEFINE read == [s \in DOMAIN snapshot[c] |->
                           IF s \in missing THEN Hub!Stripped ELSE board[s]]
    <3>2. read \in Maps(Entry)
      <4>1. DOMAIN snapshot[c] \subseteq DOMAIN board
        BY <2>2 DEF Hub!ReadDetails, Typed, HubTyped
      <4>2. DOMAIN board \subseteq Submissions /\ \A s \in DOMAIN board : board[s] \in Entry
        BY <2>0, MapIs
      <4>3. Hub!Stripped \in Entry
        BY DEF Entry
      <4>4. /\ DOMAIN read \subseteq Submissions /\ \A s \in DOMAIN read : read[s] \in Entry
            /\ read \in [DOMAIN read -> Entry]
        BY <4>1, <4>2, <4>3
      <4>. QED
        BY <4>4, MapIs
    <3>. QED
      BY <3>1, <3>2 DEF Typed, HubTyped
  <2>. QED
    BY <2>1, <2>2
<1>6. \A d \in Clients :
        handler'[d] \in {"details", "put"} => DOMAIN snapshot'[d] \subseteq DOMAIN board
  <2>1. \A d \in Clients \ {c} : handler'[d] = handler[d] /\ snapshot'[d] = snapshot[d]
    BY DEF Hub!ReadRanking, Hub!ReadDetails, Typed, HubTyped
  <2>2. handler'[c] \in {"details", "put"} => DOMAIN snapshot'[c] \subseteq DOMAIN board
    <3>1. CASE Hub!ReadRanking(c)
      BY <3>1 DEF Hub!ReadRanking, Typed, HubTyped
    <3>2. CASE Hub!ReadDetails(c)
      BY <3>2 DEF Hub!ReadDetails, Typed, HubTyped
    <3>. QED
      BY <3>1, <3>2
  <2>. QED
    BY <2>1, <2>2 DEF Typed, HubTyped
<1>7. HubTyped'
  BY <1>1, <1>2, <1>4, <1>5, <1>6 DEF Typed, HubTyped
<1>. QED
  BY <1>1, <1>2, <1>3, <1>7, HubSide

\* What a page shows after a message.
LEMMA ShownTyped ==
  ASSUME Typed, NEW v \in Maps(Entry), NEW t \in Messages
  PROVE  Hub!Shown(v, t) \in Maps(Entry)
<1>1. CASE t.type = "snapshot"
  BY <1>1 DEF Messages, Hub!Shown
<1>2. CASE t.type # "snapshot"
  <2>1. t.event \in Entry /\ log[t.event] \in Submissions
    BY <1>2 DEF Messages, Entry, Typed, IngesterTyped, Readable
  <2>2. DOMAIN v \subseteq Submissions /\ \A s \in DOMAIN v : v[s] \in Entry
    BY MapIs
  <2>3. Hub!Shown(v, t) = [s \in DOMAIN v \cup {log[t.event]} |->
                             IF s = log[t.event] THEN t.event ELSE v[s]]
    BY <1>2 DEF Hub!Shown
  <2>4. /\ DOMAIN Hub!Shown(v, t) = DOMAIN v \cup {log[t.event]}
        /\ Hub!Shown(v, t) \in [DOMAIN v \cup {log[t.event]} -> Entry]
    BY <2>1, <2>2, <2>3
  <2>. QED
    BY <2>1, <2>2, <2>4, MapIs
<1>. QED
  BY <1>1, <1>2

\* A channel takes a snapshot, or gives a message to the page.
LEMMA ClientTyped ==
  ASSUME Typed, Accounted, UNCHANGED ingester, NEW c \in Clients,
         Hub!PutSnapshot(c) \/ Hub!WriteToClient(c)
  PROVE  Typed' /\ Accounted'
<1> USE FeedAssumption
<1>1. UNCHANGED <<log, board, pubsub, troubles, msgs, regQ, unregQ, clients, closed, snapshot, gone>>
  BY DEF Hub!PutSnapshot, Hub!WriteToClient
<1>2. /\ Readable' = Readable /\ Maps(Entry)' = Maps(Entry) /\ Messages' = Messages
      /\ RedisTyped'
  BY <1>1, SameTypes DEF Typed
<1>3. troubles' \in 0..MaxTroubles
  BY <1>1 DEF Typed, IngesterTyped
<1>4. /\ handler' \in [Clients -> {"none", "rank", "details", "put", "serving", "leaving", "left"}]
      /\ writer' \in [Clients -> {"none", "up", "gone"}] /\ excused' \subseteq Clients
      /\ \A d \in Clients : handler'[d] \in {"details", "put"} => handler[d] = handler'[d]
  BY DEF Hub!PutSnapshot, Hub!WriteToClient, Typed, HubTyped
<1>5. /\ send[c] \in Seq(Messages) /\ Len(send[c]) \in Nat /\ Len(send[c]) <= SendCap
      /\ snapshot[c] \in Maps(Entry) /\ view[c] \in Maps(Entry)
      /\ send \in [Clients -> Seq(Messages)] /\ view \in [Clients -> Maps(Entry)]
      /\ \A d \in Clients : Len(send[d]) <= SendCap
  BY DEF Typed, HubTyped
<1>6. CASE Hub!PutSnapshot(c)
  <2>1. view' = view /\ send' \in {send, [send EXCEPT ![c] = Append(@, Hub!Snapshot(snapshot[c]))]}
        /\ (send' # send => Len(send[c]) < SendCap)
    BY <1>6 DEF Hub!PutSnapshot, Hub!Room
  <2>2. Hub!Snapshot(snapshot[c]) \in Messages
    BY <1>5 DEF Hub!Snapshot, Messages
  <2>3. send' \in [Clients -> Seq(Messages)] /\ \A d \in Clients : Len(send'[d]) <= SendCap
    <3>1. CASE send' = send
      BY <1>5, <3>1
    <3>2. CASE send' = [send EXCEPT ![c] = Append(@, Hub!Snapshot(snapshot[c]))] /\ send' # send
      <4>1. Len(send[c]) < SendCap
        BY <2>1, <3>2
      <4>2. /\ Append(send[c], Hub!Snapshot(snapshot[c])) \in Seq(Messages)
            /\ Len(Append(send[c], Hub!Snapshot(snapshot[c]))) <= SendCap
        BY <1>5, <2>2, <4>1, AppendTo
      <4>. QED
        BY <1>5, <3>2, <4>2
    <3>. QED
      BY <2>1, <3>1, <3>2
  <2>4. HubTyped'
    BY <1>1, <1>2, <1>4, <2>1, <2>3 DEF Typed, HubTyped
  <2>. QED
    BY <1>1, <1>2, <1>3, <2>4, HubSide
<1>7. CASE Hub!WriteToClient(c)
  <2>1. /\ send[c] # << >> /\ send' = [send EXCEPT ![c] = Tail(@)]
        /\ view' = [view EXCEPT ![c] = Hub!Shown(@, Head(send[c]))]
    BY <1>7 DEF Hub!WriteToClient
  <2>2. /\ Tail(send[c]) \in Seq(Messages) /\ Len(Tail(send[c])) <= SendCap
        /\ Head(send[c]) \in Messages
    BY <1>5, <2>1, TailOf
  <2>3. Hub!Shown(view[c], Head(send[c])) \in Maps(Entry)
    BY <1>5, <2>2, ShownTyped
  <2>4. /\ send' \in [Clients -> Seq(Messages)] /\ \A d \in Clients : Len(send'[d]) <= SendCap
        /\ view' \in [Clients -> Maps(Entry)]
    BY <1>5, <2>1, <2>2, <2>3
  <2>5. HubTyped'
    BY <1>1, <1>2, <1>4, <2>4 DEF Typed, HubTyped
  <2>. QED
    BY <1>1, <1>2, <1>3, <2>5, HubSide
<1>. QED
  BY <1>6, <1>7

(* Every step keeps the types, and the offsets accounted for.               *)
LEMMA TypedNext ==
  ASSUME Typed, Accounted, [Next]_vars
  PROVE  Typed' /\ Accounted'
<1>1. CASE \E s \in Submissions \cup {Malformed} : EmitMetrics(s)
  BY <1>1, EmitTyped
<1>2. ASSUME NEW m \in Members, ConsumerStep(m)
      PROVE  Typed' /\ Accounted'
  BY <1>2, PollTyped, SkipTyped, HandleTyped, UpdateTyped, CommitTyped, ReturnsTyped, AssignTyped
     DEF ConsumerStep, Ingester!ConsumerStep
<1>3. ASSUME NEW m \in Members, FlusherStep(m)
      PROVE  Typed' /\ Accounted'
  BY <1>3, TakeTyped, WriteTyped DEF FlusherStep, Ingester!FlusherStep
<1>4. ASSUME NEW m \in Members, Disturbance(m) \/ Assign(m)
      PROVE  Typed' /\ Accounted'
  BY <1>4, HangTyped, StopTyped, CrashTyped, AssignTyped
     DEF Disturbance, Ingester!Disturbance, Assign
<1>8. CASE LateCommit
  BY <1>8, LateTyped DEF LateCommit
<1>5. CASE Receive \/ HubStep
  BY <1>5, ReceiveTyped, HubStepTyped DEF Receive, HubStep
<1>6. ASSUME NEW c \in Clients, HandlerStep(c) \/ Visitor(c)
      PROVE  Typed' /\ Accounted'
  BY <1>6, VisitorTyped, ReadTyped, ClientTyped DEF HandlerStep, Visitor, Hub!HandlerStep
<1>7. CASE UNCHANGED vars
  <2>1. UNCHANGED <<log, board, pubsub, hub, ingester, troubles>>
    BY <1>7 DEF vars, redis
  <2>2. HubTyped' /\ RedisTyped'
    BY <2>1, StoresTyped
  <2>3. troubles' \in 0..MaxTroubles
    BY <2>1 DEF Typed, IngesterTyped
  <2>. QED
    BY <2>1, <2>2, <2>3, HubSide
<1>. QED
  BY <1>1, <1>2, <1>3, <1>4, <1>5, <1>6, <1>7, <1>8 DEF Next
-----------------------------------------------------------------------------
(* The order in which the ingester writes.                                  *)

\* At first nothing is written.
LEMMA OrderInit ==
  ASSUME Init
  PROVE  Ordered
<1>1. /\ buffer = [m \in Members |-> << >>] /\ batch = [m \in Members |-> << >>]
      /\ rows = {} /\ late = {}
  BY DEF Init, Ingester!InitIngester, Ingester!Always
<1>2. \A m \in Members : /\ DOMAIN buffer[m] = {} /\ DOMAIN batch[m] = {}
                         /\ ToSet(buffer[m]) = {} /\ ToSet(batch[m]) = {}
  BY <1>1 DEF ToSet
<1>. QED
  BY <1>1, <1>2 DEF Ordered, Rising, Held

\* What has been ingested is known by its offset.
LEMMA OffsetsAre ==
  ASSUME Typed
  PROVE  /\ ingested \subseteq Nat /\ rows \subseteq ingested
         /\ \A m \in Members :
              /\ buffer[m] \in Seq(ingested) /\ batch[m] \in Seq(ingested)
              /\ Held(m) \subseteq ingested
              /\ ToSet(buffer[m]) \subseteq ingested /\ ToSet(batch[m]) \subseteq ingested
         /\ \A w \in late : w.batch \in Seq(ingested) /\ ToSet(w.batch) \subseteq ingested
<1>1. /\ ingested \subseteq Readable /\ rows \subseteq ingested
      /\ \A m \in Members : buffer[m] \in Seq(ingested) /\ batch[m] \in Seq(ingested)
      /\ \A w \in late : w.batch \in Seq(ingested)
  BY DEF Typed, IngesterTyped, FlusherTyped
<1>2. ingested \subseteq Nat
  BY <1>1 DEF Readable
<1>3. \A q \in Seq(ingested) : ToSet(q) \subseteq ingested
  BY DEF ToSet
<1>. QED
  BY <1>1, <1>2, <1>3 DEF Held

\* What is in step stays so: the log only grows, and so does what is reordered.
LogStays == (\A e \in ingested : log'[e] = log[e]) /\ reordered \subseteq reordered'

StillInStep(d, e) == log'[d] = log'[e] /\ log'[e] \notin reordered' => d <= e

\* It does.
LEMMA InStepStays ==
  ASSUME LogStays, NEW d \in ingested, NEW e \in ingested, InStep(d, e)
  PROVE  StillInStep(d, e)
  BY DEF LogStays, InStep, StillInStep

\* So does a rising sequence.
LEMMA RisingStays ==
  ASSUME LogStays, NEW q \in Seq(ingested), Rising(q), NEW p, p = q \/ p = << >>
  PROVE  /\ \A i, j \in DOMAIN p : i < j => StillInStep(p[i], p[j])
         /\ ToSet(p) \subseteq ToSet(q)
<1>1. CASE p = q
  <2>1. \A i \in DOMAIN q : q[i] \in ingested
    OBVIOUS
  <2>2. \A i, j \in DOMAIN q : i < j => InStep(q[i], q[j])
    BY DEF Rising
  <2>. QED
    BY <1>1, <2>1, <2>2, InStepStays
<1>2. CASE p = << >>
  <2>1. DOMAIN p = {}
    BY <1>2
  <2>. QED
    BY <2>1 DEF ToSet
<1>. QED
  BY <1>1, <1>2

\* A member holds what it held, or less.
Shrinks(m) ==
  /\ buffer'[m] = buffer[m] \/ buffer'[m] = << >>
  /\ batch'[m] = batch[m] \/ batch'[m] = << >>

\* What members that hold no more than before hold is ordered as before.
LEMMA HeldOrder ==
  ASSUME Typed, Ordered, LogStays, \A m \in Members : Shrinks(m)
  PROVE  /\ \A m \in Members : (Rising(buffer[m]) /\ Rising(batch[m]))'
         /\ \A m \in Members : /\ ToSet(buffer'[m]) \subseteq ToSet(buffer[m])
                               /\ ToSet(batch'[m]) \subseteq ToSet(batch[m])
                               /\ Held(m)' \subseteq Held(m)
         /\ \A m \in Members :
              \A d \in ToSet(batch'[m]), e \in ToSet(buffer'[m]) : StillInStep(d, e)
         /\ \A m, o \in Members : m # o =>
              \A d \in Held(m)', e \in Held(o)' : log'[d] = log'[e] => log'[e] \in reordered'
<1>1. ASSUME NEW m \in Members
      PROVE  /\ (Rising(buffer[m]) /\ Rising(batch[m]))'
             /\ ToSet(buffer'[m]) \subseteq ToSet(buffer[m])
             /\ ToSet(batch'[m]) \subseteq ToSet(batch[m])
             /\ Held(m)' \subseteq Held(m)
  <2>1. /\ buffer[m] \in Seq(ingested) /\ batch[m] \in Seq(ingested)
        /\ Rising(buffer[m]) /\ Rising(batch[m]) /\ Shrinks(m)
    BY OffsetsAre DEF Ordered
  <2>2. /\ \A i, j \in DOMAIN buffer'[m] : i < j => StillInStep(buffer'[m][i], buffer'[m][j])
        /\ ToSet(buffer'[m]) \subseteq ToSet(buffer[m])
    BY <2>1, RisingStays DEF Shrinks
  <2>3. /\ \A i, j \in DOMAIN batch'[m] : i < j => StillInStep(batch'[m][i], batch'[m][j])
        /\ ToSet(batch'[m]) \subseteq ToSet(batch[m])
    BY <2>1, RisingStays DEF Shrinks
  <2>4. (Rising(buffer[m]) /\ Rising(batch[m]))'
    BY <2>2, <2>3 DEF Rising, InStep, StillInStep
  <2>5. Held(m)' \subseteq Held(m)
    BY <2>2, <2>3 DEF Held
  <2>. QED
    BY <2>2, <2>3, <2>4, <2>5
<1>2. ASSUME NEW m \in Members, NEW d \in ToSet(batch'[m]), NEW e \in ToSet(buffer'[m])
      PROVE  StillInStep(d, e)
  <2>1. d \in ingested /\ e \in ingested /\ InStep(d, e)
    BY <1>1, OffsetsAre DEF Ordered
  <2>. QED
    BY <2>1, InStepStays
<1>3. ASSUME NEW m \in Members, NEW o \in Members, m # o, NEW d \in Held(m)', NEW e \in Held(o)',
             log'[d] = log'[e]
      PROVE  log'[e] \in reordered'
  <2>1. d \in ingested /\ e \in ingested /\ d \in Held(m) /\ e \in Held(o)
    BY <1>1, OffsetsAre
  <2>. QED
    BY <1>3, <2>1 DEF Ordered, LogStays
<1>. QED
  BY <1>1, <1>2, <1>3

\* What is stored or may yet be, when nothing new is stored.
LEMMA OrderKept ==
  ASSUME Typed, Ordered, LogStays, \A m \in Members : Shrinks(m), UNCHANGED <<rows, scores>>,
         late' \subseteq late \/ \E m \in Members : Abandoned(m)
  PROVE  Ordered'
<1>1. \A m \in Members : (Rising(buffer[m]) /\ Rising(batch[m]))'
  BY HeldOrder
<1>2. \A m \in Members : \A d \in ToSet(batch[m])', e \in ToSet(buffer[m])' : StillInStep(d, e)
  BY HeldOrder
<1>3. \A m \in Members : \A d \in rows', e \in Held(m)' : StillInStep(d, e)
  <2>1. ASSUME NEW m \in Members, NEW d \in rows, NEW e \in Held(m)'
        PROVE  StillInStep(d, e)
    <3>1. d \in ingested /\ e \in ingested /\ InStep(d, e)
      BY HeldOrder, OffsetsAre DEF Ordered
    <3>. QED
      BY <3>1, InStepStays
  <2>. QED
    BY <2>1
<1>4. \A m, o \in Members : m # o =>
        \A d \in Held(m)', e \in Held(o)' : log'[d] = log'[e] => log'[e] \in reordered'
  BY HeldOrder
<1>5. \A w \in late' : \A e \in ToSet(w.batch) : log'[e] \in reordered'
  <2>1. ASSUME NEW w \in late, NEW e \in ToSet(w.batch)
        PROVE  log'[e] \in reordered'
    <3>1. e \in ingested /\ log[e] \in reordered
      BY OffsetsAre DEF Ordered
    <3>. QED
      BY <3>1 DEF LogStays
  <2>2. ASSUME NEW m \in Members, Abandoned(m)
        PROVE  \A w \in late' : \A e \in ToSet(w.batch) : log'[e] \in reordered'
    <3>1. PICK v : /\ late' = late \cup {v} /\ v.batch = batch[m]
                   /\ reordered' = reordered \cup {log[e] : e \in ToSet(batch[m])}
      BY <2>2 DEF Abandoned
    <3>2. \A e \in ToSet(v.batch) : log'[e] \in reordered'
      <4>1. \A e \in ToSet(batch[m]) : log'[e] = log[e]
        BY OffsetsAre DEF LogStays
      <4>. QED
        BY <3>1, <4>1
    <3>. QED
      BY <2>1, <3>1, <3>2
  <2>. QED
    BY <2>1, <2>2
<1>6. \A e \in rows' :
        log'[e] \in DOMAIN scores' /\ (scores'[log'[e]] >= e \/ log'[e] \in reordered')
  <2>1. \A e \in rows : log'[e] = log[e]
    BY OffsetsAre DEF LogStays
  <2>. QED
    BY <2>1 DEF Ordered, LogStays
<1>. QED
  BY <1>1, <1>2, <1>3, <1>4, <1>5, <1>6 DEF Ordered, InStep, StillInStep

\* The flusher takes what is after the batch it has written.
LEMMA TakeOrder ==
  ASSUME Typed, Ordered, NEW m \in Members, Ingester!TakeBuffer(m)
  PROVE  Ordered'
<1>1. /\ flusher[m] = "wait" /\ batch' = [batch EXCEPT ![m] = buffer[m]]
      /\ buffer' = [buffer EXCEPT ![m] = << >>]
      /\ UNCHANGED <<log, rows, scores, late, reordered>>
  BY DEF Ingester!TakeBuffer, Ingester!stores, Ingester!history
<1>2. /\ batch'[m] = buffer[m] /\ buffer'[m] = << >> /\ batch[m] = << >>
      /\ \A o \in Members \ {m} : batch'[o] = batch[o] /\ buffer'[o] = buffer[o]
  BY <1>1 DEF Typed, FlusherTyped
<1>3. ToSet(batch[m]) = {} /\ ToSet(buffer'[m]) = {} /\ DOMAIN buffer'[m] = {}
  BY <1>2 DEF ToSet
<1>4. \A o \in Members : Held(o)' = Held(o)
  BY <1>2, <1>3 DEF Held
<1>5. \A d, e : InStep(d, e)' <=> InStep(d, e)
  BY <1>1 DEF InStep
<1>6. \A o \in Members : Rising(buffer[o])' /\ Rising(batch[o])'
  <2>1. Rising(buffer[m])' /\ Rising(batch[m])'
    BY <1>2, <1>3, <1>5 DEF Ordered, Rising
  <2>2. \A o \in Members \ {m} : Rising(buffer[o])' /\ Rising(batch[o])'
    BY <1>2, <1>5 DEF Ordered, Rising
  <2>. QED
    BY <2>1, <2>2
<1>7. \A o \in Members : \A d \in ToSet(batch[o])', e \in ToSet(buffer[o])' : InStep(d, e)'
  <2>1. \A o \in Members \ {m} : ToSet(batch'[o]) = ToSet(batch[o]) /\
                                 ToSet(buffer'[o]) = ToSet(buffer[o])
    BY <1>2
  <2>. QED
    BY <1>3, <1>5, <2>1 DEF Ordered
<1>. QED
  BY <1>1, <1>4, <1>5, <1>6, <1>7 DEF Ordered

\* An event that is not out of order comes after all that has been ingested of its
\* submission, and no other member holds any of it.
LEMMA HandleOrder ==
  ASSUME Typed, Ordered, NEW m \in Members, Ingester!HandleEvent(m)
  PROVE  Ordered'
<1>0. PICK e : e = next[m]
  OBVIOUS
<1>1. /\ e \in Readable /\ buffer' = [buffer EXCEPT ![m] = Append(buffer[m], e)]
      /\ ingested' = ingested \cup {e}
      /\ reordered' = IF Ingester!OutOfOrder(m, e) THEN reordered \cup {log[e]} ELSE reordered
      /\ UNCHANGED <<log, batch, rows, scores, late>>
  BY <1>0, HandleEffect
<1>2. LogStays /\ e \in Nat
  BY <1>1 DEF LogStays, Readable
<1>3. \A f \in ingested : StillInStep(f, e)
  <2>1. \A f \in ingested : log[f] = log[e] /\ f > e => log[e] \in reordered'
    BY <1>1 DEF Ingester!OutOfOrder
  <2>2. ingested \subseteq Nat
    BY OffsetsAre
  <2>. QED
    BY <1>1, <1>2, <2>1, <2>2 DEF StillInStep
<1>4. \A o \in Members \ {m} : \A d \in Held(o) : log[d] = log[e] => log[e] \in reordered'
  <2>1. ASSUME NEW o \in Members \ {m}, NEW d \in Held(o), log[d] = log[e]
        PROVE  log[e] \in reordered'
    <3>1. log[e] \in Ingester!Of(Ingester!Held(o))
      BY <2>1, HeldIngested DEF Ingester!Of
    <3>. QED
      BY <1>1, <3>1 DEF Ingester!OutOfOrder
  <2>. QED
    BY <2>1
<1>5. /\ buffer[m] \in Seq(ingested) /\ buffer'[m] = Append(buffer[m], e)
      /\ \A o \in Members \ {m} : buffer'[o] = buffer[o]
  BY <1>1 DEF Typed, FlusherTyped
<1>6. /\ Len(buffer[m]) \in Nat /\ DOMAIN buffer[m] = 1..Len(buffer[m])
      /\ DOMAIN buffer'[m] = 1..(Len(buffer[m]) + 1) /\ buffer'[m][Len(buffer[m]) + 1] = e
      /\ \A n \in 1..Len(buffer[m]) : buffer'[m][n] = buffer[m][n] /\ buffer[m][n] \in ingested
  BY <1>5
<1>7. ToSet(buffer'[m]) = ToSet(buffer[m]) \cup {e}
  BY <1>6 DEF ToSet
<1>8. Held(m)' = Held(m) \cup {e} /\ \A o \in Members \ {m} : Held(o)' = Held(o)
  BY <1>1, <1>5, <1>7 DEF Held
<1>9. \A o \in Members : Rising(buffer[o])' /\ Rising(batch[o])'
  <2>1. \A o \in Members : \A q \in {buffer[o], batch[o]} :
          \A i, j \in DOMAIN q : i < j => StillInStep(q[i], q[j])
    BY <1>2, OffsetsAre, RisingStays DEF Ordered
  <2>2. ASSUME NEW i \in DOMAIN buffer'[m], NEW j \in DOMAIN buffer'[m], i < j
        PROVE  StillInStep(buffer'[m][i], buffer'[m][j])
    <3>1. i \in 1..Len(buffer[m])
      BY <1>6, <2>2
    <3>2. CASE j \in 1..Len(buffer[m])
      BY <1>6, <2>1, <2>2, <3>1, <3>2
    <3>3. CASE j = Len(buffer[m]) + 1
      BY <1>3, <1>6, <3>1, <3>3
    <3>. QED
      BY <1>6, <3>2, <3>3
  <2>3. Rising(buffer[m])'
    BY <2>2 DEF Rising, InStep, StillInStep
  <2>4. \A o \in Members : Rising(batch[o])' /\ (o # m => Rising(buffer[o])')
    BY <1>1, <1>5, <2>1 DEF Rising, InStep, StillInStep
  <2>. QED
    BY <2>3, <2>4
<1>10. \A o \in Members : \A d \in ToSet(batch[o])', f \in ToSet(buffer[o])' : StillInStep(d, f)
  <2>1. \A o \in Members : \A d \in ToSet(batch[o]), f \in ToSet(buffer[o]) : StillInStep(d, f)
    BY <1>2, OffsetsAre, InStepStays DEF Ordered
  <2>2. \A d \in ToSet(batch[m]) : StillInStep(d, e)
    BY <1>3, OffsetsAre
  <2>. QED
    BY <1>1, <1>5, <1>7, <2>1, <2>2
<1>11. \A o \in Members : \A d \in rows', f \in Held(o)' : StillInStep(d, f)
  <2>1. \A o \in Members : \A d \in rows, f \in Held(o) : StillInStep(d, f)
    BY <1>2, OffsetsAre, InStepStays DEF Ordered
  <2>2. \A d \in rows : StillInStep(d, e)
    BY <1>3, OffsetsAre
  <2>. QED
    BY <1>1, <1>8, <2>1, <2>2
<1>12. \A n, o \in Members : n # o =>
         \A d \in Held(n)', f \in Held(o)' : log'[d] = log'[f] => log'[f] \in reordered'
  <2>1. ASSUME NEW n \in Members, NEW o \in Members, n # o, NEW d \in Held(n), NEW f \in Held(o),
               log[d] = log[f]
        PROVE  log[f] \in reordered'
    BY <1>2, <2>1 DEF Ordered, LogStays
  <2>. QED
    BY <1>1, <1>4, <1>8, <2>1
<1>13. /\ \A w \in late' : \A f \in ToSet(w.batch) : log'[f] \in reordered'
       /\ \A f \in rows' :
            log'[f] \in DOMAIN scores' /\ (scores'[log'[f]] >= f \/ log'[f] \in reordered')
  BY <1>1, <1>2 DEF Ordered, LogStays
<1>. QED
  BY <1>9, <1>10, <1>11, <1>12, <1>13 DEF Ordered, InStep, StillInStep

\* A batch that is stored leaves the newest event of each of its submissions as its score, if
\* what is stored already may be written before it.
LEMMA StoredScores ==
  ASSUME Typed, Ordered, NEW b \in Seq(ingested), Stored(b), UNCHANGED <<log, reordered>>,
         Rising(b) \/ (\A e \in ToSet(b) : log[e] \in reordered),
         \A d \in rows, e \in ToSet(b) : InStep(d, e)
  PROVE  \A e \in rows' : log[e] \in DOMAIN scores' /\ (scores'[log[e]] >= e \/ log[e] \in reordered)
<1>1. /\ DOMAIN scores' = DOMAIN scores \cup {log[e] : e \in ToSet(b)}
      /\ \A k \in DOMAIN b : \E j \in DOMAIN b :
           j >= k /\ log[b[j]] = log[b[k]] /\ scores'[log[b[k]]] = b[j]
      /\ \A s \in DOMAIN scores : s \notin {log[e] : e \in ToSet(b)} => scores'[s] = scores[s]
  BY UpsertEffect DEF Stored
<1>2. /\ ingested \subseteq Nat /\ rows \subseteq ingested /\ DOMAIN b = 1..Len(b)
      /\ \A k \in DOMAIN b : b[k] \in ingested /\ b[k] \in ToSet(b)
      /\ rows' = rows \cup ToSet(b)
  BY OffsetsAre DEF Stored, ToSet
<1>3. ASSUME NEW e \in ToSet(b), log[e] \notin reordered
      PROVE  log[e] \in DOMAIN scores' /\ scores'[log[e]] >= e
  <2>1. PICK k \in DOMAIN b : b[k] = e
    BY DEF ToSet
  <2>2. PICK j \in DOMAIN b : j >= k /\ log[b[j]] = log[e] /\ scores'[log[e]] = b[j]
    BY <1>1, <2>1
  <2>3. /\ log[e] \in DOMAIN scores' /\ b[j] \in Nat /\ e \in Nat
        /\ j \in 1..Len(b) /\ k \in 1..Len(b) /\ Len(b) \in Nat
    <3>1. b[j] \in Nat /\ b[k] \in Nat
      BY <1>2
    <3>2. log[e] \in DOMAIN scores'
      BY <1>1
    <3>. QED
      BY <1>2, <2>1, <3>1, <3>2
  <2>4. CASE j = k
    BY <2>1, <2>2, <2>3, <2>4
  <2>5. CASE k < j
    <3>1. InStep(b[k], b[j])
      BY <1>3, <2>1, <2>5 DEF Rising
    <3>. QED
      BY <1>3, <2>1, <2>2, <2>3, <3>1 DEF InStep
  <2>. QED
    BY <2>2, <2>3, <2>4, <2>5
<1>4. ASSUME NEW e \in rows, e \notin ToSet(b), log[e] \notin reordered
      PROVE  log[e] \in DOMAIN scores' /\ scores'[log[e]] >= e
  <2>1. log[e] \in DOMAIN scores /\ scores[log[e]] >= e
    BY <1>4 DEF Ordered
  <2>2. CASE log[e] \notin {log[d] : d \in ToSet(b)}
    BY <1>1, <2>1, <2>2
  <2>3. CASE log[e] \in {log[d] : d \in ToSet(b)}
    <3>1. PICK d \in ToSet(b) : log[d] = log[e]
      BY <2>3
    <3>2. PICK k \in DOMAIN b : b[k] = d
      BY DEF ToSet
    <3>3. PICK j \in DOMAIN b : log[b[j]] = log[e] /\ scores'[log[e]] = b[j]
      BY <1>1, <3>1, <3>2
    <3>4. InStep(e, b[j]) /\ b[j] \in Nat /\ e \in Nat
      BY <1>2
    <3>. QED
      BY <1>1, <1>4, <2>1, <3>3, <3>4 DEF InStep
  <2>. QED
    BY <2>2, <2>3
<1>5. \A e \in rows' : log[e] \in DOMAIN scores'
  BY <1>1, <1>2 DEF Ordered
<1>. QED
  BY <1>2, <1>3, <1>4, <1>5

\* A write that is answered puts the batch into the tables, and nothing newer of its
\* submissions is there.
LEMMA WriteOrder ==
  ASSUME Typed, Ordered, NEW m \in Members, Ingester!WriteBatch(m)
  PROVE  Ordered'
<1>1. /\ \/ UNCHANGED <<rows, scores, late, reordered>>
         \/ Stored(batch[m]) /\ UNCHANGED <<late, reordered>> /\ Ended(m)
         \/ Abandoned(m) /\ UNCHANGED <<rows, scores>>
      /\ batch' = batch \/ Ended(m)
      /\ buffer' = buffer /\ UNCHANGED <<log, ingested>>
  BY WriteEffect
<1>2. /\ Ended(m) => batch'[m] = << >> /\ \A o \in Members \ {m} : batch'[o] = batch[o]
  BY EndedTyped
<1>3. \A o \in Members : Shrinks(o)
  BY <1>1, <1>2 DEF Shrinks
<1>4. LogStays
  BY <1>1 DEF LogStays, Abandoned
<1>5. CASE UNCHANGED <<rows, scores>> /\ (late' = late \/ Abandoned(m))
  BY <1>3, <1>4, <1>5, OrderKept
<1>6. CASE Stored(batch[m]) /\ UNCHANGED <<late, reordered>> /\ Ended(m)
  <2>1. batch[m] \in Seq(ingested) /\ Rising(batch[m]) /\ rows' = rows \cup ToSet(batch[m])
    BY <1>6, OffsetsAre DEF Ordered, Stored
  <2>2. \A d \in rows, e \in ToSet(batch[m]) : InStep(d, e)
    BY DEF Ordered, Held
  <2>3. \A e \in rows' :
          log[e] \in DOMAIN scores' /\ (scores'[log[e]] >= e \/ log[e] \in reordered)
    BY <1>1, <1>6, <2>1, <2>2, StoredScores
  <2>4. ToSet(batch'[m]) = {}
    BY <1>2, <1>6 DEF ToSet
  <2>5. ASSUME NEW o \in Members, NEW d \in rows', NEW e \in Held(o)'
        PROVE  InStep(d, e)
    <3>1. e \in Held(o) /\ (o = m => e \in ToSet(buffer[o]))
      BY <1>1, <1>3, <1>4, <2>4, HeldOrder DEF Held
    <3>2. CASE d \in rows
      BY <3>1, <3>2 DEF Ordered
    <3>3. CASE d \in ToSet(batch[m]) /\ o = m
      BY <3>1, <3>3 DEF Ordered
    <3>4. CASE d \in ToSet(batch[m]) /\ o # m
      BY <3>1, <3>4 DEF Ordered, Held, InStep
    <3>. QED
      BY <2>1, <3>2, <3>3, <3>4
  <2>6. \A d, e : InStep(d, e)' <=> InStep(d, e)
    BY <1>1, <1>6 DEF InStep
  <2>7. \A o \in Members : (Rising(buffer[o]) /\ Rising(batch[o]))'
    BY <1>3, <1>4, HeldOrder
  <2>8. \A o \in Members :
          \A d \in ToSet(batch'[o]), e \in ToSet(buffer'[o]) : StillInStep(d, e)
    BY <1>3, <1>4, HeldOrder
  <2>9. \A n, o \in Members : n # o =>
          \A d \in Held(n)', e \in Held(o)' : log'[d] = log'[e] => log'[e] \in reordered'
    BY <1>3, <1>4, HeldOrder
  <2>10. \A d, e : StillInStep(d, e) => InStep(d, e)'
    BY DEF InStep, StillInStep
  <2>11. \A o \in Members : \A d \in ToSet(batch[o])', e \in ToSet(buffer[o])' : InStep(d, e)'
    BY <2>8, <2>10
  <2>12. \A w \in late' : \A e \in ToSet(w.batch) : log'[e] \in reordered'
    BY <1>1, <1>6 DEF Ordered
  <2>13. \A o \in Members : \A d \in rows', e \in Held(o)' : InStep(d, e)'
    BY <2>5, <2>6
  <2>14. \A e \in rows' :
           log'[e] \in DOMAIN scores' /\ (scores'[log'[e]] >= e \/ log'[e] \in reordered')
    BY <1>1, <1>6, <2>3
  <2>. QED
    BY <2>7, <2>9, <2>11, <2>12, <2>13, <2>14 DEF Ordered
<1>. QED
  BY <1>1, <1>5, <1>6

\* A write given up that is committed after all only touches submissions that are reordered.
LEMMA LateOrder ==
  ASSUME Typed, Ordered, Ingester!LateCommit
  PROVE  Ordered'
<1>1. PICK w \in late :
        /\ w.batch \in Seq(ingested) /\ Stored(w.batch) /\ late' = late \ {w}
        /\ UNCHANGED <<log, ingested, reordered, buffer, batch>>
  BY LateEffect
<1>2. rows' = rows \cup ToSet(w.batch) /\ \A e \in ToSet(w.batch) : log[e] \in reordered
  BY <1>1 DEF Ordered, Stored
<1>3. \A d \in rows, e \in ToSet(w.batch) : InStep(d, e)
  BY <1>2 DEF InStep
<1>4. \A e \in rows' :
        log[e] \in DOMAIN scores' /\ (scores'[log[e]] >= e \/ log[e] \in reordered)
  BY <1>1, <1>2, <1>3, StoredScores
<1>5. \A d \in ToSet(w.batch) : \A e : InStep(d, e)
  BY <1>2 DEF InStep
<1>6. (\A d, e : InStep(d, e)' <=> InStep(d, e)) /\ \A o \in Members : Held(o)' = Held(o)
  BY <1>1 DEF InStep, Held
<1>7. \A o \in Members : \A d \in rows', e \in Held(o)' : InStep(d, e)'
  BY <1>2, <1>5, <1>6 DEF Ordered
<1>8. \A o \in Members : (Rising(buffer[o]) /\ Rising(batch[o]))'
  BY <1>1, <1>6 DEF Ordered, Rising
<1>9. \A o \in Members : \A d \in ToSet(batch[o])', e \in ToSet(buffer[o])' : InStep(d, e)'
  BY <1>1, <1>6 DEF Ordered
<1>10. \A n, o \in Members : n # o =>
         \A d \in Held(n)', e \in Held(o)' : log'[d] = log'[e] => log'[e] \in reordered'
  BY <1>1, <1>6 DEF Ordered
<1>11. \A v \in late' : \A e \in ToSet(v.batch) : log'[e] \in reordered'
  BY <1>1 DEF Ordered
<1>12. \A e \in rows' :
         log'[e] \in DOMAIN scores' /\ (scores'[log'[e]] >= e \/ log'[e] \in reordered')
  BY <1>1, <1>4
<1>. QED
  BY <1>7, <1>8, <1>9, <1>10, <1>11, <1>12 DEF Ordered

\* Every step keeps the order.
LEMMA OrderNext ==
  ASSUME Typed, Ordered, [Next]_vars
  PROVE  Ordered'
<1>1. CASE UNCHANGED <<buffer, batch, rows, scores, late, reordered>>
           /\ \A e \in ingested : log'[e] = log[e]
  <2>1. LogStays /\ \A m \in Members : Shrinks(m)
    BY <1>1 DEF LogStays, Shrinks
  <2>. QED
    BY <1>1, <2>1, OrderKept
<1>2. CASE \E s \in Submissions \cup {Malformed} : EmitMetrics(s)
  <2>1. UNCHANGED <<buffer, batch, rows, scores, late, reordered>> /\ Grows
    <3>1. \E s \in Submissions \cup {Malformed} : log' = Append(log, s)
      BY <1>2 DEF EmitMetrics, Ingester!EmitMetrics
    <3>. QED
      BY <1>2, <3>1, LogGrows DEF EmitMetrics, Ingester!EmitMetrics, Ingester!flushing,
         Ingester!stores, Ingester!history, Typed, IngesterTyped
  <2>2. \A e \in ingested : log'[e] = log[e]
    BY <2>1 DEF Grows, Typed, IngesterTyped
  <2>. QED
    BY <1>1, <2>1, <2>2
<1>3. ASSUME NEW m \in Members, ConsumerStep(m)
      PROVE  Ordered'
  <2>1. CASE Ingester!HandleEvent(m)
    BY <2>1, HandleOrder
  <2>2. CASE \/ Ingester!PollFetches(m) \/ Ingester!SkipMalformed(m) \/ Ingester!UpdateLeaderboard(m)
             \/ Ingester!CommitOffsets(m) \/ Ingester!RunReturns(m) \/ Ingester!Start(m)
    <3>1. UNCHANGED <<log, buffer, batch, rows, scores, late, reordered>>
      BY <2>2 DEF Ingester!PollFetches, Ingester!SkipMalformed, Ingester!UpdateLeaderboard,
         Ingester!CommitOffsets, Ingester!RunReturns, Ingester!Start, Ingester!flushing,
         Ingester!stores, Ingester!history
    <3>. QED
      BY <1>1, <3>1
  <2>3. CASE Ingester!CloseReturns(m)
    <3>1. /\ buffer' = [buffer EXCEPT ![m] = << >>]
          /\ UNCHANGED <<log, batch, rows, scores, late, reordered>>
      BY <2>3 DEF Ingester!CloseReturns, Ingester!Down, Ingester!stores, Ingester!history
    <3>2. LogStays /\ \A o \in Members : Shrinks(o)
      BY <3>1 DEF LogStays, Shrinks, Typed, FlusherTyped
    <3>. QED
      BY <3>1, <3>2, OrderKept
  <2>. QED
    BY <1>3, <2>1, <2>2, <2>3 DEF ConsumerStep, Ingester!ConsumerStep
<1>4. ASSUME NEW m \in Members, FlusherStep(m)
      PROVE  Ordered'
  BY <1>4, TakeOrder, WriteOrder DEF FlusherStep, Ingester!FlusherStep
<1>5. ASSUME NEW m \in Members, Disturbance(m)
      PROVE  Ordered'
  <2>1. CASE Ingester!WriteHangs(m)
    <3>1. /\ Ended(m) /\ Abandoned(m) /\ UNCHANGED <<log, rows, scores, buffer>>
      BY <2>1, HangEffect
    <3>2. LogStays /\ \A o \in Members : Shrinks(o)
      BY <3>1, EndedTyped DEF LogStays, Shrinks, Abandoned
    <3>. QED
      BY <3>1, <3>2, OrderKept
  <2>2. CASE Ingester!Stop(m)
    <3>1. /\ UNCHANGED <<late, reordered>> \/ Abandoned(m)
          /\ UNCHANGED <<log, rows, scores, buffer, batch>>
      BY <2>2, StopEffect
    <3>2. LogStays /\ \A o \in Members : Shrinks(o)
      BY <3>1 DEF LogStays, Shrinks, Abandoned
    <3>. QED
      BY <3>1, <3>2, OrderKept
  <2>3. CASE Ingester!Crash(m)
    <3>1. /\ Emptied(m) /\ Ended(m) /\ UNCHANGED <<log, rows, scores>>
          /\ UNCHANGED <<late, reordered>> \/ Abandoned(m)
      BY <2>3, CrashEffect
    <3>2. LogStays /\ \A o \in Members : Shrinks(o)
      BY <3>1, EndedTyped, EmptiedTyped DEF LogStays, Shrinks, Abandoned
    <3>. QED
      BY <3>1, <3>2, OrderKept
  <2>. QED
    BY <1>5, <2>1, <2>2, <2>3 DEF Disturbance, Ingester!Disturbance
<1>6. ASSUME NEW m \in Members, Assign(m)
      PROVE  Ordered'
  BY <1>1, <1>6 DEF Assign, Ingester!Assign, Ingester!flushing, Ingester!stores, Ingester!history
<1>7. CASE LateCommit
  BY <1>7, LateOrder DEF LateCommit
<1>8. CASE UNCHANGED <<log, ingester>>
  BY <1>1, <1>8 DEF ingester
<1>9. CASE Receive \/ HubStep \/ \E c \in Clients : HandlerStep(c) \/ Visitor(c)
  <2>1. Hub!Receive \/ Hub!HubStep \/ \E c \in Clients : HubBy(c)
    BY <1>9 DEF Receive, HubStep, HandlerStep, Visitor, HubBy
  <2>2. UNCHANGED <<log, ingester>>
    BY <1>9, <2>1, HubFrame DEF Receive, HubStep, HandlerStep, Visitor
  <2>. QED
    BY <1>8, <2>2
<1>. QED
  BY <1>2, <1>3, <1>4, <1>5, <1>6, <1>7, <1>8, <1>9 DEF Next, vars
-----------------------------------------------------------------------------
(* Registration.                                                            *)

\* At first nobody is registered.
LEMMA RegisteredInit ==
  ASSUME Init
  PROVE  Registered
<1>1. /\ regQ = << >> /\ unregQ = << >> /\ clients = {} /\ closed = {}
      /\ handler = [c \in Clients |-> "none"] /\ writer = [c \in Clients |-> "none"]
      /\ send = [c \in Clients |-> << >>]
  BY DEF Init, Hub!InitHub
<1>2. DOMAIN regQ = {} /\ DOMAIN unregQ = {} /\ \A c \in Clients : DOMAIN send[c] = {}
  BY <1>1
<1>. QED
  BY <1>1, <1>2 DEF Registered, Once, ToSet

\* The first of a queue, once it is taken, is no longer in it.
LEMMA OnceTail ==
  ASSUME NEW q \in Seq(Clients), q # << >>, Once(q)
  PROVE  /\ Once(Tail(q)) /\ Head(q) \in ToSet(q)
         /\ ToSet(Tail(q)) = ToSet(q) \ {Head(q)}
<1>1. /\ Head(q) = q[1] /\ Len(q) \in Nat /\ Len(q) >= 1
      /\ DOMAIN q = 1..Len(q) /\ DOMAIN Tail(q) = 1..(Len(q) - 1)
      /\ \A n \in 1..(Len(q) - 1) : Tail(q)[n] = q[n + 1]
  BY TailOf
<1>2. Once(Tail(q))
  BY <1>1 DEF Once
<1>3. Head(q) \in ToSet(q)
  BY <1>1 DEF ToSet
<1>4. \A x : x \in ToSet(Tail(q)) => x \in ToSet(q) \ {Head(q)}
  BY <1>1 DEF ToSet, Once
<1>5. ASSUME NEW n \in DOMAIN q, q[n] # Head(q)
      PROVE  q[n] \in ToSet(Tail(q))
  <2>1. n - 1 \in 1..(Len(q) - 1) /\ n = (n - 1) + 1
    BY <1>1, <1>5
  <2>2. Tail(q)[n - 1] = q[n]
    BY <1>1, <2>1
  <2>. QED
    BY <1>1, <2>1, <2>2 DEF ToSet
<1>6. \A x : x \in ToSet(q) \ {Head(q)} => x \in ToSet(Tail(q))
  BY <1>5 DEF ToSet
<1>. QED
  BY <1>2, <1>3, <1>4, <1>6

\* A queue that lacks c holds it once after it is appended.
LEMMA OnceAppend ==
  ASSUME NEW q \in Seq(Clients), NEW c \in Clients, Once(q), c \notin ToSet(q)
  PROVE  Once(Append(q, c)) /\ ToSet(Append(q, c)) = ToSet(q) \cup {c}
<1>1. /\ Len(q) \in Nat /\ DOMAIN q = 1..Len(q) /\ DOMAIN Append(q, c) = 1..(Len(q) + 1)
      /\ \A n \in 1..Len(q) : Append(q, c)[n] = q[n]
      /\ Append(q, c)[Len(q) + 1] = c
  BY AppendTo
<1>2. Once(Append(q, c))
  BY <1>1 DEF Once, ToSet
<1>3. ToSet(Append(q, c)) = ToSet(q) \cup {c}
  BY <1>1 DEF ToSet
<1>. QED
  BY <1>2, <1>3

\* What the hub and the handlers hold is in one place at a time.
LEMMA HubRegistered ==
  ASSUME Typed, Registered, Hub!HubStep
  PROVE  Registered'
<1>1. /\ UNCHANGED <<handler, writer>>
      /\ regQ \in Seq(Clients) /\ unregQ \in Seq(Clients) /\ clients \subseteq Clients
      /\ closed \subseteq Clients /\ send \in [Clients -> Seq(Messages)]
  BY DEF Hub!HubStep, Hub!HubRegisters, Hub!HubUnregisters, Hub!HubFansOut, Typed, HubTyped
<1>2. CASE Hub!HubRegisters
  <2>1. /\ regQ # << >> /\ regQ' = Tail(regQ) /\ clients' = clients \cup {Head(regQ)}
        /\ UNCHANGED <<unregQ, send, closed>>
    BY <1>2 DEF Hub!HubRegisters
  <2>2. /\ Once(regQ') /\ Head(regQ) \in ToSet(regQ)
        /\ ToSet(regQ') = ToSet(regQ) \ {Head(regQ)}
    BY <1>1, <2>1, OnceTail DEF Registered
  <2>. QED
    BY <1>1, <2>1, <2>2 DEF Registered
<1>3. CASE Hub!HubUnregisters
  <2>1. /\ unregQ # << >> /\ unregQ' = Tail(unregQ) /\ clients' = clients \ {Head(unregQ)}
        /\ closed' = IF Head(unregQ) \in clients THEN closed \cup {Head(unregQ)} ELSE closed
        /\ UNCHANGED <<regQ, send>>
    BY <1>3 DEF Hub!HubUnregisters, Hub!ClosedAfter
  <2>2. /\ Once(unregQ') /\ Head(unregQ) \in ToSet(unregQ)
        /\ ToSet(unregQ') = ToSet(unregQ) \ {Head(unregQ)}
    BY <1>1, <2>1, OnceTail DEF Registered
  <2>. QED
    BY <1>1, <2>1, <2>2 DEF Registered
<1>4. CASE Hub!HubFansOut
  <2>1. /\ send' = [c \in Clients |->
             IF c \in clients /\ Hub!Room(c)
               THEN Append(send[c], Hub!Update(Head(msgs))) ELSE send[c]]
        /\ msgs # << >> /\ UNCHANGED <<regQ, unregQ, clients, closed>>
    BY <1>4 DEF Hub!HubFansOut, Hub!Receives
  <2>2. Hub!Update(Head(msgs)).type = "update" /\ Hub!Update(Head(msgs)) \in Messages
    BY <2>1, TailOf DEF Hub!Update, Messages, Typed, HubTyped
  <2>3. ASSUME NEW c \in Clients, NEW n \in DOMAIN send'[c],
               \A k \in DOMAIN send[c] : send[c][k].type = "update"
        PROVE  send'[c][n].type = "update"
    <3>1. CASE c \in clients /\ Hub!Room(c)
      BY <1>1, <2>1, <2>2, <2>3, <3>1, AppendTo
    <3>2. CASE ~(c \in clients /\ Hub!Room(c))
      BY <2>1, <2>3, <3>2
    <3>. QED
      BY <3>1, <3>2
  <2>. QED
    BY <1>1, <2>1, <2>3 DEF Registered
<1>. QED
  BY <1>2, <1>3, <1>4 DEF Hub!HubStep

\* A handler registers once, and asks to leave as its last act.
LEMMA ClientRegistered ==
  ASSUME Typed, Registered, NEW c \in Clients, HubBy(c)
  PROVE  Registered'
<1>1. /\ UNCHANGED <<clients, closed>>
      /\ regQ \in Seq(Clients) /\ unregQ \in Seq(Clients) /\ clients \subseteq Clients
      /\ closed \subseteq Clients /\ send \in [Clients -> Seq(Messages)]
      /\ handler \in [Clients -> {"none", "rank", "details", "put", "serving", "leaving", "left"}]
      /\ writer \in [Clients -> {"none", "up", "gone"}]
  BY DEF HubBy, Hub!Connect, Hub!GoAway, Hub!HandlerStep, Hub!ReadRanking, Hub!ReadDetails,
     Hub!PutSnapshot, Hub!WriteToClient, Hub!WriterEnds, Hub!ReadFails, Hub!Leave, Typed, HubTyped
<1>2. CASE Hub!Connect(c)
  <2>1. /\ handler[c] = "none" /\ UNCHANGED <<unregQ, send, writer>>
        /\ \/ regQ' = Append(regQ, c) /\ handler' = [handler EXCEPT ![c] = "rank"]
           \/ regQ' = regQ /\ handler' = [handler EXCEPT ![c] = "leaving"]
    BY <1>2 DEF Hub!Connect
  <2>2. c \notin ToSet(regQ) \cup ToSet(unregQ) \cup clients \cup closed
    BY <2>1 DEF Registered
  <2>4. CASE regQ' = Append(regQ, c) /\ handler' = [handler EXCEPT ![c] = "rank"]
    <3>1. Once(regQ') /\ ToSet(regQ') = ToSet(regQ) \cup {c}
      BY <1>1, <2>2, <2>4, OnceAppend DEF Registered
    <3>. QED
      BY <1>1, <2>1, <2>2, <2>4, <3>1 DEF Registered
  <2>5. CASE regQ' = regQ /\ handler' = [handler EXCEPT ![c] = "leaving"]
    BY <1>1, <2>1, <2>2, <2>5 DEF Registered
  <2>. QED
    BY <2>1, <2>4, <2>5
<1>3. CASE Hub!ReadRanking(c) \/ Hub!ReadDetails(c)
  <2>1. /\ handler[c] \in {"rank", "details"} /\ UNCHANGED <<regQ, unregQ, send>>
        /\ \E h \in {"details", "put", "serving"} :
             /\ handler' = [handler EXCEPT ![c] = h]
             /\ writer' = writer \/ (writer' = [writer EXCEPT ![c] = "up"] /\ h = "serving")
    BY <1>3 DEF Hub!ReadRanking, Hub!ReadDetails
  <2>. QED
    BY <1>1, <2>1 DEF Registered
<1>4. CASE Hub!PutSnapshot(c)
  <2>1. /\ handler[c] = "put" /\ handler' = [handler EXCEPT ![c] = "serving"]
        /\ writer' = [writer EXCEPT ![c] = "up"] /\ UNCHANGED <<regQ, unregQ>>
        /\ \A d \in Clients \ {c} : send'[d] = send[d]
    BY <1>1, <1>4 DEF Hub!PutSnapshot
  <2>. QED
    BY <1>1, <2>1 DEF Registered
<1>5. CASE Hub!WriteToClient(c)
  <2>1. /\ writer[c] = "up" /\ UNCHANGED <<handler, writer, regQ, unregQ>>
        /\ \A d \in Clients \ {c} : send'[d] = send[d]
    BY <1>1, <1>5 DEF Hub!WriteToClient
  <2>2. handler[c] \notin {"none", "rank", "details", "put"}
    BY <2>1 DEF Registered
  <2>3. \A d \in Clients : handler[d] \in {"none", "rank", "details", "put"} =>
          writer[d] = "none" /\ \A n \in DOMAIN send'[d] : send'[d][n].type = "update"
    BY <2>1, <2>2 DEF Registered
  <2>. QED
    BY <1>1, <2>1, <2>3 DEF Registered
<1>6. CASE Hub!WriterEnds(c) \/ Hub!GoAway(c)
  <2>1. /\ UNCHANGED <<handler, regQ, unregQ, send>>
        /\ writer' = writer \/ (writer[c] = "up" /\ writer' = [writer EXCEPT ![c] = "gone"])
    BY <1>6 DEF Hub!WriterEnds, Hub!GoAway
  <2>. QED
    BY <1>1, <2>1 DEF Registered
<1>7. CASE Hub!ReadFails(c)
  <2>1. /\ handler[c] = "serving" /\ handler' = [handler EXCEPT ![c] = "leaving"]
        /\ UNCHANGED <<writer, regQ, unregQ, send>>
    BY <1>7 DEF Hub!ReadFails
  <2>. QED
    BY <1>1, <2>1 DEF Registered
<1>8. CASE Hub!Leave(c)
  <2>1. /\ handler[c] = "leaving" /\ handler' = [handler EXCEPT ![c] = "left"]
        /\ UNCHANGED <<writer, regQ, send>> /\ unregQ' \in {unregQ, Append(unregQ, c)}
    BY <1>8 DEF Hub!Leave
  <2>2. c \notin ToSet(unregQ) /\ c \notin closed
    BY <2>1 DEF Registered
  <2>3. CASE unregQ' = Append(unregQ, c)
    <3>1. Once(unregQ') /\ ToSet(unregQ') = ToSet(unregQ) \cup {c}
      BY <1>1, <2>2, <2>3, OnceAppend DEF Registered
    <3>. QED
      BY <1>1, <2>1, <2>2, <3>1 DEF Registered
  <2>4. CASE unregQ' = unregQ
    BY <1>1, <2>1, <2>2, <2>4 DEF Registered
  <2>. QED
    BY <2>1, <2>3, <2>4
<1>. QED
  BY <1>2, <1>3, <1>4, <1>5, <1>6, <1>7, <1>8 DEF HubBy, Hub!HandlerStep

\* Every step keeps the registrations apart.
LEMMA RegisteredNext ==
  ASSUME Typed, Registered, [Next]_vars
  PROVE  Registered'
<1>1. CASE UNCHANGED hub
  BY <1>1 DEF hub, Registered
<1>2. CASE Hub!Receive
  BY <1>2 DEF Hub!Receive, Registered
<1>3. CASE HubStep \/ \E c \in Clients : HandlerStep(c) \/ Visitor(c)
  BY <1>3, HubRegistered, ClientRegistered DEF HubStep, HandlerStep, Visitor, HubBy
<1>. QED
  BY <1>1, <1>2, <1>3
     DEF Next, EmitMetrics, ConsumerStep, FlusherStep, Disturbance, Assign, LateCommit, Receive, vars

-----------------------------------------------------------------------------
(* Queues of events.                                                        *)

\* What a queue says of a submission once its head is taken.
LEMMA QueueTail ==
  ASSUME NEW q \in Seq(Readable), q # << >>, NEW s
  PROVE  /\ Concerned(q, s) <=> Concerned(Tail(q), s) \/ log[Head(q)] = s
         /\ UpToDate(q, s) => UpToDate(Tail(q), s)
         /\ UpToDate(q, s) /\ log[Head(q)] = s /\ ~Concerned(Tail(q), s) => Head(q) = board[s]
<1>1. /\ Head(q) = q[1] /\ Len(q) \in Nat /\ Len(q) >= 1
      /\ DOMAIN q = 1..Len(q) /\ DOMAIN Tail(q) = 1..(Len(q) - 1)
      /\ \A n \in 1..(Len(q) - 1) : Tail(q)[n] = q[n + 1]
  BY TailOf
<1>2. \A n \in 2..Len(q) : n - 1 \in 1..(Len(q) - 1) /\ Tail(q)[n - 1] = q[n]
  BY <1>1
<1>3. Concerned(q, s) <=> Concerned(Tail(q), s) \/ log[Head(q)] = s
  <2>1. Concerned(Tail(q), s) => Concerned(q, s)
    BY <1>1 DEF Concerned
  <2>2. ASSUME NEW n \in DOMAIN q, log[q[n]] = s, log[Head(q)] # s
        PROVE  Concerned(Tail(q), s)
    <3>1. n \in 2..Len(q)
      BY <1>1, <2>2
    <3>. QED
      BY <1>1, <1>2, <2>2, <3>1 DEF Concerned
  <2>. QED
    BY <1>1, <2>1, <2>2 DEF Concerned
<1>4. ASSUME UpToDate(q, s), NEW n \in DOMAIN Tail(q), log[Tail(q)[n]] = s,
             \A k \in DOMAIN Tail(q) : k > n => log[Tail(q)[k]] # s
      PROVE  Tail(q)[n] = board[s]
  <2>1. n + 1 \in DOMAIN q /\ q[n + 1] = Tail(q)[n]
    BY <1>1, <1>4
  <2>2. ASSUME NEW k \in DOMAIN q, k > n + 1
        PROVE  log[q[k]] # s
    <3>1. k \in 2..Len(q) /\ k - 1 > n
      BY <1>1, <1>4, <2>2
    <3>. QED
      BY <1>1, <1>2, <1>4, <3>1
  <2>. QED
    BY <1>4, <2>1, <2>2 DEF UpToDate
<1>5. ASSUME UpToDate(q, s), log[Head(q)] = s, ~Concerned(Tail(q), s)
      PROVE  Head(q) = board[s]
  <2>1. ASSUME NEW k \in DOMAIN q, k > 1
        PROVE  log[q[k]] # s
    <3>1. k \in 2..Len(q)
      BY <1>1, <2>1
    <3>. QED
      BY <1>1, <1>2, <1>5, <3>1 DEF Concerned
  <2>. QED
    BY <1>1, <1>5, <2>1 DEF UpToDate
<1>. QED
  BY <1>3, <1>4, <1>5 DEF UpToDate

\* What a queue says of a submission once an event is appended.
LEMMA QueueAppend ==
  ASSUME NEW q \in Seq(Readable), NEW e \in Readable, NEW s
  PROVE  /\ Concerned(Append(q, e), s) <=> Concerned(q, s) \/ log[e] = s
         /\ UpToDate(q, s) /\ log[e] # s => UpToDate(Append(q, e), s)
         /\ log[e] = s /\ e = board[s] => UpToDate(Append(q, e), s)
<1>1. /\ Len(q) \in Nat /\ DOMAIN q = 1..Len(q) /\ DOMAIN Append(q, e) = 1..(Len(q) + 1)
      /\ \A n \in 1..Len(q) : Append(q, e)[n] = q[n]
      /\ Append(q, e)[Len(q) + 1] = e
  BY AppendTo
<1>2. Concerned(Append(q, e), s) <=> Concerned(q, s) \/ log[e] = s
  BY <1>1 DEF Concerned
<1>3. ASSUME UpToDate(q, s), log[e] # s, NEW n \in DOMAIN Append(q, e), log[Append(q, e)[n]] = s,
             \A k \in DOMAIN Append(q, e) : k > n => log[Append(q, e)[k]] # s
      PROVE  Append(q, e)[n] = board[s]
  <2>1. n \in DOMAIN q /\ Append(q, e)[n] = q[n]
    BY <1>1, <1>3
  <2>2. \A k \in DOMAIN q : k > n => log[q[k]] # s
    BY <1>1, <1>3
  <2>. QED
    BY <1>3, <2>1, <2>2 DEF UpToDate
<1>4. ASSUME log[e] = s, e = board[s], NEW n \in DOMAIN Append(q, e),
             \A k \in DOMAIN Append(q, e) : k > n => log[Append(q, e)[k]] # s
      PROVE  Append(q, e)[n] = board[s]
  <2>1. ~(Len(q) + 1 > n)
    BY <1>1, <1>4
  <2>2. n = Len(q) + 1
    BY <1>1, <2>1
  <2>. QED
    BY <1>1, <1>4, <2>2
<1>. QED
  BY <1>2, <1>3, <1>4 DEF UpToDate

(* Channels of clients.                                                     *)

\* A message that does not concern a submission changes nothing for it; one that does and
\* says what the board says settles it.
LEMMA ChannelAppend ==
  ASSUME NEW q \in Seq(Messages), NEW m \in Messages, NEW v, NEW s
  PROVE  /\ WillAgree(q, v, s) /\ ~Concerns(m, s) => WillAgree(Append(q, m), v, s)
         /\ Concerns(m, s) /\ Says(m, s) => WillAgree(Append(q, m), v, s)
<1>1. /\ Len(q) \in Nat /\ DOMAIN q = 1..Len(q) /\ DOMAIN Append(q, m) = 1..(Len(q) + 1)
      /\ \A n \in 1..Len(q) : Append(q, m)[n] = q[n]
      /\ Append(q, m)[Len(q) + 1] = m
  BY AppendTo
<1>2. ASSUME WillAgree(q, v, s), ~Concerns(m, s)
      PROVE  WillAgree(Append(q, m), v, s)
  <2>1. ASSUME NEW n \in DOMAIN Append(q, m), Concerns(Append(q, m)[n], s),
               \A k \in DOMAIN Append(q, m) : k > n => ~Concerns(Append(q, m)[k], s)
        PROVE  Says(Append(q, m)[n], s)
    <3>1. n \in DOMAIN q /\ Append(q, m)[n] = q[n]
      BY <1>1, <1>2, <2>1
    <3>2. \A k \in DOMAIN q : k > n => ~Concerns(q[k], s)
      BY <1>1, <2>1
    <3>. QED
      BY <1>2, <2>1, <3>1, <3>2 DEF WillAgree
  <2>2. (\A n \in DOMAIN Append(q, m) : ~Concerns(Append(q, m)[n], s)) =>
          \A n \in DOMAIN q : ~Concerns(q[n], s)
    BY <1>1
  <2>. QED
    BY <1>2, <2>1, <2>2 DEF WillAgree
<1>3. ASSUME Concerns(m, s), Says(m, s)
      PROVE  WillAgree(Append(q, m), v, s)
  <2>1. ASSUME NEW n \in DOMAIN Append(q, m),
               \A k \in DOMAIN Append(q, m) : k > n => ~Concerns(Append(q, m)[k], s)
        PROVE  Says(Append(q, m)[n], s)
    <3>1. ~(Len(q) + 1 > n)
      BY <1>1, <1>3, <2>1
    <3>2. n = Len(q) + 1
      BY <1>1, <3>1
    <3>. QED
      BY <1>1, <1>3, <3>2
  <2>2. ~(\A n \in DOMAIN Append(q, m) : ~Concerns(Append(q, m)[n], s))
    BY <1>1, <1>3
  <2>. QED
    BY <2>1, <2>2 DEF WillAgree
<1>. QED
  BY <1>2, <1>3

\* What the page does with a message is what the message says.
LEMMA ChannelTail ==
  ASSUME NEW q \in Seq(Messages), q # << >>, NEW v, NEW s, WillAgree(q, v, s)
  PROVE  WillAgree(Tail(q), Hub!Shown(v, Head(q)), s)
<1>1. /\ Head(q) = q[1] /\ Len(q) \in Nat /\ Len(q) >= 1 /\ Head(q) \in Messages
      /\ DOMAIN q = 1..Len(q) /\ DOMAIN Tail(q) = 1..(Len(q) - 1)
      /\ \A n \in 1..(Len(q) - 1) : Tail(q)[n] = q[n + 1]
  BY TailOf
<1>2. \A n \in 2..Len(q) : n - 1 \in 1..(Len(q) - 1) /\ Tail(q)[n - 1] = q[n]
  BY <1>1
<1>3. ASSUME NEW n \in DOMAIN Tail(q), Concerns(Tail(q)[n], s),
             \A k \in DOMAIN Tail(q) : k > n => ~Concerns(Tail(q)[k], s)
      PROVE  Says(Tail(q)[n], s)
  <2>1. n + 1 \in DOMAIN q /\ q[n + 1] = Tail(q)[n]
    BY <1>1, <1>3
  <2>2. ASSUME NEW k \in DOMAIN q, k > n + 1
        PROVE  ~Concerns(q[k], s)
    <3>1. k \in 2..Len(q) /\ k - 1 > n
      BY <1>1, <1>3, <2>2
    <3>. QED
      BY <1>1, <1>2, <1>3, <3>1
  <2>. QED
    BY <1>3, <2>1, <2>2 DEF WillAgree
<1>4. ASSUME \A n \in DOMAIN Tail(q) : ~Concerns(Tail(q)[n], s)
      PROVE  Agrees(Hub!Shown(v, Head(q)), s)
  <2>1. ASSUME NEW k \in DOMAIN q, k > 1
        PROVE  ~Concerns(q[k], s)
    <3>1. k \in 2..Len(q)
      BY <1>1, <2>1
    <3>. QED
      BY <1>1, <1>2, <1>4, <3>1
  <2>2. CASE Concerns(Head(q), s)
    <3>1. Says(Head(q), s)
      BY <1>1, <2>1, <2>2 DEF WillAgree
    <3>2. CASE Head(q).type = "snapshot"
      BY <3>1, <3>2 DEF Says, Hub!Shown
    <3>3. CASE Head(q).type # "snapshot"
      <4>1. /\ log[Head(q).event] = s /\ s \in DOMAIN board /\ Head(q).event = board[s]
            /\ Hub!Shown(v, Head(q)) = [t \in DOMAIN v \cup {log[Head(q).event]} |->
                 IF t = log[Head(q).event] THEN Head(q).event ELSE v[t]]
        BY <2>2, <3>1, <3>3 DEF Says, Concerns, Hub!Shown
      <4>. QED
        BY <4>1 DEF Agrees
    <3>. QED
      BY <3>2, <3>3
  <2>3. CASE ~Concerns(Head(q), s)
    <3>1. Agrees(v, s)
      <4>1. \A n \in DOMAIN q : ~Concerns(q[n], s)
        BY <1>1, <2>1, <2>3
      <4>. QED
        BY <4>1 DEF WillAgree
    <3>2. /\ log[Head(q).event] # s
          /\ Hub!Shown(v, Head(q)) = [t \in DOMAIN v \cup {log[Head(q).event]} |->
               IF t = log[Head(q).event] THEN Head(q).event ELSE v[t]]
      BY <2>3 DEF Concerns, Hub!Shown
    <3>. QED
      BY <3>1, <3>2 DEF Agrees
  <2>. QED
    BY <2>2, <2>3
<1>. QED
  BY <1>3, <1>4 DEF WillAgree
-----------------------------------------------------------------------------
(* What is under way keeps up with the board, and the pages with both.      *)

\* At first there is nothing to follow.
LEMMA FollowedInit ==
  ASSUME Init
  PROVE  Followed
<1>1. /\ pubsub = << >> /\ msgs = << >> /\ \A c \in Clients : handler[c] = "none"
  BY DEF Init, Ingester!InitIngester, Hub!InitHub
<1>2. DOMAIN pubsub = {} /\ DOMAIN msgs = {}
  BY <1>1
<1>3. Fresh
  BY <1>2 DEF Fresh, UpToDate
<1>4. \A c \in Clients : Tracks(c)
  BY <1>1 DEF Tracks
<1>. QED
  BY <1>3, <1>4 DEF Followed

\* Once everybody is excused nothing is left to follow.
LEMMA Excuses ==
  ASSUME Followed, excused \subseteq excused', excused' \subseteq Clients,
         Fresh /\ (\A c \in Clients \ excused : Tracks(c)) =>
           Fresh' /\ \A c \in Clients \ excused' : Tracks(c)'
  PROVE  Followed'
<1>1. CASE excused = Clients
  BY <1>1 DEF Followed
<1>2. CASE Fresh /\ \A c \in Clients \ excused : Tracks(c)
  BY <1>2 DEF Followed
<1>. QED
  BY <1>1, <1>2 DEF Followed

\* A client whose channel, page and snapshot stay.
LEMMA ClientStays ==
  ASSUME NEW c \in Clients, Tracks(c), UNCHANGED <<log, board>>,
         send'[c] = send[c], view'[c] = view[c], snapshot'[c] = snapshot[c],
         handler'[c] \in {handler[c], "rank", "leaving", "left"},
         \A s : UnderWay(s) => UnderWay(s)'
  PROVE  Tracks(c)'
<1>1. ASSUME handler'[c] = "serving", NEW s \in Submissions
      PROVE  UnderWay(s)' \/ WillAgree(send[c], view[c], s)'
  <2>1. UnderWay(s) \/ WillAgree(send[c], view[c], s)
    BY <1>1 DEF Tracks
  <2>2. WillAgree(send[c], view[c], s) => WillAgree(send[c], view[c], s)'
    BY DEF WillAgree, Agrees, Says, Concerns
  <2>. QED
    BY <2>1, <2>2
<1>2. ASSUME handler'[c] \in {"details", "put"}, NEW s \in DOMAIN board
      PROVE  Covered(c, s)'
  <2>1. Covered(c, s) /\ handler'[c] = handler[c]
    BY <1>2 DEF Tracks
  <2>. QED
    BY <2>1 DEF Covered
<1>. QED
  BY <1>1, <1>2 DEF Tracks

\* The steps that touch neither Redis nor what is on its way from it.
LEMMA FollowedStays ==
  ASSUME Followed, UNCHANGED <<log, board, pubsub, msgs, send, view, snapshot>>,
         excused' = excused, excused \subseteq Clients,
         \A c \in Clients : handler'[c] \in {handler[c], "rank", "leaving", "left"}
  PROVE  Followed'
<1>1. \A s : UnderWay(s) => UnderWay(s)'
  BY DEF UnderWay, Concerned
<1>2. Fresh => Fresh'
  BY DEF Fresh, UpToDate, Concerned
<1>3. \A c \in Clients : Tracks(c) => Tracks(c)'
  BY <1>1, ClientStays
<1>. QED
  BY <1>2, <1>3, Excuses

\* A longer log means the same by every event that has been read.
LEMMA EmitFollowed ==
  ASSUME Typed, Followed, Grows, UNCHANGED <<board, pubsub, hub>>
  PROVE  Followed'
<1>1. /\ UNCHANGED <<msgs, send, view, snapshot, handler, excused>> /\ excused \subseteq Clients
      /\ pubsub \in Seq(Readable) /\ msgs \in Seq(Readable)
      /\ \A c \in Clients : send[c] \in Seq(Messages)
  BY DEF hub, Typed, HubTyped, RedisTyped
<1>2. \A e \in Readable : log'[e] = log[e]
  BY DEF Grows
<1>3. /\ \A n \in DOMAIN pubsub : log'[pubsub[n]] = log[pubsub[n]]
      /\ \A n \in DOMAIN msgs : log'[msgs[n]] = log[msgs[n]]
  <2>1. /\ \A n \in DOMAIN pubsub : pubsub[n] \in Readable
        /\ \A n \in DOMAIN msgs : msgs[n] \in Readable
    BY <1>1
  <2>. QED
    BY <1>2, <2>1
<1>4. \A s : UnderWay(s)' <=> UnderWay(s)
  BY <1>1, <1>3 DEF UnderWay, Concerned
<1>5. Fresh => Fresh'
  BY <1>1, <1>3 DEF Fresh, UpToDate, Concerned
<1>6. ASSUME NEW c \in Clients, Tracks(c)
      PROVE  Tracks(c)'
  <2>1. \A n \in DOMAIN send[c] :
          send[c][n].type = "snapshot" \/ log'[send[c][n].event] = log[send[c][n].event]
    <3>1. \A n \in DOMAIN send[c] : send[c][n] \in Messages
      BY <1>1
    <3>2. \A m \in Messages : m.type = "snapshot" \/ m.event \in Readable
      BY DEF Messages
    <3>. QED
      BY <1>2, <3>1, <3>2
  <2>2. ASSUME NEW s, WillAgree(send[c], view[c], s)
        PROVE  WillAgree(send[c], view[c], s)'
    <3>1. /\ send' = send /\ view' = view /\ \A v : Agrees(v, s)' <=> Agrees(v, s)
          /\ \A n \in DOMAIN send[c] : /\ Concerns(send[c][n], s)' <=> Concerns(send[c][n], s)
                                       /\ Says(send[c][n], s)' <=> Says(send[c][n], s)
      BY <1>1, <2>1 DEF Agrees, Says, Concerns
    <3>. QED
      BY <2>2, <3>1 DEF WillAgree
  <2>3. \A s : Covered(c, s) => Covered(c, s)'
    BY <1>1, <1>4 DEF Covered
  <2>. QED
    BY <1>1, <1>4, <1>6, <2>2, <2>3 DEF Tracks
<1>. QED
  BY <1>1, <1>5, <1>6, Excuses

\* An update of the board is under way from then on.
LEMMA UpdateFollowed ==
  ASSUME Typed, Followed, NEW m \in Members, Ingester!UpdateLeaderboard(m), UNCHANGED hub
  PROVE  Followed'
<1>9. PICK e : e = next[m]
  OBVIOUS
<1>1. /\ e \in Readable /\ log[e] \in Submissions
      /\ \/ UNCHANGED <<board, pubsub>>
         \/ board' = Ingester!Put(board, log[e], e) /\ pubsub' = Append(pubsub, e)
      /\ log' = log
  BY <1>9, UpdateEffect
<1>0. PICK o \in Submissions : o = log[e]
  BY <1>1
<1>2. /\ UNCHANGED <<msgs, send, view, snapshot, handler, excused>> /\ excused \subseteq Clients
  BY DEF hub, Typed, HubTyped
<1>3. CASE UNCHANGED <<board, pubsub>>
  BY <1>1, <1>2, <1>3, FollowedStays
<1>4. CASE board' = Ingester!Put(board, log[e], e) /\ pubsub' = Append(pubsub, e)
  <2>1. /\ DOMAIN board' = DOMAIN board \cup {o} /\ board'[o] = e
        /\ \A t \in DOMAIN board : t # o => board'[t] = board[t]
    BY <1>0, <1>4 DEF Ingester!Put
  <2>2. /\ pubsub \in Seq(Readable) /\ \A n \in DOMAIN pubsub : log[pubsub[n]] \in DOMAIN board
        /\ \A n \in DOMAIN msgs : log[msgs[n]] \in DOMAIN board
    <3>1. /\ pubsub \in Seq(Readable) /\ \A n \in 1..Len(pubsub) : log[pubsub[n]] \in DOMAIN board
          /\ msgs \in Seq(Readable) /\ \A n \in 1..Len(msgs) : log[msgs[n]] \in DOMAIN board
      BY DEF Typed, RedisTyped, HubTyped
    <3>2. DOMAIN pubsub = 1..Len(pubsub) /\ DOMAIN msgs = 1..Len(msgs)
      BY <3>1
    <3>. QED
      BY <3>1, <3>2
  <2>3. /\ Len(pubsub) \in Nat /\ DOMAIN pubsub = 1..Len(pubsub)
        /\ DOMAIN pubsub' = 1..(Len(pubsub) + 1) /\ pubsub'[Len(pubsub) + 1] = e
        /\ \A n \in 1..Len(pubsub) : pubsub'[n] = pubsub[n]
    BY <1>1, <1>4, <2>2, AppendTo
  <2>4. \A s : UnderWay(s)' <=> UnderWay(s) \/ s = o
    BY <1>0, <1>1, <1>2, <2>3 DEF UnderWay, Concerned
  <2>5. ASSUME Fresh
        PROVE  Fresh'
    <3>1. Concerned(pubsub, o)' /\ UpToDate(pubsub, o)'
      <4>1. ASSUME NEW n \in DOMAIN pubsub',
                   \A k \in DOMAIN pubsub' : k > n => log[pubsub'[k]] # o
            PROVE  pubsub'[n] = e
        <5>1. Len(pubsub) + 1 \in DOMAIN pubsub'
          BY <2>3
        <5>2. ~(Len(pubsub) + 1 > n)
          BY <1>0, <2>3, <4>1, <5>1
        <5>3. n = Len(pubsub) + 1
          BY <2>3, <5>2
        <5>. QED
          BY <2>3, <5>3
      <4>2. Concerned(pubsub, o)'
        BY <1>0, <1>1, <2>3 DEF Concerned
      <4>3. UpToDate(pubsub, o)'
        BY <1>1, <2>1, <4>1 DEF UpToDate
      <4>. QED
        BY <4>2, <4>3
    <3>2. ASSUME NEW s \in Submissions, s # o
          PROVE  /\ UpToDate(pubsub, s)'
                 /\ Concerned(pubsub, s)' \/ UpToDate(msgs, s)'
      <4>1. CASE s \in DOMAIN board
        <5>1. board'[s] = board[s]
          BY <2>1, <3>2, <4>1
        <5>2. UpToDate(pubsub, s) /\ (Concerned(pubsub, s) \/ UpToDate(msgs, s))
          BY <2>5, <3>2 DEF Fresh
        <5>3. UpToDate(pubsub', s)
          BY <1>0, <1>1, <1>4, <2>2, <3>2, <5>2, QueueAppend
        <5>4. UpToDate(pubsub, s)'
          BY <1>1, <5>1, <5>3 DEF UpToDate
        <5>5. UpToDate(msgs, s) => UpToDate(msgs, s)'
          BY <1>1, <1>2, <5>1 DEF UpToDate
        <5>6. Concerned(pubsub, s) => Concerned(pubsub, s)'
          BY <1>1, <2>3 DEF Concerned
        <5>. QED
          BY <5>2, <5>4, <5>5, <5>6
      <4>2. CASE s \notin DOMAIN board
        <5>1. \A n \in DOMAIN pubsub' : log[pubsub'[n]] # s
          BY <1>0, <2>2, <2>3, <3>2, <4>2
        <5>2. \A n \in DOMAIN msgs : log[msgs[n]] # s
          BY <2>2, <4>2
        <5>. QED
          BY <1>1, <1>2, <5>1, <5>2 DEF UpToDate
      <4>. QED
        BY <4>1, <4>2
    <3>. QED
      BY <1>1, <3>1, <3>2 DEF Fresh
  <2>6. ASSUME NEW c \in Clients, Tracks(c)
        PROVE  Tracks(c)'
    <3>1. ASSUME NEW s, s # o, WillAgree(send[c], view[c], s)
          PROVE  WillAgree(send[c], view[c], s)'
      <4>1. \A v : Agrees(v, s) => (s \in DOMAIN v <=> s \in DOMAIN board') /\
                                   (s \in DOMAIN v => v[s] = board'[s])
        BY <2>1, <3>1 DEF Agrees
      <4>2. s \in DOMAIN board => s \in DOMAIN board' /\ board'[s] = board[s]
        BY <2>1, <3>1
      <4>. QED
        BY <1>1, <1>2, <3>1, <4>1, <4>2 DEF WillAgree, Agrees, Says, Concerns
    <3>2. ASSUME NEW s \in DOMAIN board, s # o, Covered(c, s)
          PROVE  Covered(c, s)'
      <4>1. board'[s] = board[s]
        BY <2>1, <3>2
      <4>. QED
        BY <1>2, <2>4, <3>2, <4>1 DEF Covered
    <3>3. Covered(c, o)'
      BY <1>1, <2>4 DEF Covered
    <3>. QED
      BY <1>2, <2>1, <2>4, <2>6, <3>1, <3>2, <3>3 DEF Tracks
  <2>. QED
    BY <1>2, <2>5, <2>6, Excuses
<1>. QED
  BY <1>1, <1>3, <1>4
\* A publication is passed on, or everyone whom its loss may mislead is excused.
LEMMA ReceiveFollowed ==
  ASSUME Typed, Followed, Hub!Receive, excused' \subseteq Clients
  PROVE  Followed'
<1>1. /\ pubsub # << >> /\ pubsub' = Tail(pubsub)
      /\ \/ msgs' = Append(msgs, Head(pubsub)) /\ UNCHANGED excused
         \/ excused' = excused \cup Hub!Misled /\ UNCHANGED msgs
      /\ UNCHANGED <<log, board, send, handler, snapshot, view>>
  BY DEF Hub!Receive
<1>2. /\ pubsub \in Seq(Readable) /\ msgs \in Seq(Readable) /\ Head(pubsub) \in Readable
      /\ excused \subseteq Clients
  BY <1>1 DEF Typed, RedisTyped, HubTyped
<1>3. \A s : /\ Concerned(pubsub, s) <=> Concerned(pubsub', s) \/ log[Head(pubsub)] = s
             /\ UpToDate(pubsub, s) => UpToDate(pubsub', s)
             /\ UpToDate(pubsub, s) /\ log[Head(pubsub)] = s /\ ~Concerned(pubsub', s) =>
                  Head(pubsub) = board[s]
  BY <1>1, <1>2, QueueTail
<1>4. CASE msgs' = Append(msgs, Head(pubsub)) /\ UNCHANGED excused
  <2>1. \A s : /\ Concerned(msgs', s) <=> Concerned(msgs, s) \/ log[Head(pubsub)] = s
               /\ UpToDate(msgs, s) /\ log[Head(pubsub)] # s => UpToDate(msgs', s)
               /\ log[Head(pubsub)] = s /\ Head(pubsub) = board[s] => UpToDate(msgs', s)
    BY <1>2, <1>4, QueueAppend
  <2>2. ASSUME Fresh, NEW s \in Submissions
        PROVE  UpToDate(pubsub', s) /\ (Concerned(pubsub', s) \/ UpToDate(msgs', s))
    BY <1>3, <2>1, <2>2 DEF Fresh
  <2>3. Fresh => Fresh'
    BY <1>1, <2>2 DEF Fresh, UpToDate, Concerned
  <2>4. \A s : UnderWay(s) => UnderWay(s)'
    <3>1. \A s : UnderWay(s) => Concerned(pubsub', s) \/ Concerned(msgs', s)
      BY <1>3, <2>1 DEF UnderWay
    <3>. QED
      BY <1>1, <3>1 DEF UnderWay, Concerned
  <2>5. \A c \in Clients : Tracks(c) => Tracks(c)'
    BY <1>1, <2>4, ClientStays
  <2>. QED
    BY <1>2, <1>4, <2>3, <2>5, Excuses
<1>5. CASE excused' = excused \cup Hub!Misled /\ UNCHANGED msgs /\ msgs # << >>
  <2>1. excused' = Clients
    BY <1>2, <1>5 DEF Hub!Misled
  <2>. QED
    BY <2>1 DEF Followed
<1>6. CASE excused' = excused \cup Hub!Misled /\ UNCHANGED msgs /\ msgs = << >>
  <2>1. DOMAIN msgs = {}
    BY <1>6
  <2>2. Fresh => Fresh'
    <3>1. Fresh => \A s \in Submissions : UpToDate(pubsub', s)
      BY <1>3 DEF Fresh
    <3>. QED
      BY <1>1, <1>6, <2>1, <3>1 DEF Fresh, UpToDate
  <2>3. \A c \in Clients \ excused' : Tracks(c)'
    <3>1. \A c \in Clients \ excused' : handler[c] \in {"none", "left"}
      BY <1>6 DEF Hub!Misled
    <3>. QED
      BY <1>1, <3>1 DEF Tracks
  <2>. QED
    BY <1>6, <2>2, <2>3, Excuses
<1>. QED
  BY <1>1, <1>4, <1>5, <1>6

\* The hub sends an event to every client that has room; it is the one on the board
\* unless a later one of its submission is still under way.
LEMMA FanOutFollowed ==
  ASSUME Typed, Registered, Followed, Hub!HubFansOut, excused' \subseteq Clients
  PROVE  Followed'
<1>1. /\ msgs # << >> /\ msgs' = Tail(msgs)
      /\ send' = [c \in Clients |->
           IF c \in clients /\ Len(send[c]) < SendCap
             THEN Append(send[c], Hub!Update(Head(msgs))) ELSE send[c]]
      /\ excused' = excused \cup {c \in clients : ~(Len(send[c]) < SendCap)} \cup Hub!ToSet(regQ)
      /\ UNCHANGED <<log, board, pubsub, handler, snapshot, view>>
  BY DEF Hub!HubFansOut, Hub!Receives, Hub!Room
<1>2. /\ msgs \in Seq(Readable) /\ Head(msgs) \in Readable /\ log[Head(msgs)] \in DOMAIN board
      /\ excused \subseteq Clients /\ \A c \in Clients : send[c] \in Seq(Messages)
      /\ DOMAIN board \subseteq Submissions
  <2>1. /\ msgs \in Seq(Readable) /\ Head(msgs) = msgs[1] /\ 1 \in 1..Len(msgs)
        /\ \A n \in 1..Len(msgs) : log[msgs[n]] \in DOMAIN board
    BY <1>1, TailOf DEF Typed, HubTyped
  <2>2. board \in Maps(Readable) /\ excused \subseteq Clients /\ send \in [Clients -> Seq(Messages)]
    BY DEF Typed, HubTyped, RedisTyped
  <2>3. DOMAIN board \subseteq Submissions
    BY <2>2, MapIs
  <2>4. Head(msgs) \in Readable /\ log[Head(msgs)] \in DOMAIN board
    BY <2>1
  <2>. QED
    BY <2>1, <2>2, <2>3, <2>4
<1>3. \A s : /\ Concerned(msgs, s) <=> Concerned(msgs', s) \/ log[Head(msgs)] = s
             /\ UpToDate(msgs, s) => UpToDate(msgs', s)
             /\ UpToDate(msgs, s) /\ log[Head(msgs)] = s /\ ~Concerned(msgs', s) =>
                  Head(msgs) = board[s]
  BY <1>1, <1>2, QueueTail
<1>4. /\ Hub!Update(Head(msgs)) \in Messages /\ Hub!Update(Head(msgs)).event = Head(msgs)
      /\ Hub!Update(Head(msgs)).type = "update"
  BY <1>2 DEF Messages, Hub!Update
<1>5. Fresh => Fresh'
  <2>1. Fresh => \A s \in Submissions :
          UpToDate(pubsub, s) /\ (Concerned(pubsub, s) \/ UpToDate(msgs', s))
    BY <1>3 DEF Fresh
  <2>. QED
    BY <1>1, <2>1 DEF Fresh, UpToDate, Concerned
<1>6. \A s : UnderWay(s)' <=> Concerned(pubsub, s) \/ Concerned(msgs', s)
  BY <1>1 DEF UnderWay, Concerned
<1>7. ASSUME Fresh, NEW s \in Submissions, ~UnderWay(s)'
      PROVE  IF log[Head(msgs)] = s THEN Head(msgs) = board[s] ELSE ~UnderWay(s)
  BY <1>3, <1>6, <1>7 DEF Fresh, UnderWay
<1>8. ASSUME Fresh, NEW c \in Clients, c \notin excused', Tracks(c),
             handler[c] \in {"serving", "details", "put"}
      PROVE  Tracks(c)'
  <2>1. c \in clients /\ Len(send[c]) < SendCap
    <3>1. c \in clients \cup ToSet(regQ)
      BY <1>8 DEF Registered
    <3>. QED
      BY <1>1, <1>8, <3>1 DEF ToSet, Hub!ToSet
  <2>2. send'[c] = Append(send[c], Hub!Update(Head(msgs)))
    BY <1>1, <2>1
  <2>3. ASSUME handler[c] = "serving", NEW s \in Submissions, ~UnderWay(s)'
        PROVE  WillAgree(send[c], view[c], s)'
    <3>1. WillAgree(send'[c], view[c], s)
      <4>1. CASE log[Head(msgs)] = s
        <5>1. /\ Concerns(Hub!Update(Head(msgs)), s) /\ Says(Hub!Update(Head(msgs)), s)
          BY <1>2, <1>4, <1>7, <1>8, <2>3, <4>1 DEF Concerns, Says
        <5>. QED
          BY <1>2, <1>4, <2>2, <5>1, ChannelAppend
      <4>2. CASE log[Head(msgs)] # s
        <5>1. WillAgree(send[c], view[c], s)
          BY <1>7, <1>8, <2>3, <4>2 DEF Tracks
        <5>2. ~Concerns(Hub!Update(Head(msgs)), s)
          BY <1>4, <4>2 DEF Concerns
        <5>. QED
          BY <1>2, <1>4, <2>2, <5>1, <5>2, ChannelAppend
      <4>. QED
        BY <4>1, <4>2
    <3>. QED
      BY <1>1, <3>1 DEF WillAgree, Agrees, Says, Concerns
  <2>4. ASSUME handler[c] \in {"details", "put"}, NEW s \in DOMAIN board, ~UnderWay(s)'
        PROVE  Covered(c, s)'
    <3>1. /\ Len(send[c]) \in Nat /\ DOMAIN send[c] = 1..Len(send[c])
          /\ DOMAIN send'[c] = 1..(Len(send[c]) + 1)
          /\ \A n \in 1..Len(send[c]) : send'[c][n] = send[c][n]
          /\ send'[c][Len(send[c]) + 1] = Hub!Update(Head(msgs))
      BY <1>2, <1>4, <2>2, AppendTo
    <3>2. CASE log[Head(msgs)] = s
      <4>1. /\ Len(send[c]) + 1 \in DOMAIN send'[c]
            /\ send'[c][Len(send[c]) + 1].event = board[s]
        BY <1>2, <1>4, <1>7, <1>8, <2>4, <3>1, <3>2
      <4>. QED
        BY <1>1, <4>1 DEF Covered
    <3>3. CASE log[Head(msgs)] # s
      <4>1. ~UnderWay(s) /\ Covered(c, s)
        BY <1>2, <1>7, <1>8, <2>4, <3>3 DEF Tracks
      <4>. QED
        BY <1>1, <3>1, <4>1 DEF Covered
    <3>. QED
      BY <3>2, <3>3
  <2>. QED
    BY <1>1, <2>3, <2>4 DEF Tracks, Covered
<1>9. ASSUME NEW c \in Clients, handler[c] \notin {"serving", "details", "put"}
      PROVE  Tracks(c)'
  BY <1>1, <1>9 DEF Tracks
<1>. QED
  BY <1>1, <1>2, <1>5, <1>8, <1>9, Excuses
\* What a handler reads is the board, or the board as it was of submissions that had an
\* entry; what it lacks is under way, or is in its client's channel already.
LEMMA ReadFollowed ==
  ASSUME Typed, Followed, NEW c \in Clients, Hub!ReadRanking(c) \/ Hub!ReadDetails(c)
  PROVE  Followed'
<1>1. UNCHANGED <<log, board, pubsub, msgs, send, view>>
  BY DEF Hub!ReadRanking, Hub!ReadDetails
<1>2. excused \subseteq excused' /\ excused' \subseteq Clients
  BY DEF Hub!ReadRanking, Hub!ReadDetails, Typed, HubTyped
<1>3. (\A s : UnderWay(s) => UnderWay(s)') /\ (Fresh => Fresh')
  BY <1>1 DEF UnderWay, Concerned, Fresh, UpToDate
<1>4. ASSUME NEW d \in Clients, d # c, Tracks(d)
      PROVE  Tracks(d)'
  <2>1. handler'[d] = handler[d] /\ snapshot'[d] = snapshot[d]
    BY <1>4 DEF Hub!ReadRanking, Hub!ReadDetails, Typed, HubTyped
  <2>. QED
    BY <1>1, <1>3, <1>4, <2>1, ClientStays
<1>5. ASSUME Tracks(c), c \notin excused'
      PROVE  Tracks(c)'
  <2>1. CASE Hub!ReadRanking(c)
    <3>1. snapshot'[c] = board /\ handler'[c] = "details"
      BY <1>5, <2>1 DEF Hub!ReadRanking, Typed, HubTyped
    <3>. QED
      BY <1>1, <3>1 DEF Tracks, Covered
  <2>2. CASE Hub!ReadDetails(c)
    <3>1. /\ handler[c] = "details" /\ handler'[c] = "put"
          /\ snapshot'[c] = [s \in DOMAIN snapshot[c] |-> board[s]]
      <4>1. PICK missing \in SUBSET DOMAIN snapshot[c] :
              /\ snapshot' = [snapshot EXCEPT ![c] =
                   [s \in DOMAIN snapshot[c] |-> IF s \in missing THEN Hub!Stripped ELSE board[s]]]
              /\ missing = {} \/ excused' = excused \cup {c}
        BY <2>2 DEF Hub!ReadDetails
      <4>2. missing = {}
        BY <1>5, <4>1
      <4>3. handler[c] = "details" /\ handler'[c] = "put"
        BY <2>2 DEF Hub!ReadDetails, Typed, HubTyped
      <4>. QED
        BY <4>1, <4>2, <4>3 DEF Typed, HubTyped
    <3>2. ASSUME NEW s \in DOMAIN board
          PROVE  Covered(c, s)'
      <4>1. Covered(c, s)
        BY <1>5, <3>1 DEF Tracks
      <4>2. CASE s \in DOMAIN snapshot[c]
        BY <1>1, <3>1, <4>2 DEF Covered
      <4>3. CASE s \notin DOMAIN snapshot[c]
        BY <1>1, <1>3, <4>1, <4>3 DEF Covered
      <4>. QED
        BY <4>2, <4>3
    <3>. QED
      BY <1>1, <3>1, <3>2 DEF Tracks
  <2>. QED
    BY <2>1, <2>2
<1>. QED
  BY <1>2, <1>3, <1>4, <1>5, Excuses

\* A snapshot that no update has overtaken agrees with the board on all that is not
\* under way.
LEMMA PutFollowed ==
  ASSUME Typed, Followed, NEW c \in Clients, Hub!PutSnapshot(c), excused' \subseteq Clients
  PROVE  Followed'
<1>1. /\ handler[c] = "put" /\ handler' = [handler EXCEPT ![c] = "serving"]
      /\ send' = IF Hub!Room(c) THEN [send EXCEPT ![c] = Append(@, Hub!Snapshot(snapshot[c]))]
                 ELSE send
      /\ excused' = IF ~Hub!Room(c) \/ Hub!Overtaken(c) THEN excused \cup {c} ELSE excused
      /\ UNCHANGED <<log, board, pubsub, msgs, snapshot, view>>
  BY DEF Hub!PutSnapshot
<1>2. excused \subseteq excused'
  BY <1>1
<1>3. (\A s : UnderWay(s) <=> UnderWay(s)') /\ (Fresh => Fresh')
  BY <1>1 DEF UnderWay, Concerned, Fresh, UpToDate
<1>4. ASSUME NEW d \in Clients, d # c, Tracks(d)
      PROVE  Tracks(d)'
  <2>1. handler'[d] = handler[d] /\ send'[d] = send[d]
    BY <1>1, <1>4 DEF Typed, HubTyped
  <2>. QED
    BY <1>1, <1>3, <1>4, <2>1, ClientStays
<1>5. ASSUME Tracks(c), c \notin excused'
      PROVE  Tracks(c)'
  <2>1. Hub!Room(c) /\ ~Hub!Overtaken(c)
    BY <1>1, <1>5
  <2>2. /\ handler'[c] = "serving" /\ send'[c] = Append(send[c], Hub!Snapshot(snapshot[c]))
        /\ send[c] \in Seq(Messages) /\ snapshot[c] \in Maps(Entry)
        /\ DOMAIN snapshot[c] \subseteq DOMAIN board /\ Sound(board)
    BY <1>1, <2>1 DEF Typed, HubTyped, RedisTyped
  <2>3. Hub!Snapshot(snapshot[c]) \in Messages
    BY <2>2 DEF Hub!Snapshot, Messages
  <2>4. ASSUME NEW s \in DOMAIN board, ~UnderWay(s)
        PROVE  s \in DOMAIN snapshot[c] /\ snapshot[c][s] = board[s]
    <3>1. Covered(c, s)
      BY <1>1, <1>5 DEF Tracks
    <3>2. CASE \E n \in DOMAIN send[c] : send[c][n].event = board[s]
      <4>1. PICK n \in DOMAIN send[c] : send[c][n].event = board[s]
        BY <3>2
      <4>2. log[board[s]] = s
        BY <2>2 DEF Sound
      <4>. QED
        BY <2>1, <4>1, <4>2 DEF Hub!Overtaken
    <3>. QED
      BY <1>1, <2>4, <3>1, <3>2 DEF Covered
  <2>5. ASSUME NEW s \in Submissions, ~UnderWay(s)
        PROVE  WillAgree(send'[c], view[c], s)
    <3>1. Agrees(snapshot[c], s)
      BY <2>2, <2>4, <2>5 DEF Agrees
    <3>2. Concerns(Hub!Snapshot(snapshot[c]), s) /\ Says(Hub!Snapshot(snapshot[c]), s)
      BY <3>1 DEF Concerns, Says, Hub!Snapshot
    <3>. QED
      BY <2>2, <2>3, <3>2, ChannelAppend
  <2>6. \A s \in Submissions : UnderWay(s)' \/ WillAgree(send[c], view[c], s)'
    <3>1. \A s \in Submissions : WillAgree(send'[c], view[c], s) => WillAgree(send[c], view[c], s)'
      BY <1>1 DEF WillAgree, Agrees, Says, Concerns
    <3>. QED
      BY <1>3, <2>5, <3>1
  <2>. QED
    BY <2>2, <2>6 DEF Tracks
<1>. QED
  BY <1>2, <1>3, <1>4, <1>5, Excuses

\* A message goes from the channel to the page.
LEMMA WriteFollowed ==
  ASSUME Typed, Registered, Followed, NEW c \in Clients, Hub!WriteToClient(c)
  PROVE  Followed'
<1>1. /\ writer[c] = "up" /\ send[c] # << >> /\ send' = [send EXCEPT ![c] = Tail(@)]
      /\ view' = [view EXCEPT ![c] = Hub!Shown(@, Head(send[c]))]
      /\ UNCHANGED <<log, board, pubsub, msgs, handler, snapshot, excused>>
  BY DEF Hub!WriteToClient
<1>2. excused' = excused /\ excused \subseteq Clients
  BY <1>1 DEF Typed, HubTyped
<1>3. (\A s : UnderWay(s) <=> UnderWay(s)') /\ (Fresh => Fresh')
  BY <1>1 DEF UnderWay, Concerned, Fresh, UpToDate
<1>4. ASSUME NEW d \in Clients, d # c, Tracks(d)
      PROVE  Tracks(d)'
  <2>1. view'[d] = view[d] /\ send'[d] = send[d]
    BY <1>1, <1>4 DEF Typed, HubTyped
  <2>. QED
    BY <1>1, <1>3, <1>4, <2>1, ClientStays
<1>5. ASSUME Tracks(c)
      PROVE  Tracks(c)'
  <2>1. /\ send'[c] = Tail(send[c]) /\ view'[c] = Hub!Shown(view[c], Head(send[c]))
        /\ send[c] \in Seq(Messages)
    BY <1>1 DEF Typed, HubTyped
  <2>2. handler[c] \notin {"details", "put"}
    BY <1>1 DEF Registered
  <2>3. \A s : WillAgree(send[c], view[c], s) => WillAgree(send'[c], view'[c], s)
    BY <1>1, <2>1, ChannelTail
  <2>4. \A s : WillAgree(send'[c], view'[c], s) => WillAgree(send[c], view[c], s)'
    BY <1>1 DEF WillAgree, Agrees, Says, Concerns
  <2>. QED
    BY <1>1, <1>3, <1>5, <2>2, <2>3, <2>4 DEF Tracks
<1>. QED
  BY <1>2, <1>3, <1>4, <1>5, Excuses

\* Every step keeps the pages and the board in step, or excuses the page.
LEMMA FollowedNext ==
  ASSUME Typed, Accounted, Registered, Followed, [Next]_vars
  PROVE  Followed'
<1>1. excused \subseteq Clients /\ excused' \subseteq Clients
  BY TypedNext DEF Typed, HubTyped
<1>2. CASE \E s \in Submissions \cup {Malformed} : EmitMetrics(s)
  <2>1. PICK s \in Submissions \cup {Malformed} : EmitMetrics(s)
    BY <1>2
  <2>2. Grows /\ UNCHANGED <<board, pubsub, hub>>
    BY <2>1, EmitTyped DEF EmitMetrics, Ingester!EmitMetrics, Ingester!redis
  <2>. QED
    BY <2>2, EmitFollowed
<1>3. CASE UNCHANGED <<log, board, pubsub, hub>>
  <2>1. /\ UNCHANGED <<log, board, pubsub, msgs, send, view, snapshot, handler>>
        /\ excused' = excused
    BY <1>3 DEF hub
  <2>. QED
    BY <1>1, <2>1, FollowedStays
<1>4. ASSUME NEW m \in Members, ConsumerStep(m)
      PROVE  Followed'
  <2>1. CASE Ingester!UpdateLeaderboard(m)
    BY <1>4, <2>1, UpdateFollowed DEF ConsumerStep
  <2>2. CASE \/ Ingester!PollFetches(m) \/ Ingester!SkipMalformed(m) \/ Ingester!HandleEvent(m)
             \/ Ingester!CommitOffsets(m) \/ Ingester!RunReturns(m) \/ Ingester!CloseReturns(m)
             \/ Ingester!Start(m)
    BY <1>3, <1>4, <2>2 DEF ConsumerStep, Ingester!PollFetches, Ingester!SkipMalformed,
       Ingester!HandleEvent, Ingester!CommitOffsets, Ingester!RunReturns, Ingester!CloseReturns,
       Ingester!Start, Ingester!redis
  <2>. QED
    BY <1>4, <2>1, <2>2 DEF ConsumerStep, Ingester!ConsumerStep
<1>5. ASSUME NEW m \in Members, FlusherStep(m) \/ Disturbance(m) \/ Assign(m)
      PROVE  Followed'
  BY <1>3, <1>5 DEF FlusherStep, Ingester!FlusherStep, Ingester!TakeBuffer, Ingester!WriteBatch,
     Disturbance, Ingester!Disturbance, Ingester!WriteHangs, Ingester!Stop, Ingester!Crash,
     Assign, Ingester!Assign, Ingester!redis
<1>10. CASE LateCommit
  BY <1>3, <1>10 DEF LateCommit, Ingester!LateCommit, Ingester!redis
<1>6. CASE Receive
  BY <1>1, <1>6, ReceiveFollowed DEF Receive
<1>7. CASE HubStep
  <2>1. CASE Hub!HubFansOut
    BY <1>1, <2>1, FanOutFollowed
  <2>2. CASE Hub!HubRegisters \/ Hub!HubUnregisters
    <3>1. UNCHANGED <<log, board, pubsub, msgs, send, view, snapshot, handler, excused>>
      BY <2>2 DEF Hub!HubRegisters, Hub!HubUnregisters
    <3>. QED
      BY <1>1, <3>1, FollowedStays
  <2>. QED
    BY <1>7, <2>1, <2>2 DEF HubStep, Hub!HubStep
<1>8. ASSUME NEW c \in Clients, HandlerStep(c) \/ Visitor(c)
      PROVE  Followed'
  <2>1. CASE Hub!ReadRanking(c) \/ Hub!ReadDetails(c)
    BY <2>1, ReadFollowed
  <2>2. CASE Hub!PutSnapshot(c)
    BY <1>1, <2>2, PutFollowed
  <2>3. CASE Hub!WriteToClient(c)
    BY <2>3, WriteFollowed
  <2>4. CASE Hub!Connect(c) \/ Hub!GoAway(c) \/ Hub!ReadFails(c) \/ Hub!Leave(c)
             \/ Hub!WriterEnds(c)
    <3>1. /\ UNCHANGED <<log, board, pubsub, msgs, send, view, snapshot, excused>>
          /\ \A d \in Clients : handler'[d] \in {handler[d], "rank", "leaving", "left"}
      BY <2>4 DEF Hub!Connect, Hub!GoAway, Hub!ReadFails, Hub!Leave, Hub!WriterEnds, Typed, HubTyped
    <3>. QED
      BY <1>1, <3>1, FollowedStays
  <2>. QED
    BY <1>8, <2>1, <2>2, <2>3, <2>4 DEF HandlerStep, Visitor, Hub!HandlerStep
<1>9. CASE UNCHANGED vars
  BY <1>3, <1>9 DEF vars, redis
<1>. QED
  BY <1>2, <1>4, <1>5, <1>6, <1>7, <1>8, <1>9, <1>10 DEF Next

-----------------------------------------------------------------------------
(* The invariant.                                                           *)

\* Every step keeps the invariant.
LEMMA Inductive ==
  ASSUME IInv, [Next]_vars
  PROVE  IInv'
<1>1. Typed' /\ Accounted'
  BY TypedNext DEF IInv
<1>2. Registered' /\ Followed'
  BY RegisteredNext, FollowedNext DEF IInv
<1>3. Ordered'
  BY OrderNext DEF IInv
<1>. QED
  BY <1>1, <1>2, <1>3 DEF IInv

\* The inductive invariant holds of every reachable state.
THEOREM Invariance == Spec => []IInv
<1>1. Init => IInv
  BY TypedInit, OrderInit, RegisteredInit, FollowedInit DEF IInv
<1>2. IInv /\ [Next]_vars => IInv'
  BY Inductive
<1>. QED
  BY <1>1, <1>2, PTL DEF Spec

\* Every variable of the ingester and of the hub keeps its type, the group's offset stays
\* between the first record and the end of the log, and no channel outgrows the capacity
\* it was made with (leaderboard-ws/hub.go:27-34, 115).
THEOREM Types == Spec => []TypeOK
<1>1. ASSUME IInv
      PROVE  TypeOK
  <2>1. Readable \subseteq Events
    BY <1>1, FeedAssumption DEF IInv, Typed, IngesterTyped, Readable, Events
  <2>2. \A f \in Maps(Readable) : f \in Maps(Events)
    BY <2>1, MapsGrow
  <2>3. Entry \subseteq Entries
    BY <2>1 DEF Entry, Entries
  <2>4. \A f \in Maps(Entry) : f \in Maps(Entries)
    BY <2>3, MapsGrow
  <2>5. \A m \in Members : ToSet(buffer[m]) \cup ToSet(batch[m]) \subseteq ingested
    BY <1>1, OffsetsAre DEF IInv
  <2>. QED
    BY <1>1, <2>2, <2>4, <2>5 DEF IInv, Typed, IngesterTyped, FlusherTyped, RedisTyped, HubTyped, TypeOK
<1>. QED
  BY <1>1, Invariance, PTL

\* An offset is committed only once every well-formed record before it has been handed to
\* an ingester: failed calls, malformed records, a SIGTERM, a crash or a rebalance in mid
\* batch never make the group skip one (telemetry-ingester/consumer.go:32-75).
CommittedIngested == \A e \in 1..(committed - 1) : WellFormed(e) => e \in ingested

\* No committed record was skipped, whatever failed and whenever the process died.
THEOREM Offsets == Spec => []CommittedIngested
<1>1. ASSUME IInv
      PROVE  CommittedIngested
  <2>1. \A e \in 1..(committed - 1) : e \in 1..Len(log)
    BY <1>1 DEF IInv, Typed, IngesterTyped
  <2>. QED
    BY <1>1, <2>1 DEF IInv, Accounted, Ready, CommittedIngested, WellFormed, Readable
<1>. QED
  BY <1>1, Invariance, PTL

\* The score stored for a submission is at least as recent as any of its events that is
\* stored, across retries, given-up batches, restarts and rebalances, unless an event of it
\* was handled again after a later one, two processes held events of it at a time, or a
\* write of one was given up without an answer (ingester.go:139, 159-181, consumer.go:71).
THEOREM NewestScores == Spec => []LatestScoreStored
<1>1. IInv => LatestScoreStored
  BY DEF IInv, Ordered, LatestScoreStored
<1>. QED
  BY <1>1, Invariance, PTL

\* A channel is closed at most once, after its handler has left and when no request about
\* its client is left in the hub's queues: neither the hub's fan-out nor a handler's
\* snapshot can meet it (leaderboard-ws/hub.go:48-70, 126).
THEOREM ClosedAreForgotten == Spec => []HubNeverPanics
<1>1. IInv => HubNeverPanics
  BY DEF IInv, Registered, HubNeverPanics
<1>. QED
  BY <1>1, Invariance, PTL

\* A page is out of date for good only after one of the events the model counts: a lost or
\* dropped publication, no snapshot, one with stripped entries, an update sent before the
\* registration, or one that overtook the snapshot (hub.go:61-70, 78-80, 115-129, 194,
\* 208-217).
THEOREM PagesKeepUp == Spec => []StalenessExplained
<1>1. ASSUME IInv, NEW c \in Clients, Quiet(c), c \notin excused
      PROVE  view[c] = board
  <2>1. /\ Tracks(c) /\ handler[c] = "serving"
        /\ send[c] = << >> /\ pubsub = << >> /\ msgs = << >>
    BY <1>1 DEF IInv, Followed, Quiet
  <2>2. DOMAIN send[c] = {} /\ DOMAIN pubsub = {} /\ DOMAIN msgs = {}
    BY <2>1
  <2>3. \A s \in Submissions : Agrees(view[c], s)
    BY <2>1, <2>2 DEF Tracks, UnderWay, Concerned, WillAgree
  <2>4. view[c] \in Maps(Entry) /\ board \in Maps(Readable)
    BY <1>1 DEF IInv, Typed, HubTyped, RedisTyped
  <2>5. /\ DOMAIN view[c] \subseteq Submissions /\ DOMAIN board \subseteq Submissions
        /\ view[c] \in [DOMAIN view[c] -> Entry] /\ board \in [DOMAIN board -> Readable]
    BY <2>4, MapIs
  <2>6. DOMAIN view[c] = DOMAIN board /\ \A s \in DOMAIN board : view[c][s] = board[s]
    BY <2>3, <2>5 DEF Agrees
  <2>. QED
    BY <2>5, <2>6
<1>2. IInv => StalenessExplained
  BY <1>1 DEF StalenessExplained
<1>. QED
  BY <1>2, Invariance, PTL
=============================================================================
