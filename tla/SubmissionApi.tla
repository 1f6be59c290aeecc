----------------------------- MODULE SubmissionApi -----------------------------
(***************************************************************************)
(* submission-api: the two-phase upload.  POST /submissions makes an id and *)
(* remembers it in the memory of one replica; the confirm request loads the *)
(* entry, publishes submission.created and deletes the entry, with no lock  *)
(* around the three.  Requests that are rejected change nothing.            *)
(***************************************************************************)
EXTENDS Naturals, Sequences

CONSTANTS Submissions, NoSubmission,
          Confirms,      \* confirm requests, each sent at most once
          MaxTroubles,
          MaxMoves       \* bound: confirms of an upload that is being confirmed already

VARIABLES
  log, troubles,
  moves,      \* how many of them there were
  pending,    \* Handler.pending
  issued,     \* ids given out: a UUID is never given out twice
  confirm     \* per request: "idle", "done", or the step of [at, sub] it is at

Idle == [at |-> "idle", sub |-> NoSubmission]
Done == [at |-> "done", sub |-> NoSubmission]

InitApi ==
  /\ pending = {} /\ issued = {}
  /\ confirm = [c \in Confirms |-> Idle]

SubmitInit(s) ==
  /\ s \notin issued
  /\ pending' = pending \cup {s} /\ issued' = issued \cup {s}
  /\ UNCHANGED <<log, troubles, moves, confirm>>

(* handleConfirm: Load, publish, Delete.                                    *)
LoadPending(c, s) ==
  /\ confirm[c].at = "idle" /\ s \in pending
  /\ moves' = IF \E d \in Confirms : confirm[d].sub = s THEN moves + 1 ELSE moves
  /\ moves' <= MaxMoves
  /\ confirm' = [confirm EXCEPT ![c] = [at |-> "publish", sub |-> s]]
  /\ UNCHANGED <<log, troubles, pending, issued>>

\* A produce that fails, or whose answer is lost, is a 500: the entry stays, for
\* the client to try again.
PublishSubmissionCreated(c) ==
  /\ confirm[c].at = "publish"
  /\ \/ /\ log' = Append(log, [kind |-> "created", sub |-> confirm[c].sub])
        /\ confirm' = [confirm EXCEPT ![c].at = "delete"]
        /\ UNCHANGED troubles
     \/ /\ troubles < MaxTroubles /\ troubles' = troubles + 1
        /\ \/ log' = log
           \/ log' = Append(log, [kind |-> "created", sub |-> confirm[c].sub])
        /\ confirm' = [confirm EXCEPT ![c] = Done]
  /\ UNCHANGED <<moves, pending, issued>>

DeletePending(c) ==
  /\ confirm[c].at = "delete"
  /\ pending' = pending \ {confirm[c].sub}
  /\ confirm' = [confirm EXCEPT ![c] = Done]
  /\ UNCHANGED <<log, troubles, moves, issued>>

(* A restart forgets every upload that was not confirmed.                   *)
ApiRestarts ==
  /\ troubles < MaxTroubles
  /\ troubles' = troubles + 1
  /\ pending' = {}
  /\ confirm' = [c \in Confirms |-> IF confirm[c] = Idle THEN Idle ELSE Done]
  /\ UNCHANGED <<log, moves, issued>>

ApiStep ==
  \/ \E s \in Submissions : SubmitInit(s) \/ \E c \in Confirms : LoadPending(c, s)
  \/ \E c \in Confirms : PublishSubmissionCreated(c) \/ DeletePending(c)
  \/ ApiRestarts
=============================================================================
