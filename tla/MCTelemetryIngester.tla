-------------------------- MODULE MCTelemetryIngester --------------------------
(***************************************************************************)
(* The ingester alone: the hub only takes what Redis publishes, so nothing  *)
(* is lost by leaving it where it starts.                                   *)
(***************************************************************************)
EXTENDS LeaderboardFeed

Alone ==
  \/ \E s \in Submissions \cup {Malformed} : EmitMetrics(s)
  \/ \E m \in Members : ConsumerStep(m) \/ FlusherStep(m) \/ Disturbance(m) \/ Assign(m)
  \/ LateCommit

MCSpec ==
  /\ Init /\ [][Alone]_vars
  /\ \A m \in Members : WF_vars(ConsumerStep(m)) /\ WF_vars(FlusherStep(m))
  /\ WF_vars(FirstAssignment)
=============================================================================
