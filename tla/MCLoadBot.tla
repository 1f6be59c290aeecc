------------------------------- MODULE MCLoadBot -------------------------------
(***************************************************************************)
(* Instances of LoadBot for TLC: a short sequence with an order of its own  *)
(* and one that is cancelled.                                               *)
(***************************************************************************)
EXTENDS LoadBot

ShortSequence ==
  <<[type |-> "market", tag |-> "sweep"], [type |-> "limit", tag |-> "probe"],
    [type |-> "cancel", tag |-> "probe"]>>
=============================================================================
