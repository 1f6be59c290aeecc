-------------------------- MODULE MCSubmissionPipeline --------------------------
(***************************************************************************)
(* Instances of SubmissionPipeline for TLC.  Requests and the replicas of a *)
(* service are never compared but for equality: the safety runs quotient by *)
(* their permutations.                                                      *)
(***************************************************************************)
EXTENDS SubmissionPipeline, TLC

Symmetry == Permutations(Confirms) \cup Permutations(Builders) \cup Permutations(Deployers)
=============================================================================
