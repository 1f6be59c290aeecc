----------------------------- MODULE MCOrderBook -----------------------------
(***************************************************************************)
(* Instances of OrderBook for TLC.  Sessions and order ids are never        *)
(* compared but for equality, so both are quotiented by their permutations. *)
(***************************************************************************)
EXTENDS OrderBook, TLC

Symmetry == Permutations(Sessions) \cup Permutations(OrderIds)
=============================================================================
