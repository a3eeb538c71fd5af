----------------------------- MODULE MCRolling ------------------------------
(***************************************************************************)
(* Two emissions of a whole epoch's cap each, on both sides of an edge     *)
(* between two epochs.                                                     *)
(***************************************************************************)
EXTENDS Emissions

MCAmount == [e \in Emissions |-> EPOCH_CAP]
=============================================================================
