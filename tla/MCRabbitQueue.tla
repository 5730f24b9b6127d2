---------------------------- MODULE MCRabbitQueue ----------------------------
(***************************************************************************)
(* Instances of RabbitQueue for TLC.                                       *)
(***************************************************************************)
EXTENDS RabbitQueue, TLC

Symmetry == Permutations(Messages)
=============================================================================
