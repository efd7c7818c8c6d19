------------------------------- MODULE Common -------------------------------
(***************************************************************************)
(* What the modules of Coroot's storage side share: the replicas of the    *)
(* program, and a value for "nothing".                                     *)
(***************************************************************************)
EXTENDS Naturals

CONSTANTS Replicas, None

ASSUME CommonAssumption == None \notin Replicas
=============================================================================
