-------------------------- MODULE MCTrainingService --------------------------
(* TrainingService on small instances: two interchangeable workers. *)
EXTENDS TrainingService, TLC

Symmetry == Permutations(Workers) \cup Permutations(Configs)
=============================================================================
