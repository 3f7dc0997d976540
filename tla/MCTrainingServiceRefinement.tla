-------------------- MODULE MCTrainingServiceRefinement --------------------
(* The refinement of CommittedTrajectory on small instances. *)
EXTENDS TrainingServiceRefinement, TLC

Symmetry == Permutations(Workers)
=============================================================================
