--------------------------- MODULE MCCheckpointFiles ---------------------------
(* CheckpointFiles on small instances: two checkpoints that share a shard. *)
EXTENDS CheckpointFiles, TLC

CONSTANTS c1, c2, config, adapter1, adapter2

SharedConfig == c1 :> <<config, adapter1>> @@ c2 :> <<config, adapter2>>
OneShard == c1 :> <<adapter1>>
Symmetry == Permutations(Writers)
=============================================================================
