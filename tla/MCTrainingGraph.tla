-------------------------- MODULE MCTrainingGraph --------------------------
(* Graphs of one session, after tests/test_training_pack.py: a fold over two *)
(* intervals; from a handle literal, an advance that competes with one of    *)
(* its iterations and a completion; a create with another configuration.     *)
EXTENDS TrainingGraph, TLC

CONSTANTS c1, c2

Interval(n, note) == [steps |-> n, note |-> note]
Fold(first, second) ==
  [config |-> c1, intervals |-> <<Interval(first, "a"), Interval(second, "a")>>,
   finish |-> FALSE]
Diverging == [config |-> Nil, intervals |-> <<Interval(1, "b")>>, finish |-> FALSE]
Longer == [config |-> Nil, intervals |-> <<Interval(2, "a")>>, finish |-> FALSE]
Finishing == [config |-> Nil, intervals |-> <<>>, finish |-> TRUE]
Foreign == [config |-> c2, intervals |-> <<>>, finish |-> FALSE]

CompetingGraphs == {Fold(1, 1), Diverging, Longer, Finishing, Foreign}
RerunGraphs == {Fold(2, 1)}
Symmetry == Permutations(Workers)
=============================================================================
