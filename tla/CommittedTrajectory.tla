------------------------- MODULE CommittedTrajectory -------------------------
(***************************************************************************)
(* What the training service promises its callers, with no worker, fence,   *)
(* recovery checkpoint or crash in sight: one session is one sequence of    *)
(* checkpoints; an advance extends it from its last checkpoint by exactly   *)
(* the steps asked for, at most once, whoever retries it; an answer is only *)
(* ever given for an advance that took effect, and is the same every time;  *)
(* once sealed the sequence is final.                                       *)
(***************************************************************************)
EXTENDS Integers, Sequences

CONSTANTS Configs, Requests, Notes, Nil

VARIABLES
  config,      \* the session's configuration, Nil before it exists
  trajectory,  \* step cursors of the committed checkpoints
  sealed,
  done,        \* the advances that took effect
  answered     \* those whose outcome a caller has been given

vars == <<config, trajectory, sealed, done, answered>>

Init ==
  /\ config = Nil
  /\ trajectory = <<>>
  /\ sealed = FALSE
  /\ done = {}
  /\ answered = {}

Open(c) ==
  /\ config = Nil
  /\ config' = c
  /\ trajectory' = <<0>>
  /\ UNCHANGED <<sealed, done, answered>>

\* An advance is identified by the checkpoint it starts from (an index of the
\* trajectory), its number of steps and its note.
Advance(n, note) ==
  /\ config # Nil
  /\ ~sealed
  /\ n >= 1
  /\ trajectory' = Append(trajectory, trajectory[Len(trajectory)] + n)
  /\ done' = done \cup {[from |-> Len(trajectory), steps |-> n, note |-> note,
                         to |-> Len(trajectory) + 1]}
  /\ UNCHANGED <<config, sealed, answered>>

Answer(d) ==
  /\ d \in done
  /\ answered' = answered \cup {d}
  /\ UNCHANGED <<config, trajectory, sealed, done>>

CompleteSession ==
  /\ config # Nil
  /\ sealed' = TRUE
  /\ UNCHANGED <<config, trajectory, done, answered>>

Next ==
  \/ \E c \in Configs : Open(c)
  \/ \E n \in Requests, note \in Notes : Advance(n, note)
  \/ \E d \in done : Answer(d)
  \/ CompleteSession

Spec == Init /\ [][Next]_vars

-----------------------------------------------------------------------------
\* Every checkpoint after the first is the work of exactly one advance, from the
\* one before it and by as many steps as that advance asked for: an optimizer
\* trajectory is never double-stepped, nor advanced from one checkpoint twice.
ExactlyOnce ==
  /\ \A i \in 2..Len(trajectory) : \E d \in done : {e \in done : e.to = i} = {d}
  /\ \A d \in done :
       /\ d.to \in 2..Len(trajectory) /\ d.from = d.to - 1
       /\ trajectory[d.to] = trajectory[d.from] + d.steps
=============================================================================
