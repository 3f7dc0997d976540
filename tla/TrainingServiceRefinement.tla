---------------------- MODULE TrainingServiceRefinement ----------------------
(***************************************************************************)
(* TrainingService implements CommittedTrajectory: the ledger's rows are    *)
(* the trajectory, its committed operations are the advances that took      *)
(* effect.  A checkpoint is identified by its position among the rows.      *)
(***************************************************************************)
EXTENDS TrainingService

IndexOf(m) == CHOOSE i \in 1..Len(rows) : rows[i].manifest = m

Done == {[from |-> IndexOf(o.input), steps |-> o.steps, note |-> o.note,
          to |-> IndexOf(ops[o].output)] : o \in {x \in DOMAIN ops : IsCommitted(x)}}

AdvanceAnswers == {a \in answers : a.op.kind = "advance"}

Answered == {[from |-> IndexOf(a.op.handle.manifest), steps |-> a.op.steps,
              note |-> a.op.note, to |-> IndexOf(a.handle.manifest)] : a \in AdvanceAnswers}

Trajectory == INSTANCE CommittedTrajectory WITH
  config <- sessionConfig,
  trajectory <- [i \in 1..Len(rows) |-> rows[i].step],
  sealed <- completed,
  done <- Done,
  answered <- Answered

\* The service, with its fences, recovery checkpoints, pauses, kills and
\* retries, is an implementation of the exactly-once trajectory ("a node
\* invocation can crash or be retried at any point without double-stepping an
\* optimizer trajectory").
ImplementsTrajectory == Trajectory!Spec

\* What that promise comes to, in the ledger: two calls that compete for a head,
\* in whatever order their claims, takeovers and commits fall, never both commit,
\* and no committed checkpoint is without the operation that led to it.
AdvancesOnce == Trajectory!ExactlyOnce
=============================================================================
