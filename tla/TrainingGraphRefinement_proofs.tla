------------------- MODULE TrainingGraphRefinement_proofs -------------------
(***************************************************************************)
(* The fake backend, under the graphs that call it, implements              *)
(* CommittedTrajectory for every number of workers, of graphs, of kills and *)
(* of pauses.  It rests on the same facts as the service's refinement: rows *)
(* are in the order of their steps, a committed operation led from a row to *)
(* the next, an answer is a copy of a committed record.  With the place of  *)
(* each run among the rows they also show which handle a run carries, that  *)
(* no run goes beyond its bound, and how many steps at most are run again. *)
(***************************************************************************)
EXTENDS TrainingGraph_proofs

-----------------------------------------------------------------------------
(* The invariant. *)

AdvanceLabels == Claimed \cup {"claim", "answer"}

Requested(steps, note) == \E i \in Intervals : steps = i.steps /\ note = i.note

\* The call is an advance a graph asks for, from a checkpoint of the session.
Advancing(w) ==
  /\ Ready(w)
  /\ call[w].steps >= 1
  /\ Requested(call[w].steps, call[w].note)

CallOK(w) ==
  /\ pc[w] \in AdvanceLabels => call[w].kind = "advance"
  /\ pc[w] \in AdvanceLabels \cup {"fence"} /\ call[w].kind = "advance" => Advancing(w)
  /\ pc[w] \in {"fence", "seal"} => sessionConfig # Nil
  /\ pc[w] \in Claimed => Operation(w) \in DOMAIN ops
  /\ pc[w] = "answer" => IsCommitted(Operation(w))

RunOK(w) ==
  run[w] # Nil => /\ run[w].at \in Nat
                  /\ run[w].at = 0 => run[w].graph.config # Nil

AdvanceOf(op) == [input |-> op.handle.manifest, steps |-> op.steps, note |-> op.note]

\* An answer to an advance copies its record.
AnswerOK(a) ==
  a.op.kind = "advance" =>
    /\ a.op.handle.manifest.step = a.op.handle.step
    /\ IsCommitted(AdvanceOf(a.op))
    /\ a.handle.step = ops[AdvanceOf(a.op)].output.step

\* A session that is there has a first row.
Opened ==
  /\ sessionConfig = Nil => rows = <<>>
  /\ sessionConfig # Nil => Len(rows) > 0

\* Rows are in the order of their steps, which their manifests name.
Ordered ==
  /\ \A i \in 1..Len(rows) : rows[i].manifest.step = rows[i].step
  /\ \A i, j \in 1..Len(rows) : i < j => rows[i].step < rows[j].step

\* A committed operation led from a row to the next, and records its step.
Led(o) ==
  /\ ops[o].step = ops[o].output.step
  /\ \E i \in 1..Len(rows) : /\ i + 1 \in 1..Len(rows)
                             /\ rows[i].step = o.input.step
                             /\ rows[i + 1].step = ops[o].output.step

TrajectoryInv ==
  /\ Opened
  /\ Ordered
  /\ \A o : IsCommitted(o) => Led(o)
  /\ \A a \in answers : AnswerOK(a)
  /\ \A w \in Workers : CallOK(w) /\ RunOK(w)

-----------------------------------------------------------------------------
(* What a step does to the ledger. *)

\* The first row of a session is added when it is created.
Registered(w) ==
  /\ ExecuteCreate(w) /\ sessionConfig = Nil
  /\ sessionConfig' = run[w].graph.config
  /\ rows' = <<[manifest |-> Manifest(run[w].graph.config, 0), step |-> 0,
                seq |-> journal + 1, covered |-> journal]>>
  /\ ops' = ops

NewRow(w) == [manifest |-> Manifest(call[w].handle.config, Target(w)), step |-> Target(w),
              seq |-> journal + 1, covered |-> mark[w].covered]

\* A further one by a commit.
Extended(w) ==
  /\ Commit(w) /\ CommitAccepted(Operation(w), fence[w])
  /\ sessionConfig' = sessionConfig
  /\ rows' = Append(rows, NewRow(w))
  /\ ops' = [ops EXCEPT ![Operation(w)].status = "committed",
                        ![Operation(w)].output = Manifest(call[w].handle.config, Target(w)),
                        ![Operation(w)].step = Target(w), ![Operation(w)].seq = journal + 1]

\* Any other step keeps the rows and what is committed.
Kept ==
  /\ sessionConfig' = sessionConfig /\ rows' = rows
  /\ DOMAIN ops \subseteq DOMAIN ops'
  /\ \A o : IsCommitted(o)' <=> IsCommitted(o)
  /\ \A o : IsCommitted(o) => ops'[o] = ops[o]

LEMMA LedgerSteps ==
  ASSUME GraphInv, NEW w \in Workers, Act(w)
  PROVE  Registered(w) \/ Extended(w) \/ Kept
<1>1. UNCHANGED ledgerVars => Kept
  BY DEF ledgerVars, Kept, IsCommitted
<1>2. CASE Starts(w) \/ RunEnds(w) \/ NodeReturns(w) \/ RunFails(w)
  BY <1>1, <1>2 DEF Starts, StartGraph, StartLiteral, StartRun, RunEnds, NodeReturns, RunFails
<1>3. CASE ExecuteAdvance(w) \/ ExecuteComplete(w)
  BY <1>1, <1>3 DEF ExecuteAdvance, ExecuteComplete, Advance, Complete
<1>4. CASE ReturnCreated(w) \/ ClaimReplayed(w) \/ Step(w) \/ ReadCovered(w) \/ ReturnOutcome(w)
  BY <1>1, <1>4 DEF ReturnCreated, ClaimReplayed, Step, ReadCovered, ReturnOutcome
<1>5. CASE GetFence(w) \/ Seal(w) \/ Disturb(w)
  BY <1>1, <1>5 DEF GetFence, AcquireFence, Seal, CompleteSession, Disturb, PollCancelled, Kill,
              Kept, IsCommitted
<1>6. CASE ExecuteCreate(w)
  BY <1>1, <1>6 DEF ExecuteCreate, Create, CreateSession, CreateAccepted, Registered, Kept, IsCommitted
<1>7. CASE Claim(w) /\ ~UNCHANGED ledgerVars
  <2>0. PICK o : o = Operation(w)
    OBVIOUS
  <2>1. /\ ops' = [x \in DOMAIN ops \cup {o} |-> IF x = o THEN ClaimedRecord(o, fence[w]) ELSE ops[x]]
        /\ ~IsCommitted(o) /\ UNCHANGED <<sessionConfig, rows>>
    BY <1>7, <2>0 DEF Claim, ClaimAdvance
  <2>2. ops'[o].status = "started"
    BY <2>1 DEF ClaimedRecord, GraphInv, OperationOK, RecordFields
  <2> QED
    BY <2>1, <2>2 DEF Kept, IsCommitted
<1>8. CASE RecordRecovery(w) /\ ~UNCHANGED ledgerVars
  <2>0. PICK o, m : o = Operation(w) /\ m = Manifest(call[w].handle.config, mark[w].current)
    OBVIOUS
  <2>1. /\ ops' = [ops EXCEPT ![o].recovery = m]
        /\ ~IsCommitted(o) /\ UNCHANGED <<sessionConfig, rows>>
    BY <1>8, <2>0 DEF RecordRecovery, WriteAccepted, SetRecoveryCheckpoint
  <2>2. o \in DOMAIN ops => ops'[o].status = ops[o].status
    BY <2>1 DEF GraphInv, OperationOK, RecordFields
  <2> QED
    BY <2>1, <2>2 DEF Kept, IsCommitted
<1>9. CASE Pause(w) /\ ~UNCHANGED ledgerVars
  <2>0. PICK o : o = Operation(w)
    OBVIOUS
  <2>1. /\ ops' = [ops EXCEPT ![o].status = "paused"]
        /\ ~IsCommitted(o) /\ UNCHANGED <<sessionConfig, rows>>
    BY <1>9, <2>0 DEF Pause, WriteAccepted, PauseAdvance
  <2>2. o \in DOMAIN ops => ops'[o].status = "paused"
    BY <2>1 DEF GraphInv, OperationOK, RecordFields
  <2> QED
    BY <2>1, <2>2 DEF Kept, IsCommitted
<1>10. CASE Commit(w)
  BY <1>1, <1>10 DEF Commit, CommitAdvance, Extended, NewRow
<1> QED
  BY <1>1, <1>2, <1>3, <1>4, <1>5, <1>6, <1>7, <1>8, <1>9, <1>10 DEF Act, Execute, Continue

\* A commit extends the session from its head, by as many steps as were asked for.
LEMMA FromHead ==
  ASSUME GraphInv, TrajectoryInv, NEW w \in Workers, Extended(w)
  PROVE  /\ sessionConfig # Nil /\ ~completed
         /\ Len(rows) \in Nat \ {0}
         /\ call[w].steps \in Nat \ {0}
         /\ Requested(call[w].steps, call[w].note)
         /\ Operation(w) \in DOMAIN ops /\ ~IsCommitted(Operation(w))
         /\ Operation(w).input.step = rows[Len(rows)].step
         /\ Target(w) = rows[Len(rows)].step + call[w].steps
         /\ Target(w) \in Nat
<1>1. pc[w] = "commit" /\ CommitAccepted(Operation(w), fence[w])
  BY DEF Extended, Commit
<1>2. Advancing(w) /\ Operation(w) \in DOMAIN ops
  BY <1>1 DEF TrajectoryInv, CallOK, AdvanceLabels, Claimed
<1>3. sessionConfig # Nil /\ call[w].steps \in Nat \ {0} /\ call[w].handle.step \in Nat
  BY <1>2 DEF Advancing, Ready
<1>4. Len(rows) \in Nat \ {0}
  <2>1. Len(rows) \in Nat
    BY DEF GraphInv, RowsOK
  <2> QED
    BY <1>3, <2>1 DEF TrajectoryInv, Opened
<1>5. Operation(w).input = rows[Len(rows)].manifest /\ Operation(w).input = call[w].handle.manifest
  BY <1>1 DEF CommitAccepted, HeadRow, Operation
<1>6. call[w].handle.manifest.step = call[w].handle.step
  BY <1>2 DEF Advancing, Ready, Manifest
<1>7. rows[Len(rows)].manifest.step = rows[Len(rows)].step
  BY <1>4 DEF TrajectoryInv, Ordered
<1> QED
  BY <1>1, <1>2, <1>3, <1>4, <1>5, <1>6, <1>7 DEF Advancing, CommitAccepted, WriteAccepted, Target

\* Rows added at the end leave the others where they are.
LEMMA Appended ==
  ASSUME GraphInv, TrajectoryInv, NEW w \in Workers, Extended(w)
  PROVE  /\ Len(rows') = Len(rows) + 1
         /\ rows'[Len(rows) + 1].step = Target(w)
         /\ rows'[Len(rows) + 1].manifest.step = Target(w)
         /\ \A i \in 1..Len(rows) : i \in 1..Len(rows') /\ rows'[i] = rows[i]
         /\ \A i \in 1..Len(rows') : i \in 1..Len(rows) \/ i = Len(rows) + 1
<1>1. PICK row, n, t : row = NewRow(w) /\ n = Len(rows) /\ t = Target(w)
  OBVIOUS
<1>2. row.step = t /\ row.manifest.step = t
  BY <1>1 DEF NewRow, Manifest
<1>3. PICK S : rows \in Seq(S)
  BY DEF GraphInv, RowsOK
<1>4. rows \in Seq(S \cup {row}) /\ n \in Nat
  BY <1>1, <1>3
<1>5. /\ Len(Append(rows, row)) = n + 1
      /\ Append(rows, row)[n + 1] = row
      /\ \A i \in 1..n : Append(rows, row)[i] = rows[i]
  BY <1>1, <1>4, AppendProperties
<1> QED
  BY <1>1, <1>2, <1>4, <1>5 DEF Extended

\* What is committed stays as it is, and rows stay where they are.
LEMMA Permanent ==
  ASSUME GraphInv, TrajectoryInv, NEW w \in Workers, Act(w)
  PROVE  /\ DOMAIN ops \subseteq DOMAIN ops'
         /\ \A o : IsCommitted(o) => IsCommitted(o)' /\ ops'[o] = ops[o]
         /\ \A i \in 1..Len(rows) : i \in 1..Len(rows') /\ rows'[i] = rows[i]
<1>1. CASE Registered(w)
  <2>1. Len(rows) = 0
    BY <1>1 DEF Registered, TrajectoryInv, Opened
  <2> QED
    BY <1>1, <2>1 DEF Registered, IsCommitted
<1>2. CASE Extended(w)
  <2>0. PICK x, m : x = Operation(w) /\ m = Manifest(call[w].handle.config, Target(w))
    OBVIOUS
  <2>1. /\ ops' = [ops EXCEPT ![x].status = "committed", ![x].output = m,
                              ![x].step = Target(w), ![x].seq = journal + 1]
        /\ ~IsCommitted(x)
    BY <1>2, <2>0, FromHead DEF Extended
  <2>2. ASSUME NEW o, IsCommitted(o) PROVE IsCommitted(o)' /\ ops'[o] = ops[o]
    <3>1. o # x /\ o \in DOMAIN ops /\ ops[o].status = "committed"
      BY <2>1, <2>2 DEF IsCommitted
    <3>2. ops'[o] = ops[o] /\ DOMAIN ops' = DOMAIN ops
      BY <2>1, <3>1
    <3> QED
      BY <3>1, <3>2 DEF IsCommitted
  <2> QED
    BY <1>2, <2>1, <2>2, Appended
<1>3. CASE Kept
  BY <1>3 DEF Kept
<1> QED
  BY <1>1, <1>2, <1>3, LedgerSteps

-----------------------------------------------------------------------------
(* Rows, committed operations and answers. *)

LEMMA OneRow == ASSUME NEW row PROVE Len(<<row>>) = 1 /\ <<row>>[1] = row
OBVIOUS

LEMMA OpenedStep ==
  ASSUME GraphInv, TrajectoryInv, NEW w \in Workers, Act(w)
  PROVE  Opened'
<1>1. CASE Registered(w)
  <2>1. run[w].graph.config # Nil
    BY <1>1 DEF Registered, ExecuteCreate, TrajectoryInv, RunOK
  <2>2. Len(rows') = 1
    BY <1>1, OneRow DEF Registered
  <2> QED
    BY <1>1, <2>1, <2>2 DEF Registered, Opened
<1>2. CASE Extended(w)
  <2>1. sessionConfig' = sessionConfig
    BY <1>2 DEF Extended
  <2>2. sessionConfig # Nil /\ Len(rows) \in Nat
    BY <1>2, FromHead
  <2>3. Len(rows') = Len(rows) + 1
    BY <1>2, Appended
  <2> QED
    BY <2>1, <2>2, <2>3 DEF Opened
<1>3. CASE Kept
  BY <1>3 DEF Kept, TrajectoryInv, Opened
<1> QED
  BY <1>1, <1>2, <1>3, LedgerSteps

LEMMA OrderedStep ==
  ASSUME GraphInv, TrajectoryInv, NEW w \in Workers, Act(w)
  PROVE  Ordered'
<1>1. CASE Registered(w)
  <2>1. PICK row : rows' = <<row>> /\ row.step = 0 /\ row.manifest.step = 0
    BY <1>1 DEF Registered, Manifest
  <2>2. Len(rows') = 1 /\ rows'[1] = row
    BY <2>1, OneRow
  <2> QED
    BY <2>1, <2>2 DEF Ordered
<1>2. CASE Extended(w)
  <2>1. ASSUME NEW i \in 1..Len(rows) PROVE rows[i].step < Target(w)
    <3>1. i = Len(rows) \/ i < Len(rows)
      BY <1>2, FromHead
    <3>2. rows[i].step <= rows[Len(rows)].step
      BY <1>2, <3>1, FromHead DEF TrajectoryInv, Ordered, GraphInv, RowsOK
    <3>3. rows[i].step \in Nat /\ rows[Len(rows)].step \in Nat
      BY <1>2, FromHead DEF GraphInv, RowsOK
    <3> QED
      BY <1>2, <3>2, <3>3, FromHead
  <2>2. ASSUME NEW i \in 1..Len(rows') PROVE rows'[i].manifest.step = rows'[i].step
    BY <1>2, <2>2, Appended DEF TrajectoryInv, Ordered
  <2>3. ASSUME NEW i \in 1..Len(rows'), NEW j \in 1..Len(rows'), i < j
        PROVE  rows'[i].step < rows'[j].step
    <3>1. i \in 1..Len(rows)
      BY <1>2, <2>3, FromHead, Appended
    <3>2. CASE j \in 1..Len(rows)
      BY <1>2, <2>3, <3>1, <3>2, Appended DEF TrajectoryInv, Ordered
    <3>3. CASE j = Len(rows) + 1
      BY <1>2, <2>1, <3>1, <3>3, Appended
    <3> QED
      BY <1>2, <3>2, <3>3, Appended
  <2> QED
    BY <2>2, <2>3 DEF Ordered
<1>3. CASE Kept
  BY <1>3 DEF Kept, TrajectoryInv, Ordered
<1> QED
  BY <1>1, <1>2, <1>3, LedgerSteps

\* What had led from a row to the next still does.
LEMMA LedKept ==
  ASSUME GraphInv, TrajectoryInv, NEW w \in Workers, Act(w), NEW o, IsCommitted(o)
  PROVE  Led(o)'
<1>1. Led(o) /\ ops'[o] = ops[o]
  BY Permanent DEF TrajectoryInv
<1>2. PICK i \in 1..Len(rows) : /\ i + 1 \in 1..Len(rows)
                                /\ rows[i].step = o.input.step
                                /\ rows[i + 1].step = ops[o].output.step
  BY <1>1 DEF Led
<1>3. /\ i \in 1..Len(rows') /\ i + 1 \in 1..Len(rows')
      /\ rows'[i] = rows[i] /\ rows'[i + 1] = rows[i + 1]
  BY <1>2, Permanent
<1> QED
  BY <1>1, <1>2, <1>3 DEF Led

LEMMA CommittedRecord ==
  ASSUME GraphInv, TrajectoryInv, NEW w \in Workers, Extended(w)
  PROVE  \E x : /\ x = Operation(w) /\ IsCommitted(x)'
                /\ ops'[x].step = Target(w) /\ ops'[x].output.step = Target(w)
                /\ \A o : IsCommitted(o)' => IsCommitted(o) \/ o = x
<1>1. PICK x, m, t : x = Operation(w) /\ t = Target(w) /\ m = Manifest(call[w].handle.config, t)
  OBVIOUS
<1>2. /\ ops' = [ops EXCEPT ![x].status = "committed", ![x].output = m,
                            ![x].step = t, ![x].seq = journal + 1]
      /\ x \in DOMAIN ops /\ DOMAIN ops[x] = RecordFields
  BY <1>1, FromHead DEF Extended, GraphInv, OperationOK
<1>3. /\ ops'[x].status = "committed" /\ ops'[x].output = m /\ ops'[x].step = t
      /\ DOMAIN ops' = DOMAIN ops /\ \A o \in DOMAIN ops : o # x => ops'[o] = ops[o]
  BY <1>2 DEF RecordFields
<1>4. m.step = t
  BY <1>1 DEF Manifest
<1>5. x \in DOMAIN ops' /\ \A o : IsCommitted(o)' => IsCommitted(o) \/ o = x
  BY <1>2, <1>3 DEF IsCommitted
<1>6. ops'[x].step = t /\ ops'[x].output.step = t /\ IsCommitted(x)'
  BY <1>3, <1>4, <1>5 DEF IsCommitted
<1> QED
  BY <1>1, <1>5, <1>6

LEMMA LedStep ==
  ASSUME GraphInv, TrajectoryInv, NEW w \in Workers, Act(w), NEW o, IsCommitted(o)'
  PROVE  Led(o)'
<1>1. CASE IsCommitted(o)
  BY <1>1, LedKept
<1>2. CASE ~IsCommitted(o)
  <2>1. Extended(w)
    BY <1>2, LedgerSteps DEF Registered, Kept, IsCommitted
  <2>2. o = Operation(w) /\ ops'[o].step = Target(w) /\ ops'[o].output.step = Target(w)
    BY <1>2, <2>1, CommittedRecord
  <2>3. PICK n : n = Len(rows)
    OBVIOUS
  <2>4. /\ n \in 1..Len(rows') /\ n + 1 \in 1..Len(rows')
        /\ rows'[n].step = o.input.step /\ rows'[n + 1].step = Target(w)
    BY <2>1, <2>2, <2>3, FromHead, Appended
  <2> QED
    BY <2>2, <2>4 DEF Led
<1> QED
  BY <1>1, <1>2

\* An answer stays what it was.
LEMMA AnswersLast ==
  ASSUME GraphInv, TrajectoryInv, NEW w \in Workers, Act(w), NEW a, AnswerOK(a)
  PROVE  AnswerOK(a)'
<1>1. AdvanceOf(a.op)' = AdvanceOf(a.op)
  BY DEF AdvanceOf
<1> QED
  BY <1>1, Permanent DEF AnswerOK, AdvanceOf

LEMMA NewAnswer ==
  ASSUME GraphInv, TrajectoryInv, NEW w \in Workers, Act(w), answers' # answers
  PROVE  \E a : answers' = answers \cup {a} /\ AnswerOK(a) /\ a.op.kind = "advance"
<1>1. CASE ReturnOutcome(w)
  <2>1. PICK a, x : /\ x = Operation(w)
                    /\ a = [op |-> call[w], handle |-> Outcome(w, ops[x])]
    OBVIOUS
  <2>2. call[w].kind = "advance" /\ IsCommitted(x) /\ Advancing(w)
    BY <1>1, <2>1 DEF ReturnOutcome, TrajectoryInv, CallOK, AdvanceLabels
  <2>3. AdvanceOf(call[w]) = x /\ a.op = call[w]
    BY <2>1 DEF AdvanceOf, Operation
  <2>4. a.handle.step = ops[x].step /\ ops[x].step = ops[x].output.step
    BY <2>1, <2>2 DEF Outcome, TrajectoryInv, Led
  <2>5. call[w].handle.manifest.step = call[w].handle.step
    BY <2>2 DEF Advancing, Ready, Manifest
  <2>6. AnswerOK(a)
    BY <2>2, <2>3, <2>4, <2>5 DEF AnswerOK
  <2> QED
    BY <1>1, <2>1, <2>2, <2>3, <2>6 DEF ReturnOutcome
<1>2. CASE Starts(w) \/ RunEnds(w) \/ NodeReturns(w) \/ RunFails(w)
  BY <1>2 DEF Starts, StartGraph, StartLiteral, StartRun, RunEnds, NodeReturns, RunFails, trainerVars
<1>3. CASE ExecuteCreate(w) \/ ExecuteAdvance(w) \/ ExecuteComplete(w)
  BY <1>3 DEF ExecuteCreate, ExecuteAdvance, ExecuteComplete, Create, Advance, Complete, Begin
<1>4. CASE ReturnCreated(w) \/ GetFence(w) \/ ClaimReplayed(w) \/ Claim(w)
  BY <1>4 DEF ReturnCreated, GetFence, ClaimReplayed, Claim, Raise
<1>5. CASE Step(w) \/ RecordRecovery(w) \/ Pause(w) \/ ReadCovered(w)
  BY <1>5 DEF Step, RecordRecovery, Pause, ReadCovered, Raise
<1>6. CASE Commit(w) \/ Seal(w) \/ Disturb(w)
  BY <1>6 DEF Commit, Seal, Disturb, PollCancelled, Kill, Raise
<1> QED
  BY <1>1, <1>2, <1>3, <1>4, <1>5, <1>6 DEF Act, Execute, Continue

LEMMA AnswersStep ==
  ASSUME GraphInv, TrajectoryInv, NEW w \in Workers, Act(w), NEW a \in answers'
  PROVE  AnswerOK(a)'
<1>1. CASE a \in answers
  BY <1>1, AnswersLast DEF TrajectoryInv
<1>2. CASE a \notin answers
  BY <1>2, NewAnswer, AnswersLast
<1> QED
  BY <1>1, <1>2

-----------------------------------------------------------------------------
(* Runs and calls. *)

LEMMA RunStep ==
  ASSUME GraphInv, TrajectoryInv, NEW w \in Workers, Act(w), NEW v \in Workers
  PROVE  RunOK(v)'
<1> USE DEF GraphInv, ShapeOK
<1>1. RunOK(v)
  BY DEF TrajectoryInv
<1>2. CASE run'[v] = run[v]
  BY <1>1, <1>2 DEF RunOK
<1>3. CASE run'[v] # run[v]
  <2>1. CASE Starts(w)
    <3>1. PICK g \in Graphs :
            \/ g.config # Nil /\ run' = [run EXCEPT ![w] = Fresh(g)]
            \/ \E h : run' = [run EXCEPT ![w] = FromLiteral(g, h)]
      BY <2>1 DEF Starts, StartGraph, StartLiteral, StartRun
    <3>2. /\ Fresh(g).at = 0 /\ Fresh(g).graph = g
          /\ \A h : FromLiteral(g, h).at = 1
      BY DEF Fresh, FromLiteral
    <3>3. v = w
      BY <1>3, <3>1
    <3>4. (run'[w] = Fresh(g) /\ g.config # Nil) \/ \E h : run'[w] = FromLiteral(g, h)
      BY <3>1
    <3> QED
      BY <3>2, <3>3, <3>4 DEF RunOK
  <2>2. CASE RunEnds(w) \/ RunFails(w)
    BY <1>3, <2>2 DEF RunEnds, RunFails, RunOK
  <2>3. CASE NodeReturns(w)
    <3>1. run[w] # Nil /\ v = w /\ DOMAIN run[w] = {"graph", "first", "at", "port"}
      BY <1>3, <2>3 DEF NodeReturns
    <3>2. run'[w].at = run[w].at + 1
      BY <2>3, <3>1 DEF NodeReturns
    <3>3. run[w].at \in Nat
      BY <1>1, <3>1 DEF RunOK
    <3> QED
      BY <3>1, <3>2, <3>3 DEF RunOK
  <2> QED
    BY <1>3, <2>1, <2>2, <2>3 DEF Act, Execute, ExecuteCreate, ExecuteAdvance, ExecuteComplete
<1> QED
  BY <1>2, <1>3

\* A call that goes on with its advance, with its operation claimed where it has to be.
LEMMA CallGoesOn ==
  ASSUME GraphInv, TrajectoryInv, NEW w \in Workers, Act(w), NEW v \in Workers,
         call'[v] = call[v], pc[v] \in AdvanceLabels \cup {"fence"},
         call[v].kind = "advance", pc'[v] \in AdvanceLabels \cup {"fence"},
         pc'[v] \in Claimed => Operation(v) \in DOMAIN ops',
         pc'[v] = "answer" => IsCommitted(Operation(v))'
  PROVE  CallOK(v)'
<1>1. Advancing(v)
  BY DEF TrajectoryInv, CallOK
<1>2. Advancing(v)'
  BY <1>1, ReadyKept DEF Advancing, Requested, Intervals
<1>3. Operation(v)' = Operation(v) /\ sessionConfig' # Nil
  BY <1>2 DEF Operation, Advancing, Ready
<1> QED
  BY <1>2, <1>3 DEF CallOK, AdvanceLabels, Claimed, IsCommitted

\* A call that holds nothing of an advance.
LEMMA CallElsewhere ==
  ASSUME NEW w \in Workers, pc'[w] \notin AdvanceLabels \cup {"fence", "seal"}
  PROVE  CallOK(w)'
BY DEF CallOK, AdvanceLabels

LEMMA StartAdvanceCall ==
  ASSUME GraphInv, TrajectoryInv, NEW w \in Workers, Act(w), ExecuteAdvance(w)
  PROVE  CallOK(w)'
<1>1. PICK i : i = run[w].at /\ i \in 1..Len(run[w].graph.intervals)
  BY DEF ExecuteAdvance, AtAdvance
<1>2. PICK n, h, note :
        /\ n = run[w].graph.intervals[i].steps /\ h = run[w].port /\ note = run[w].graph.intervals[i].note
        /\ Advance(w, h, n, note)
  BY <1>1 DEF ExecuteAdvance
<1>3. Requested(n, note)
  <2>1. PICK g \in Graphs : g = run[w].graph
    BY DEF ExecuteAdvance, GraphInv, ShapeOK
  <2>2. DOMAIN g.intervals = 1..Len(g.intervals)
    BY <2>1, GraphAssumption
  <2>3. g.intervals[i] \in Intervals
    BY <1>1, <2>1, <2>2 DEF Intervals, Range
  <2> QED
    BY <1>2, <2>1, <2>3 DEF Requested
<1>4. CASE pc'[w] = "raised"
  BY <1>4, CallElsewhere DEF AdvanceLabels, Claimed
<1>5. CASE n >= 1 /\ VerifyHandle(h) /\ pc'[w] # "raised"
  <2>1. /\ call'[w] = [kind |-> "advance", handle |-> h, steps |-> n, note |-> note]
        /\ pc'[w] \in {"fence", "claim"}
    BY <1>2, <1>5 DEF Advance, Begin, Goto, GraphInv, ShapeOK
  <2>2. call'[w].kind = "advance" /\ call'[w].steps = n /\ call'[w].note = note
    BY <2>1
  <2>3. Ready(w)'
    BY <2>1, <2>2, StartAdvanceOK DEF WorkerOK
  <2>4. Advancing(w)'
    BY <1>3, <1>5, <2>2, <2>3 DEF Advancing, Requested, Intervals
  <2> QED
    BY <2>1, <2>2, <2>4 DEF CallOK, AdvanceLabels, Claimed, Advancing, Ready
<1> QED
  BY <1>2, <1>4, <1>5 DEF Advance, Begin, Goto, GraphInv, ShapeOK

LEMMA ClaimCall ==
  ASSUME GraphInv, TrajectoryInv, NEW w \in Workers, Act(w), Claim(w)
  PROVE  CallOK(w)'
<1>1. CASE pc'[w] = "raised"
  BY <1>1, CallElsewhere DEF AdvanceLabels, Claimed
<1>2. CASE pc'[w] # "raised"
  <2>1. ClaimAdvance(Operation(w), fence[w]) /\ pc'[w] \in {"poll", "cover"} /\ call' = call
    BY <1>2 DEF Claim, Raise, Goto, GraphInv, ShapeOK
  <2>2. Operation(w) \in DOMAIN ops'
    BY <2>1 DEF ClaimAdvance
  <2>3. pc[w] = "claim" /\ call[w].kind = "advance"
    BY DEF Claim, TrajectoryInv, CallOK, AdvanceLabels
  <2> QED
    BY <2>1, <2>2, <2>3, CallGoesOn DEF AdvanceLabels, Claimed
<1> QED
  BY <1>1, <1>2

LEMMA CommitCall ==
  ASSUME GraphInv, TrajectoryInv, NEW w \in Workers, Act(w), Commit(w)
  PROVE  CallOK(w)'
<1>1. CASE pc'[w] = "raised"
  BY <1>1, CallElsewhere DEF AdvanceLabels, Claimed
<1>2. CASE pc'[w] # "raised"
  <2>1. Extended(w) /\ pc'[w] = "answer" /\ call' = call
    BY <1>2 DEF Commit, CommitAdvance, Extended, NewRow, Raise, Goto, GraphInv, ShapeOK
  <2>2. IsCommitted(Operation(w))'
    <3>1. PICK x : x = Operation(w)
      OBVIOUS
    <3>2. Operation(w)' = Operation(w)
      BY <2>1 DEF Operation
    <3> QED
      BY <2>1, <3>2, CommittedRecord
  <2>3. pc[w] = "commit" /\ call[w].kind = "advance"
    BY DEF Commit, TrajectoryInv, CallOK, AdvanceLabels, Claimed
  <2> QED
    BY <2>1, <2>2, <2>3, CallGoesOn DEF AdvanceLabels, Claimed
<1> QED
  BY <1>1, <1>2

LEMMA OwnCall ==
  ASSUME GraphInv, TrajectoryInv, NEW w \in Workers, Act(w)
  PROVE  CallOK(w)'
<1> USE DEF Goto, GraphInv, ShapeOK
<1>0. CallOK(w) /\ DOMAIN ops \subseteq DOMAIN ops' /\ \A o : IsCommitted(o) => IsCommitted(o)'
  BY Permanent DEF TrajectoryInv
\* A call that goes on, its operation claimed before.
<1>1. ASSUME call' = call, pc[w] \in Claimed, pc'[w] \in Claimed PROVE CallOK(w)'
  BY <1>0, <1>1, CallGoesOn DEF CallOK, AdvanceLabels, Claimed
<1>2. ASSUME pc'[w] \in {"idle", "created", "returned", "raised"} PROVE CallOK(w)'
  BY <1>2, CallElsewhere DEF AdvanceLabels, Claimed
<1>3. CASE Starts(w) \/ RunEnds(w)
  <2>1. pc' = pc /\ call' = call /\ ledgerVars' = ledgerVars
    BY <1>3 DEF Starts, StartGraph, StartLiteral, StartRun, RunEnds, trainerVars
  <2> QED
    BY <1>0, <2>1 DEF CallOK, Advancing, Ready, Requested, Intervals, Operation, IsCommitted, ledgerVars
<1>4. CASE ExecuteCreate(w) \/ NodeReturns(w) \/ RunFails(w) \/ ReturnCreated(w)
  <2>1. pc'[w] \in {"idle", "created", "returned", "raised"}
    BY <1>4 DEF ExecuteCreate, Create, Begin, NodeReturns, RunFails, ReturnCreated, Return
  <2> QED
    BY <1>2, <2>1
<1>5. CASE Pause(w) \/ ReturnOutcome(w) \/ Seal(w) \/ Kill(w)
  <2>1. pc'[w] \in {"returned", "raised"}
    BY <1>5 DEF Pause, ReturnOutcome, Seal, Kill, Raise, Return
  <2> QED
    BY <1>2, <2>1
<1>6. CASE ExecuteComplete(w)
  <2>1. PICK h : /\ pc'[w] = "raised" \/ (sessionConfig # Nil /\ call'[w] = [kind |-> "complete", handle |-> h]
                                          /\ pc'[w] \in {"fence", "seal"})
                 /\ sessionConfig' = sessionConfig
    BY <1>6 DEF ExecuteComplete, Complete, Begin, ledgerVars
  <2>2. pc'[w] = "raised" \/ call'[w].kind = "complete"
    BY <2>1
  <2> QED
    BY <1>2, <2>1, <2>2 DEF CallOK, AdvanceLabels, Claimed
<1>7. CASE GetFence(w)
  <2>1. /\ pc[w] = "fence" /\ call' = call /\ sessionConfig' = sessionConfig
        /\ pc'[w] = IF call[w].kind = "advance" THEN "claim" ELSE "seal"
    BY <1>7 DEF GetFence, AcquireFence
  <2>2. CASE call[w].kind = "advance"
    BY <2>1, <2>2, CallGoesOn DEF AdvanceLabels, Claimed
  <2>3. CASE call[w].kind # "advance"
    BY <1>0, <2>1, <2>3 DEF CallOK, AdvanceLabels, Claimed
  <2> QED
    BY <2>2, <2>3
<1>8. CASE ClaimReplayed(w)
  <2>1. pc[w] = "claim" /\ pc'[w] = "answer" /\ call' = call /\ IsCommitted(Operation(w))
    BY <1>8 DEF ClaimReplayed
  <2>2. Operation(w)' = Operation(w)
    BY <2>1 DEF Operation
  <2>3. IsCommitted(Operation(w))'
    BY <1>0, <2>1, <2>2 DEF IsCommitted
  <2> QED
    BY <1>0, <2>1, <2>3, CallGoesOn DEF CallOK, AdvanceLabels, Claimed
<1>9. CASE Step(w) \/ ReadCovered(w) \/ PollCancelled(w)
  <2>1. pc[w] \in Claimed /\ pc'[w] \in Claimed /\ call' = call
    BY <1>9 DEF Step, ReadCovered, PollCancelled, Claimed
  <2> QED
    BY <1>1, <2>1
<1>10. CASE RecordRecovery(w)
  <2>1. pc'[w] = "raised" \/ (pc[w] \in Claimed /\ pc'[w] \in Claimed /\ call' = call)
    BY <1>10 DEF RecordRecovery, Raise, Claimed
  <2> QED
    BY <1>1, <1>2, <2>1
<1> QED
  BY <1>3, <1>4, <1>5, <1>6, <1>7, <1>8, <1>9, <1>10, StartAdvanceCall, ClaimCall, CommitCall
     DEF Act, Execute, Continue, Disturb

LEMMA CallsStep ==
  ASSUME GraphInv, TrajectoryInv, NEW w \in Workers, Act(w), NEW v \in Workers
  PROVE  CallOK(v)'
<1>1. CASE v = w
  BY <1>1, OwnCall
<1>2. CASE v # w
  <2>1. pc'[v] = pc[v] /\ call'[v] = call[v] /\ CallOK(v)
    BY <1>2, Alone DEF GraphInv, TrajectoryInv
  <2>2. Operation(v)' = Operation(v)
    BY <2>1 DEF Operation
  <2>3. /\ sessionConfig # Nil => sessionConfig' # Nil
        /\ Operation(v) \in DOMAIN ops => Operation(v)' \in DOMAIN ops'
        /\ IsCommitted(Operation(v)) => IsCommitted(Operation(v))'
    <3>1. PICK o : o = Operation(v)
      OBVIOUS
    <3>2. o \in DOMAIN ops => o \in DOMAIN ops'
      BY Permanent
    <3>3. IsCommitted(o) => IsCommitted(o)'
      BY Permanent
    <3> QED
      BY <2>2, <3>1, <3>2, <3>3, ConfigKept DEF IsCommitted
  <2>4. Advancing(v) => Advancing(v)'
    BY <2>1, ReadyKept DEF Advancing, Requested, Intervals
  <2> QED
    BY <2>1, <2>3, <2>4 DEF CallOK, AdvanceLabels
<1> QED
  BY <1>1, <1>2

LEMMA TrajectoryInvariance == Spec => [](GraphInv /\ TrajectoryInv)
<1>1. Init => TrajectoryInv
  <2> SUFFICES ASSUME Init PROVE TrajectoryInv
    OBVIOUS
  <2>1. rows = <<>> /\ Len(rows) = 0 /\ sessionConfig = Nil /\ DOMAIN ops = {} /\ answers = {}
    BY DEF Init, TrainerInit, LedgerInit
  <2>2. \A w \in Workers : pc[w] = "idle" /\ run[w] = Nil
    BY DEF Init, TrainerInit
  <2>3. \A w \in Workers : CallOK(w) /\ RunOK(w)
    BY <2>2 DEF CallOK, RunOK, AdvanceLabels, Claimed
  <2> QED
    BY <2>1, <2>3 DEF TrajectoryInv, Opened, Ordered, IsCommitted
<1>2. GraphInv /\ TrajectoryInv /\ [Next]_vars => TrajectoryInv'
  <2>1. ASSUME GraphInv, TrajectoryInv, NEW w \in Workers, Act(w) PROVE TrajectoryInv'
    <3>1. \A v \in Workers : CallOK(v)' /\ RunOK(v)'
      BY <2>1, CallsStep, RunStep
    <3>2. \A a \in answers' : AnswerOK(a)'
      BY <2>1, AnswersStep
    <3>3. \A o : IsCommitted(o)' => Led(o)'
      BY <2>1, LedStep
    <3> QED
      BY <2>1, <3>1, <3>2, <3>3, OpenedStep, OrderedStep DEF TrajectoryInv
  <2>2. ASSUME TrajectoryInv, UNCHANGED vars PROVE TrajectoryInv'
    BY <2>2 DEF TrajectoryInv, Opened, Ordered, Led, AnswerOK, AdvanceOf, CallOK, RunOK, Advancing, Ready,
                Requested, Intervals, Operation, IsCommitted, vars, ledgerVars, trainerVars
  <2> QED
    BY <2>1, <2>2, NextActs
<1> QED
  BY <1>1, <1>2, Invariance, PTL DEF Spec

-----------------------------------------------------------------------------
(* The refinement mapping. *)

\* The trajectory's done and answered, and what an operation contributes to them.
DoneIndices == {AsIndices(d) : d \in Done}
AnsweredIndices == {AsIndices(d) : d \in Answered}

Contribution(o) ==
  [from |-> IndexOf(o.input.step), steps |-> o.steps, note |-> o.note, to |-> IndexOf(ops[o].output.step)]

LEMMA Replaced ==
  ASSUME NEW d, NEW e, NEW from, NEW steps, NEW note, NEW to, NEW i, NEW j,
         d = [from |-> from, steps |-> steps, note |-> note, to |-> to],
         e = [d EXCEPT !.from = i, !.to = j]
  PROVE  e = [from |-> i, steps |-> steps, note |-> note, to |-> j]
<1>1. DOMAIN d = {"from", "steps", "note", "to"}
  OBVIOUS
<1>2. DOMAIN e = {"from", "steps", "note", "to"} /\ e = [x \in DOMAIN e |-> e[x]]
  BY <1>1
<1>3. e.from = i /\ e.to = j /\ e.steps = steps /\ e.note = note
  BY <1>1
<1> QED
  BY <1>2, <1>3

LEMMA AsIndicesOf ==
  ASSUME NEW d, NEW from, NEW steps, NEW note, NEW to,
         d = [from |-> from, steps |-> steps, note |-> note, to |-> to]
  PROVE  AsIndices(d) = [from |-> IndexOf(from), steps |-> steps, note |-> note, to |-> IndexOf(to)]
<1>1. PICK i, j : i = IndexOf(from) /\ j = IndexOf(to)
  OBVIOUS
<1>2. IndexOf(d.from) = i /\ IndexOf(d.to) = j
  BY <1>1
<1>3. PICK e : e = AsIndices(d)
  OBVIOUS
<1>4. e = [d EXCEPT !.from = i, !.to = j]
  BY <1>2, <1>3 DEF AsIndices
<1>5. e = [from |-> i, steps |-> steps, note |-> note, to |-> j]
  BY <1>4, Replaced
<1> QED
  BY <1>1, <1>3, <1>5

LEMMA AsIndicesOfNext ==
  ASSUME NEW d, NEW from, NEW steps, NEW note, NEW to,
         d = [from |-> from, steps |-> steps, note |-> note, to |-> to]
  PROVE  AsIndices(d)' = [from |-> IndexOf(from)', steps |-> steps, note |-> note, to |-> IndexOf(to)']
<1>1. PICK i, j : i = IndexOf(from)' /\ j = IndexOf(to)'
  OBVIOUS
<1>2. IndexOf(d.from)' = i /\ IndexOf(d.to)' = j
  BY <1>1 DEF IndexOf
<1>3. PICK e : e = AsIndices(d)'
  OBVIOUS
<1>4. e = [d EXCEPT !.from = i, !.to = j]
  BY <1>2, <1>3 DEF AsIndices
<1>5. e = [from |-> i, steps |-> steps, note |-> note, to |-> j]
  BY <1>4, Replaced
<1> QED
  BY <1>1, <1>3, <1>5

\* The record an operation or an answer adds, with steps where the trajectory has indices.
InSteps(o) == [from |-> o.input.step, steps |-> o.steps, note |-> o.note, to |-> ops[o].output.step]
AnswerInSteps(a) ==
  [from |-> a.op.handle.step, steps |-> a.op.steps, note |-> a.op.note, to |-> a.handle.step]

LEMMA DoneMembers == ASSUME NEW d PROVE d \in DoneIndices <=> \E o : IsCommitted(o) /\ d = Contribution(o)
<1>1. ASSUME NEW o PROVE AsIndices(InSteps(o)) = Contribution(o)
  BY AsIndicesOf DEF InSteps, Contribution
<1>2. DoneIndices = {AsIndices(x) : x \in {InSteps(o) : o \in {y \in DOMAIN ops : IsCommitted(y)}}}
  BY DEF DoneIndices, Done, InSteps
<1> QED
  BY <1>1, <1>2 DEF IsCommitted

LEMMA DoneMembersNext ==
  ASSUME NEW d PROVE d \in DoneIndices' <=> \E o : IsCommitted(o)' /\ d = Contribution(o)'
<1>1. ASSUME NEW o, NEW x, x = InSteps(o)' PROVE AsIndices(x)' = Contribution(o)'
  <2>1. PICK from, to : from = o.input.step /\ to = ops'[o].output.step
    OBVIOUS
  <2>2. AsIndices(x)' = [from |-> IndexOf(from)', steps |-> o.steps, note |-> o.note, to |-> IndexOf(to)']
    BY <1>1, <2>1, AsIndicesOfNext DEF InSteps
  <2>3. IndexOf(o.input.step)' = IndexOf(from)' /\ IndexOf(ops[o].output.step)' = IndexOf(to)'
    BY <2>1 DEF IndexOf
  <2> QED
    BY <2>2, <2>3 DEF Contribution
<1>2. DoneIndices' = {AsIndices(x)' : x \in {InSteps(o)' : o \in {y \in DOMAIN ops' : IsCommitted(y)'}}}
  BY DEF DoneIndices, Done, InSteps
<1> QED
  BY <1>1, <1>2 DEF IsCommitted

LEMMA AnswerContributes ==
  ASSUME NEW a, AnswerOK(a), a.op.kind = "advance"
  PROVE  AsIndices(AnswerInSteps(a)) = Contribution(AdvanceOf(a.op))
<1>1. PICK o : o = AdvanceOf(a.op)
  OBVIOUS
<1>2. /\ o.input.step = a.op.handle.step /\ o.steps = a.op.steps /\ o.note = a.op.note
      /\ a.handle.step = ops[o].output.step
  BY <1>1 DEF AnswerOK, AdvanceOf
<1> QED
  BY <1>1, <1>2, AsIndicesOf DEF AnswerInSteps, Contribution

LEMMA AnswerContributesNext ==
  ASSUME NEW a, AnswerOK(a)', a.op.kind = "advance", NEW x, x = AnswerInSteps(a)
  PROVE  AsIndices(x)' = Contribution(AdvanceOf(a.op))'
<1>1. PICK o : o = AdvanceOf(a.op)
  OBVIOUS
<1>2. /\ o.input.step = a.op.handle.step /\ o.steps = a.op.steps /\ o.note = a.op.note
      /\ a.handle.step = ops'[o].output.step
  BY <1>1 DEF AnswerOK, AdvanceOf
<1>3. x = [from |-> o.input.step, steps |-> o.steps, note |-> o.note, to |-> ops'[o].output.step]
  BY <1>2 DEF AnswerInSteps
<1>4. AsIndices(x)' = Contribution(o)'
  <2>1. PICK from, to : from = o.input.step /\ to = ops'[o].output.step
    OBVIOUS
  <2>2. AsIndices(x)' = [from |-> IndexOf(from)', steps |-> o.steps, note |-> o.note, to |-> IndexOf(to)']
    BY <1>3, <2>1, AsIndicesOfNext
  <2>3. IndexOf(o.input.step)' = IndexOf(from)' /\ IndexOf(ops[o].output.step)' = IndexOf(to)'
    BY <2>1 DEF IndexOf
  <2> QED
    BY <2>2, <2>3 DEF Contribution
<1> QED
  BY <1>1, <1>4 DEF Contribution, AdvanceOf, IndexOf

LEMMA AnsweredMembers ==
  ASSUME TrajectoryInv, NEW d
  PROVE  d \in AnsweredIndices <=> \E a \in answers : a.op.kind = "advance" /\ d = Contribution(AdvanceOf(a.op))
<1>1. AnsweredIndices = {AsIndices(x) : x \in {AnswerInSteps(a) : a \in {b \in answers : b.op.kind = "advance"}}}
  BY DEF AnsweredIndices, Answered, AnswerInSteps
<1> QED
  BY <1>1, AnswerContributes DEF TrajectoryInv

LEMMA AnsweredMembersNext ==
  ASSUME TrajectoryInv', NEW d
  PROVE  d \in AnsweredIndices' <=>
           \E a \in answers' : a.op.kind = "advance" /\ d = Contribution(AdvanceOf(a.op))'
<1>1. ASSUME NEW a \in answers', a.op.kind = "advance", NEW x, x = AnswerInSteps(a)
      PROVE  AsIndices(x)' = Contribution(AdvanceOf(a.op))'
  BY <1>1, AnswerContributesNext DEF TrajectoryInv
<1>2. AnsweredIndices' =
        {AsIndices(x)' : x \in {AnswerInSteps(a) : a \in {b \in answers' : b.op.kind = "advance"}}}
  BY DEF AnsweredIndices, Answered, AnswerInSteps
<1> QED
  BY <1>1, <1>2

\* Steps are in one place.
LEMMA Position ==
  ASSUME NEW s, NEW i \in 1..Len(s), Len(s) \in Nat,
         \A j, k \in 1..Len(s) : j < k => s[j].step < s[k].step,
         \A j \in 1..Len(s) : s[j].step \in Nat
  PROVE  (CHOOSE j \in 1..Len(s) : s[j].step = s[i].step) = i
<1>1. ASSUME NEW j \in 1..Len(s), s[j].step = s[i].step PROVE j = i
  <2>1. ~(i < j) /\ ~(j < i)
    BY <1>1
  <2> QED
    BY <2>1
<1> QED
  BY <1>1

LEMMA IndexOfRow ==
  ASSUME GraphInv, TrajectoryInv, NEW i \in 1..Len(rows) PROVE IndexOf(rows[i].step) = i
<1>1. /\ Len(rows) \in Nat
      /\ \A j \in 1..Len(rows) : rows[j].step \in Nat
      /\ \A j, k \in 1..Len(rows) : j < k => rows[j].step < rows[k].step
  BY DEF GraphInv, RowsOK, TrajectoryInv, Ordered
<1> QED
  BY <1>1, Position DEF IndexOf

LEMMA IndexOfRowNext ==
  ASSUME GraphInv', TrajectoryInv', NEW i \in 1..Len(rows'), NEW step, rows'[i].step = step
  PROVE  (CHOOSE j \in 1..Len(rows') : rows'[j].step = step) = i
<1>1. /\ Len(rows') \in Nat
      /\ \A j \in 1..Len(rows') : rows'[j].step \in Nat
      /\ \A j, k \in 1..Len(rows') : j < k => rows'[j].step < rows'[k].step
  BY DEF GraphInv, RowsOK, TrajectoryInv, Ordered
<1> QED
  BY <1>1, Position

\* A committed operation contributes what it did.
LEMMA ContributionKept ==
  ASSUME GraphInv, TrajectoryInv, GraphInv', TrajectoryInv', NEW w \in Workers, Act(w),
         NEW o, IsCommitted(o)
  PROVE  Contribution(o)' = Contribution(o)
<1>1. PICK i \in 1..Len(rows) : /\ i + 1 \in 1..Len(rows)
                                /\ rows[i].step = o.input.step
                                /\ rows[i + 1].step = ops[o].output.step
  BY DEF TrajectoryInv, Led
<1>2. /\ i \in 1..Len(rows') /\ i + 1 \in 1..Len(rows')
      /\ rows'[i].step = o.input.step /\ rows'[i + 1].step = ops[o].output.step
      /\ ops'[o] = ops[o]
  BY <1>1, Permanent
<1>3. IndexOf(o.input.step) = i /\ IndexOf(ops[o].output.step) = i + 1
  BY <1>1, IndexOfRow
<1>4. IndexOf(o.input.step)' = i
  BY <1>2, IndexOfRowNext DEF IndexOf
<1>5. IndexOf(ops[o].output.step)' = i + 1
  <2>1. PICK step : step = ops[o].output.step
    OBVIOUS
  <2>2. rows'[i + 1].step = step /\ ops'[o].output.step = step
    BY <1>2, <2>1
  <2> QED
    BY <1>2, <2>2, IndexOfRowNext DEF IndexOf
<1> QED
  BY <1>2, <1>3, <1>4, <1>5 DEF Contribution

LEMMA DoneKept ==
  ASSUME GraphInv, TrajectoryInv, GraphInv', TrajectoryInv', NEW w \in Workers, Act(w),
         \A o : IsCommitted(o)' <=> IsCommitted(o)
  PROVE  DoneIndices' = DoneIndices
<1>1. ASSUME NEW d PROVE d \in DoneIndices' <=> d \in DoneIndices
  BY DoneMembers, DoneMembersNext, ContributionKept
<1> QED
  BY <1>1 DEF DoneIndices

LEMMA DoneByCommit ==
  ASSUME GraphInv, TrajectoryInv, GraphInv', TrajectoryInv', NEW w \in Workers, Act(w), Extended(w)
  PROVE  DoneIndices' = DoneIndices \cup {[from |-> Len(rows), steps |-> call[w].steps,
                                           note |-> call[w].note, to |-> Len(rows) + 1]}
<1>1. PICK x, n : x = Operation(w) /\ n = Len(rows)
  OBVIOUS
<1>2. /\ IsCommitted(x)' /\ ops'[x].output.step = Target(w)
      /\ \A o : IsCommitted(o)' => IsCommitted(o) \/ o = x
  BY <1>1, CommittedRecord
<1>3. /\ n \in 1..Len(rows') /\ n + 1 \in 1..Len(rows')
      /\ rows'[n].step = x.input.step /\ rows'[n + 1].step = Target(w)
  BY <1>1, FromHead, Appended
<1>4. IndexOf(x.input.step)' = n
  BY <1>3, IndexOfRowNext DEF IndexOf
<1>5. IndexOf(ops[x].output.step)' = n + 1
  <2>1. PICK step : step = Target(w)
    OBVIOUS
  <2>2. rows'[n + 1].step = step /\ ops'[x].output.step = step
    BY <1>2, <1>3, <2>1
  <2> QED
    BY <1>3, <2>2, IndexOfRowNext DEF IndexOf
<1>6. Contribution(x)' = [from |-> n, steps |-> call[w].steps, note |-> call[w].note, to |-> n + 1]
  <2>1. x.steps = call[w].steps /\ x.note = call[w].note
    BY <1>1 DEF Operation
  <2> QED
    BY <1>4, <1>5, <2>1 DEF Contribution
<1>7. PICK d : d = [from |-> n, steps |-> call[w].steps, note |-> call[w].note, to |-> n + 1]
  OBVIOUS
<1>8. \A o : IsCommitted(o) => IsCommitted(o)'
  BY Permanent
<1>9. ASSUME NEW e PROVE e \in DoneIndices' <=> e \in DoneIndices \/ e = d
  BY <1>2, <1>6, <1>7, <1>8, DoneMembers, DoneMembersNext, ContributionKept
<1>10. DoneIndices' = DoneIndices \cup {d}
  BY <1>9 DEF DoneIndices
<1> QED
  BY <1>1, <1>7, <1>10

\* A step that answers an advance, or none.
LEMMA AnsweredStep ==
  ASSUME GraphInv, TrajectoryInv, GraphInv', TrajectoryInv', NEW w \in Workers, Act(w)
  PROVE  \/ AnsweredIndices' = AnsweredIndices
         \/ answers' # answers /\ \E d \in DoneIndices : AnsweredIndices' = AnsweredIndices \cup {d}
<1>0. ASSUME NEW a, AnswerOK(a), a.op.kind = "advance"
      PROVE  /\ Contribution(AdvanceOf(a.op))' = Contribution(AdvanceOf(a.op))
             /\ Contribution(AdvanceOf(a.op)) \in DoneIndices
  <2>1. PICK o : o = AdvanceOf(a.op)
    OBVIOUS
  <2>2. IsCommitted(o)
    BY <1>0, <2>1 DEF AnswerOK
  <2>3. Contribution(AdvanceOf(a.op))' = Contribution(o)'
    BY <2>1 DEF AdvanceOf, Contribution, IndexOf
  <2> QED
    BY <2>1, <2>2, <2>3, ContributionKept, DoneMembers
<1>1. CASE answers' = answers
  <2>1. ASSUME NEW d PROVE d \in AnsweredIndices' <=> d \in AnsweredIndices
    BY <1>0, <1>1, AnsweredMembers, AnsweredMembersNext DEF TrajectoryInv
  <2> QED
    BY <2>1 DEF AnsweredIndices
<1>2. CASE answers' # answers
  <2>1. PICK a : answers' = answers \cup {a} /\ AnswerOK(a) /\ a.op.kind = "advance"
    BY <1>2, NewAnswer
  <2>2. PICK d : d = Contribution(AdvanceOf(a.op))
    OBVIOUS
  <2>3. d \in DoneIndices /\ Contribution(AdvanceOf(a.op))' = d
    BY <1>0, <2>1, <2>2
  <2>4. ASSUME NEW e PROVE e \in AnsweredIndices' <=> e \in AnsweredIndices \/ e = d
    BY <1>0, <2>1, <2>2, <2>3, AnsweredMembers, AnsweredMembersNext DEF TrajectoryInv
  <2>5. AnsweredIndices' = AnsweredIndices \cup {d}
    BY <2>4 DEF AnsweredIndices
  <2> QED
    BY <1>2, <2>3, <2>5
<1> QED
  BY <1>1, <1>2

\* Only a seal completes the session, and it answers no advance.
LEMMA CompletedStep ==
  ASSUME NEW w \in Workers, Act(w)
  PROVE  \/ completed' = completed
         \/ Seal(w) /\ completed' = TRUE /\ answers' = answers
<1>1. CASE Starts(w) \/ RunEnds(w) \/ NodeReturns(w) \/ RunFails(w)
  BY <1>1 DEF Starts, StartGraph, StartLiteral, StartRun, RunEnds, NodeReturns, RunFails, ledgerVars
<1>2. CASE ExecuteCreate(w) \/ ExecuteAdvance(w) \/ ExecuteComplete(w)
  BY <1>2 DEF ExecuteCreate, ExecuteAdvance, ExecuteComplete, Create, CreateSession, Advance, Complete,
              ledgerVars
<1>3. CASE ReturnCreated(w) \/ GetFence(w) \/ ClaimReplayed(w) \/ Claim(w)
  BY <1>3 DEF ReturnCreated, GetFence, AcquireFence, ClaimReplayed, Claim, ClaimAdvance, ledgerVars
<1>4. CASE Step(w) \/ RecordRecovery(w) \/ Pause(w) \/ ReadCovered(w)
  BY <1>4 DEF Step, RecordRecovery, SetRecoveryCheckpoint, Pause, PauseAdvance, ReadCovered, ledgerVars
<1>5. CASE Commit(w) \/ ReturnOutcome(w) \/ Disturb(w)
  BY <1>5 DEF Commit, CommitAdvance, ReturnOutcome, Disturb, PollCancelled, Kill, ledgerVars
<1>6. CASE Seal(w)
  BY <1>6 DEF Seal, CompleteSession, Raise, ledgerVars
<1> QED
  BY <1>1, <1>2, <1>3, <1>4, <1>5, <1>6 DEF Act, Execute, Continue

-----------------------------------------------------------------------------
(* The refinement. *)

\* Appending a step's row appends to the cursors, which are the trajectory.
LEMMA CursorsStep ==
  ASSUME NEW n \in Nat, NEW s, NEW t, NEW steps,
         Len(s) = n, Len(t) = n + 1, n > 0,
         \A i \in 1..n : s[i].step \in Nat /\ t[i] = s[i],
         steps \in Nat, t[n + 1].step = s[n].step + steps
  PROVE  LET cursors == [i \in 1..Len(s) |-> s[i].step]
         IN  /\ Len(cursors) = n
             /\ [i \in 1..Len(t) |-> t[i].step] = Append(cursors, cursors[Len(cursors)] + steps)
<1> DEFINE cursors == [i \in 1..n |-> s[i].step]
           next == [i \in 1..n + 1 |-> t[i].step]
<1>1. cursors \in Seq(Nat) /\ Len(cursors) = n
  OBVIOUS
<1>2. cursors[n] = s[n].step /\ s[n].step + steps \in Nat
  OBVIOUS
<1>3. next \in Seq(Nat) /\ Len(next) = n + 1
  <2>1. \A i \in 1..n + 1 : t[i].step \in Nat
    BY <1>2
  <2> QED
    BY <2>1
<1>4. next = Append(cursors, s[n].step + steps)
  <2>1. PICK more : more = Append(cursors, s[n].step + steps)
    OBVIOUS
  <2>2. /\ more \in Seq(Nat) /\ Len(more) = n + 1 /\ more[n + 1] = s[n].step + steps
        /\ \A i \in 1..n : more[i] = cursors[i]
    BY <1>1, <1>2, <2>1, AppendProperties
  <2>3. \A i \in 1..n + 1 : next[i] = more[i]
    BY <2>2
  <2> QED
    BY <1>3, <2>1, <2>2, <2>3, SeqEqual
<1> QED
  BY <1>1, <1>2, <1>4

LEMMA OpenStep ==
  ASSUME GraphInv, TrajectoryInv, GraphInv', TrajectoryInv', NEW w \in Workers, Act(w), Registered(w)
  PROVE  \E c \in {g.config : g \in Graphs} \ {Nil} : Trajectory!Open(c)
<1>1. PICK c : c = run[w].graph.config
  OBVIOUS
<1>2. c \in {g.config : g \in Graphs} \ {Nil}
  BY <1>1 DEF Registered, ExecuteCreate, GraphInv, ShapeOK, TrajectoryInv, RunOK
<1>3. DoneIndices' = DoneIndices
  <2>1. \A o : IsCommitted(o)' <=> IsCommitted(o)
    BY DEF Registered, IsCommitted
  <2> QED
    BY <2>1, DoneKept
<1>4. AnsweredIndices' = AnsweredIndices /\ completed' = completed
  <2>1. answers' = answers /\ completed' = completed
    BY DEF Registered, ExecuteCreate, Create, CreateSession, Begin, ledgerVars
  <2> QED
    BY <2>1, AnsweredStep
<1>5. [i \in 1..Len(rows') |-> rows'[i].step] = <<0>>
  <2>1. PICK row : rows' = <<row>> /\ row.step = 0
    BY DEF Registered
  <2>2. Len(rows') = 1 /\ rows'[1].step = 0
    BY <2>1, OneRow
  <2> QED
    BY <2>2
<1> QED
  BY <1>1, <1>2, <1>3, <1>4, <1>5 DEF Trajectory!Open, Registered, DoneIndices, AnsweredIndices

LEMMA AdvanceStep ==
  ASSUME GraphInv, TrajectoryInv, GraphInv', TrajectoryInv', NEW w \in Workers, Act(w), Extended(w)
  PROVE  \E n \in {interval.steps : interval \in Intervals},
            note \in {interval.note : interval \in Intervals} : Trajectory!Advance(n, note)
<1>1. PICK n, note : n = call[w].steps /\ note = call[w].note
  OBVIOUS
<1>2. n \in {i.steps : i \in Intervals} /\ note \in {i.note : i \in Intervals}
  BY <1>1, FromHead DEF Requested
<1>3. /\ n \in Nat /\ n >= 1 /\ ~completed /\ sessionConfig # Nil
      /\ sessionConfig' = sessionConfig /\ completed' = completed /\ answers' = answers
  <2>1. completed' = completed /\ answers' = answers
    BY DEF Extended, Commit, CommitAdvance, Raise, ledgerVars
  <2>2. n \in Nat /\ n >= 1
    BY <1>1, FromHead
  <2> QED
    BY <2>1, <2>2, FromHead DEF Extended
<1>4. LET cursors == [i \in 1..Len(rows) |-> rows[i].step]
      IN  /\ Len(cursors) = Len(rows)
          /\ [i \in 1..Len(rows') |-> rows'[i].step] = Append(cursors, cursors[Len(cursors)] + n)
  <2>1. /\ Len(rows) \in Nat /\ Len(rows) > 0 /\ Len(rows') = Len(rows) + 1
        /\ rows'[Len(rows) + 1].step = rows[Len(rows)].step + n
    BY <1>1, FromHead, Appended
  <2>2. \A i \in 1..Len(rows) : rows[i].step \in Nat /\ rows'[i] = rows[i]
    BY Appended DEF GraphInv, RowsOK
  <2> QED
    BY <1>3, <2>1, <2>2, CursorsStep
<1>5. DoneIndices' = DoneIndices \cup {[from |-> Len(rows), steps |-> n, note |-> note, to |-> Len(rows) + 1]}
  BY <1>1, DoneByCommit
<1>6. AnsweredIndices' = AnsweredIndices
  BY <1>3, AnsweredStep
<1>7. Trajectory!Advance(n, note)
  BY <1>3, <1>4, <1>5, <1>6 DEF Trajectory!Advance, DoneIndices, AnsweredIndices
<1> QED
  BY <1>2, <1>7

\* Any other step gives an answer, completes the session or is no step of the trajectory.
LEMMA KeptStep ==
  ASSUME GraphInv, TrajectoryInv, GraphInv', TrajectoryInv', NEW w \in Workers, Act(w), Kept
  PROVE  [Trajectory!Next]_(Trajectory!vars)
<1>1. sessionConfig' = sessionConfig /\ rows' = rows /\ DoneIndices' = DoneIndices
  BY DoneKept DEF Kept
<1>2. CASE AnsweredIndices' = AnsweredIndices /\ completed' = completed
  BY <1>1, <1>2 DEF Trajectory!vars, DoneIndices, AnsweredIndices
<1>3. CASE AnsweredIndices' = AnsweredIndices /\ completed' # completed
  <2>1. Seal(w) /\ completed' = TRUE
    BY <1>3, CompletedStep
  <2>2. sessionConfig # Nil
    BY <2>1 DEF Seal, TrajectoryInv, CallOK
  <2>3. Trajectory!CompleteSession
    BY <1>1, <1>3, <2>1, <2>2 DEF Trajectory!CompleteSession, DoneIndices, AnsweredIndices
  <2> QED
    BY <2>3 DEF Trajectory!Next
<1>4. CASE AnsweredIndices' # AnsweredIndices
  <2>1. PICK d \in DoneIndices : AnsweredIndices' = AnsweredIndices \cup {d} /\ answers' # answers
    BY <1>4, AnsweredStep
  <2>2. completed' = completed
    BY <2>1, CompletedStep
  <2>3. Trajectory!Answer(d)
    BY <1>1, <2>1, <2>2 DEF Trajectory!Answer, DoneIndices, AnsweredIndices
  <2> QED
    BY <2>1, <2>3 DEF Trajectory!Next, DoneIndices
<1> QED
  BY <1>2, <1>3, <1>4

\* The fake backend implements the exactly-once trajectory, as the service does: whichever
\* graphs are run and re-run, from whatever handle, killed, paused or overtaken, a step of
\* it opens the session, advances it once from its head, answers with an advance that took
\* effect, completes it, or is invisible to the graphs.
THEOREM FakeImplements == Spec => ImplementsTrajectory
<1>1. Init => Trajectory!Init
  <2> SUFFICES ASSUME Init PROVE Trajectory!Init
    OBVIOUS
  <2>1. sessionConfig = Nil /\ completed = FALSE /\ Len(rows) = 0 /\ DOMAIN ops = {} /\ answers = {}
    BY DEF Init, TrainerInit, LedgerInit
  <2>2. [i \in 1..Len(rows) |-> rows[i].step] = <<>>
    BY <2>1
  <2>3. Done = {} /\ Answered = {}
    BY <2>1 DEF Done, Answered
  <2> QED
    BY <2>1, <2>2, <2>3 DEF Trajectory!Init
<1>2. GraphInv /\ TrajectoryInv /\ GraphInv' /\ TrajectoryInv' /\ [Next]_vars
        => [Trajectory!Next]_(Trajectory!vars)
  <2>1. ASSUME GraphInv, TrajectoryInv, GraphInv', TrajectoryInv', NEW w \in Workers, Act(w)
        PROVE  [Trajectory!Next]_(Trajectory!vars)
    <3>1. CASE Registered(w)
      BY <2>1, <3>1, OpenStep DEF Trajectory!Next
    <3>2. CASE Extended(w)
      BY <2>1, <3>2, AdvanceStep DEF Trajectory!Next
    <3>3. CASE Kept
      BY <2>1, <3>3, KeptStep
    <3> QED
      BY <2>1, <3>1, <3>2, <3>3, LedgerSteps
  <2>2. ASSUME UNCHANGED vars PROVE [Trajectory!Next]_(Trajectory!vars)
    <3>1. DoneIndices' = DoneIndices /\ AnsweredIndices' = AnsweredIndices
      BY <2>2 DEF DoneIndices, AnsweredIndices, Done, Answered, AsIndices, IndexOf, IsCommitted, vars,
                  ledgerVars, trainerVars
    <3> QED
      BY <2>2, <3>1 DEF Trajectory!vars, DoneIndices, AnsweredIndices, vars, ledgerVars
  <2> QED
    BY <2>1, <2>2, NextActs
<1> QED
  BY <1>1, <1>2, TrajectoryInvariance, PTL DEF Spec, ImplementsTrajectory, Trajectory!Spec

-----------------------------------------------------------------------------
(* What the fake backend inherits from the promise it keeps. *)

Promise == INSTANCE CommittedTrajectory_proofs WITH
  Configs <- {g.config : g \in Graphs} \ {Nil},
  Requests <- {interval.steps : interval \in Intervals},
  Notes <- {interval.note : interval \in Intervals},
  config <- sessionConfig,
  trajectory <- [i \in 1..Len(rows) |-> rows[i].step],
  sealed <- completed,
  done <- {AsIndices(d) : d \in Done},
  answered <- {AsIndices(d) : d \in Answered}

\* However graphs compete for the heads of the session, each of its checkpoints is the work of
\* one advance of one of them, for every number of workers, of graphs and of re-runs.
THEOREM FakeCommitsOnce == Spec => []Trajectory!ExactlyOnce
<1>1. ImplementsTrajectory => Promise!Spec
  BY DEF ImplementsTrajectory, Trajectory!Spec, Trajectory!Init, Trajectory!Next, Trajectory!vars,
         Trajectory!Open, Trajectory!Advance, Trajectory!Answer, Trajectory!CompleteSession,
         Promise!Spec, Promise!Init, Promise!Next, Promise!vars,
         Promise!Open, Promise!Advance, Promise!Answer, Promise!CompleteSession
<1>2. Promise!Spec => []Promise!ExactlyOnce
  BY Promise!OnceEach
<1>3. Promise!ExactlyOnce => Trajectory!ExactlyOnce
  BY DEF Trajectory!ExactlyOnce, Promise!ExactlyOnce
<1> QED
  BY <1>1, <1>2, <1>3, FakeImplements, PTL

-----------------------------------------------------------------------------
(* Where a run is: the invariant. *)

AsHandle(h) == [manifest |-> h.manifest, step |-> h.step, seq |-> h.seq, config |-> h.config]

IsRow(h, i) == i \in 1..Len(rows) /\ h = HandleOf(rows[i])

\* The step a run set out from.
Base(r) == IF Creates(r) THEN 0 ELSE r.first.step

\* A run is as many steps on as the intervals it has behind it ask for.
Placed(w) ==
  run[w] # Nil =>
    /\ run[w].at \in 0..(Len(run[w].graph.intervals) + 2)
    /\ run[w].at = 0 => Creates(run[w])
    /\ run[w].at = 1 /\ ~Creates(run[w]) => run[w].port = run[w].first
    /\ Base(run[w]) \in Nat /\ Base(run[w]) + TotalSteps(run[w].graph) <= MaxStep
    /\ run[w].at \in 1..(Len(run[w].graph.intervals) + 1) =>
         /\ run[w].port = AsHandle(run[w].port)
         /\ run[w].port.step = Base(run[w]) + StepsUpTo(run[w].graph, run[w].at - 1)

\* The checkpoints of a run's intervals begin at the i-th row.
LedFrom(w, i) ==
  /\ i \in 1..Len(rows)
  /\ Creates(run[w]) => i = 1
  /\ ~Creates(run[w]) => run[w].first = HandleOf(rows[i])
  /\ PathFrom(run[w].graph, run[w].at - 1, i)
  /\ run[w].port = HandleOf(rows[i + run[w].at - 1])

OnPath(w) ==
  run[w] # Nil /\ run[w].at \in 1..(Len(run[w].graph.intervals) + 1) /\ (run[w].at = 1 => Creates(run[w]))
    => \E i : LedFrom(w, i)

Advances(w) == pc[w] \in AdvanceLabels \/ (pc[w] = "fence" /\ call[w].kind = "advance")
Completes(w) == pc[w] = "seal" \/ (pc[w] = "fence" /\ call[w].kind # "advance")

\* The handle an advance hands on names the row after the one its port names.
NextRow(w) ==
  \E i : /\ IsRow(run[w].port, i) /\ IsRow(call[w], i + 1)
         /\ rows[i + 1].step = rows[i].step + run[w].graph.intervals[run[w].at].steps

\* A call is the one of the node the run is at.
Calling(w) ==
  /\ run[w] = Nil => pc[w] \in {"idle", "raised"}
  /\ pc[w] = "created" => run[w].at = 0 /\ sessionConfig # Nil
  /\ Advances(w) => /\ AtAdvance(run[w])
                    /\ call[w].handle = run[w].port
                    /\ call[w].steps = run[w].graph.intervals[run[w].at].steps
                    /\ \E i : IsRow(run[w].port, i)
  /\ Completes(w) => run[w].at = Len(run[w].graph.intervals) + 1
  /\ pc[w] = "returned" =>
       /\ run[w].at <= Len(run[w].graph.intervals) + 1
       /\ run[w].at = 0 => IsRow(call[w], 1)
       /\ AtAdvance(run[w]) => NextRow(w)

FirstRow == Len(rows) > 0 => rows[1].step = 0

\* The row a committed operation led to is the one it records.
Recorded(o) ==
  \E i : /\ i \in 1..Len(rows) /\ i + 1 \in 1..Len(rows)
         /\ rows[i].step = o.input.step
         /\ rows[i + 1].step = rows[i].step + o.steps
         /\ rows[i + 1].manifest = ops[o].output
         /\ rows[i + 1].step = ops[o].step
         /\ rows[i + 1].seq = ops[o].seq

PathInv ==
  /\ FirstRow
  /\ \A o : IsCommitted(o) => Recorded(o)
  /\ \A w \in Workers : Placed(w) /\ OnPath(w) /\ Calling(w)

-----------------------------------------------------------------------------
(* Rows and records. *)

\* A row is named by the same handle for good.
LEMMA HandleKept ==
  ASSUME GraphInv, TrajectoryInv, NEW w \in Workers, Act(w), NEW h, NEW i, IsRow(h, i)
  PROVE  IsRow(h, i)' /\ rows'[i] = rows[i]
<1>1. i \in 1..Len(rows') /\ rows'[i] = rows[i]
  BY Permanent DEF IsRow
<1>2. sessionConfig # Nil
  BY DEF IsRow, TrajectoryInv, Opened
<1>3. sessionConfig' = sessionConfig
  BY <1>2, ConfigKept
<1> QED
  BY <1>1, <1>3 DEF IsRow, HandleOf

LEMMA PathKept ==
  ASSUME GraphInv, TrajectoryInv, NEW w \in Workers, Act(w), NEW g, NEW k \in Nat, NEW i \in 1..Len(rows),
         PathFrom(g, k, i)
  PROVE  PathFrom(g, k, i)'
<1>1. Len(rows) \in Nat
  BY DEF GraphInv, RowsOK
<1>2. \A j \in 0..k : i + j \in 1..Len(rows) /\ rows'[i + j] = rows[i + j]
  <2>1. \A j \in 0..k : i + j \in 1..Len(rows)
    BY <1>1 DEF PathFrom
  <2> QED
    BY <2>1, Permanent
<1>3. i + k <= Len(rows') /\ rows'[i] = rows[i]
  <2>1. i + k \in 1..Len(rows')
    <3>1. i + k \in 1..Len(rows)
      BY <1>2
    <3> QED
      BY <3>1, Permanent
  <2> QED
    BY <2>1, Permanent
<1> QED
  BY <1>2, <1>3 DEF PathFrom

LEMMA FirstRowStep ==
  ASSUME GraphInv, TrajectoryInv, FirstRow, NEW w \in Workers, Act(w)
  PROVE  FirstRow'
<1>1. CASE Registered(w)
  <2>1. PICK row : rows' = <<row>> /\ row.step = 0
    BY <1>1 DEF Registered
  <2> QED
    BY <2>1, OneRow DEF FirstRow
<1>2. CASE Extended(w)
  BY <1>2, FromHead, Appended DEF FirstRow
<1>3. CASE Kept
  BY <1>3 DEF FirstRow, Kept
<1> QED
  BY <1>1, <1>2, <1>3, LedgerSteps

\* What a commit records is the row it adds.
LEMMA RecordedRow ==
  ASSUME GraphInv, TrajectoryInv, NEW w \in Workers, Extended(w)
  PROVE  \E x, n : /\ x = Operation(w) /\ n = Len(rows)
                   /\ n \in 1..Len(rows') /\ n + 1 \in 1..Len(rows')
                   /\ rows'[n].step = x.input.step
                   /\ rows'[n + 1].step = rows'[n].step + x.steps
                   /\ rows'[n + 1].manifest = ops'[x].output
                   /\ rows'[n + 1].step = ops'[x].step
                   /\ rows'[n + 1].seq = ops'[x].seq
<1>1. PICK x, m, t, n, row : /\ x = Operation(w) /\ t = Target(w) /\ m = Manifest(call[w].handle.config, t)
                             /\ n = Len(rows) /\ row = NewRow(w)
  OBVIOUS
<1>2. /\ ops' = [ops EXCEPT ![x].status = "committed", ![x].output = m,
                            ![x].step = t, ![x].seq = journal + 1]
      /\ x \in DOMAIN ops /\ DOMAIN ops[x] = RecordFields
  BY <1>1, FromHead DEF Extended, GraphInv, OperationOK
<1>3. ops'[x].output = m /\ ops'[x].step = t /\ ops'[x].seq = journal + 1
  BY <1>2 DEF RecordFields
<1>4. row.manifest = m /\ row.step = t /\ row.seq = journal + 1
  BY <1>1 DEF NewRow
<1>5. PICK S : rows \in Seq(S)
  BY DEF GraphInv, RowsOK
<1>6. rows \in Seq(S \cup {row}) /\ n \in Nat \ {0}
  BY <1>1, <1>5, FromHead
<1>7. /\ Len(Append(rows, row)) = n + 1
      /\ Append(rows, row)[n + 1] = row
      /\ \A i \in 1..n : Append(rows, row)[i] = rows[i]
  BY <1>1, <1>6, AppendProperties
<1>8. rows' = Append(rows, row)
  BY <1>1 DEF Extended
<1>9. x.input.step = rows[n].step /\ t = rows[n].step + call[w].steps /\ x.steps = call[w].steps
  BY <1>1, FromHead DEF Operation
<1> QED
  BY <1>1, <1>3, <1>4, <1>6, <1>7, <1>8, <1>9

LEMMA RecordedStep ==
  ASSUME GraphInv, TrajectoryInv, PathInv, NEW w \in Workers, Act(w), NEW o, IsCommitted(o)'
  PROVE  Recorded(o)'
<1>1. CASE IsCommitted(o)
  <2>1. ops'[o] = ops[o] /\ Recorded(o)
    BY <1>1, Permanent DEF PathInv
  <2>2. PICK i : /\ i \in 1..Len(rows) /\ i + 1 \in 1..Len(rows)
                 /\ rows[i].step = o.input.step
                 /\ rows[i + 1].step = rows[i].step + o.steps
                 /\ rows[i + 1].manifest = ops[o].output
                 /\ rows[i + 1].step = ops[o].step
                 /\ rows[i + 1].seq = ops[o].seq
    BY <2>1 DEF Recorded
  <2>3. /\ i \in 1..Len(rows') /\ i + 1 \in 1..Len(rows')
        /\ rows'[i] = rows[i] /\ rows'[i + 1] = rows[i + 1]
    BY <2>2, Permanent
  <2> QED
    BY <2>1, <2>2, <2>3 DEF Recorded
<1>2. CASE ~IsCommitted(o)
  <2>1. Extended(w)
    BY <1>2, LedgerSteps DEF Registered, Kept, IsCommitted
  <2>2. o = Operation(w)
    BY <1>2, <2>1, CommittedRecord
  <2> QED
    BY <2>1, <2>2, RecordedRow DEF Recorded
<1> QED
  BY <1>1, <1>2

-----------------------------------------------------------------------------
(* Runs. *)

\* Only a worker's own engine steps move its run.
LEMMA RunAlone ==
  ASSUME ShapeOK, NEW w \in Workers, NEW v \in Workers, Act(w), run'[v] # run[v]
  PROVE  v = w /\ (Starts(w) \/ NodeReturns(w) \/ RunFails(w) \/ RunEnds(w))
<1> USE DEF ShapeOK
<1>1. Starts(w) => (v = w)
  BY DEF Starts, StartGraph, StartLiteral, StartRun
<1>2. RunEnds(w) \/ RunFails(w) \/ NodeReturns(w) => v = w
  BY DEF RunEnds, RunFails, NodeReturns
<1> QED
  BY <1>1, <1>2 DEF Act, Execute, ExecuteCreate, ExecuteAdvance, ExecuteComplete

\* A literal names a committed checkpoint but for its watermark.
LEMMA LiteralHandle ==
  ASSUME GraphInv, NEW h \in Literals
  PROVE  h = AsHandle(h) /\ h.step \in Nat
<1>0. PICK i \in 1..Len(rows) : h = HandleOf(rows[i]) \/ h = [HandleOf(rows[i]) EXCEPT !.seq = HandleOf(rows[i]).seq + 7]
  BY DEF Literals, Handles
<1>1. PICK k : k = HandleOf(rows[i]) /\ (h = k \/ h = [k EXCEPT !.seq = k.seq + 7])
  BY <1>0
<1>2. k.step = rows[i].step /\ DOMAIN k = {"manifest", "step", "seq", "config"}
  BY <1>1 DEF HandleOf
<1>3. rows[i].step \in Nat
  BY DEF GraphInv, RowsOK
<1>4. DOMAIN h = {"manifest", "step", "seq", "config"} /\ h = [x \in DOMAIN h |-> h[x]] /\ h.step = k.step
  <2>1. CASE h = k
    BY <1>1, <1>2, <2>1 DEF HandleOf
  <2>2. CASE h = [k EXCEPT !.seq = k.seq + 7]
    BY <1>2, <2>2
  <2> QED
    BY <1>1, <2>1, <2>2
<1> QED
  BY <1>2, <1>3, <1>4 DEF AsHandle

LEMMA StartedRun ==
  ASSUME GraphInv, PathInv, NEW w \in Workers, Starts(w)
  PROVE  Placed(w)' /\ OnPath(w)' /\ Calling(w)'
<1> USE DEF GraphInv, ShapeOK
<1>0. PICK g \in Graphs : \E h :
        \/ g.config # Nil /\ TotalSteps(g) <= MaxStep /\ StartRun(w, Fresh(g))
        \/ h \in Literals /\ g.config = Nil /\ h.step + TotalSteps(g) <= MaxStep /\ StartRun(w, FromLiteral(g, h))
  BY DEF Starts, StartGraph, StartLiteral
<1>1. PICK h :
        \/ g.config # Nil /\ TotalSteps(g) <= MaxStep /\ StartRun(w, Fresh(g))
        \/ h \in Literals /\ g.config = Nil /\ h.step + TotalSteps(g) <= MaxStep /\ StartRun(w, FromLiteral(g, h))
  BY <1>0
<1>2. run[w] = Nil /\ pc'[w] = pc[w] /\ pc[w] \in {"idle", "raised"}
  BY <1>1 DEF StartRun, trainerVars, PathInv, Calling
<1>3. Calling(w)'
  BY <1>2 DEF Calling, Advances, Completes, AdvanceLabels, Claimed
<1>4. Len(g.intervals) \in Nat /\ StepsUpTo(g, 0) = 0 /\ TotalSteps(g) \in Nat
  BY GraphAssumption, StepCounts DEF TotalSteps
<1>5. PICK r : run' = [run EXCEPT ![w] = r] /\ (r = Fresh(g) \/ r = FromLiteral(g, h))
  BY <1>1 DEF StartRun
<1>6. CASE r = Fresh(g) /\ g.config # Nil /\ TotalSteps(g) <= MaxStep
  <2>1. run'[w].at = 0 /\ run'[w].graph = g
    BY <1>5, <1>6 DEF Fresh
  <2> QED
    BY <1>3, <1>4, <1>6, <2>1 DEF Placed, OnPath, Base, Creates
<1>7. CASE r = FromLiteral(g, h) /\ h \in Literals /\ g.config = Nil /\ h.step + TotalSteps(g) <= MaxStep
  <2>1. run'[w].at = 1 /\ run'[w].graph = g /\ run'[w].first = h /\ run'[w].port = h
    BY <1>5, <1>7 DEF FromLiteral
  <2>2. h = AsHandle(h) /\ h.step \in Nat
    BY <1>7, LiteralHandle
  <2>3. ~Creates(run'[w]) /\ Base(run'[w]) = h.step
    BY <1>7, <2>1 DEF Creates, Base
  <2>4. Placed(w)'
    BY <1>4, <1>7, <2>1, <2>2, <2>3 DEF Placed
  <2>5. OnPath(w)'
    BY <2>1, <2>3 DEF OnPath
  <2> QED
    BY <1>3, <2>4, <2>5
<1> QED
  <2>1. \/ r = Fresh(g) /\ g.config # Nil /\ TotalSteps(g) <= MaxStep
        \/ r = FromLiteral(g, h) /\ h \in Literals /\ g.config = Nil /\ h.step + TotalSteps(g) <= MaxStep
    BY <1>1, <1>5 DEF StartRun
  <2> QED
    BY <1>6, <1>7, <2>1

\* A run that stays where it is, is on its path still.
LEMMA RunStays ==
  ASSUME GraphInv, TrajectoryInv, PathInv, NEW w \in Workers, Act(w), NEW v \in Workers, run'[v] = run[v]
  PROVE  Placed(v)' /\ OnPath(v)'
<1>1. Placed(v) /\ OnPath(v)
  BY DEF PathInv
<1>2. Placed(v)'
  BY <1>1 DEF Placed
<1>3. ASSUME run[v] # Nil, run[v].at \in 1..(Len(run[v].graph.intervals) + 1), NEW i, LedFrom(v, i)
      PROVE  LedFrom(v, i)'
  <2>1. PICK r, k : r = run[v] /\ k = r.at - 1
    OBVIOUS
  <2>2. k \in Nat /\ Len(rows) \in Nat
    BY <1>3, <2>1, GraphAssumption DEF GraphInv, ShapeOK, RowsOK
  <2>3. /\ i \in 1..Len(rows) /\ PathFrom(r.graph, k, i) /\ IsRow(r.port, i + k)
        /\ ~Creates(r) => IsRow(r.first, i)
    <3>1. /\ i \in 1..Len(rows) /\ PathFrom(r.graph, k, i) /\ r.port = HandleOf(rows[i + k])
          /\ ~Creates(r) => r.first = HandleOf(rows[i])
      BY <1>3, <2>1, <2>2 DEF LedFrom
    <3> QED
      BY <2>2, <3>1 DEF IsRow, PathFrom
  <2>4. /\ i \in 1..Len(rows') /\ PathFrom(r.graph, k, i)' /\ IsRow(r.port, i + k)'
        /\ ~Creates(r) => IsRow(r.first, i)'
    BY <2>2, <2>3, HandleKept, PathKept, Permanent
  <2> QED
    BY <1>3, <2>1, <2>2, <2>4 DEF LedFrom, IsRow
<1>4. OnPath(v)'
  BY <1>1, <1>3 DEF OnPath
<1> QED
  BY <1>2, <1>4

\* A handle names one row.
LEMMA SameRow ==
  ASSUME GraphInv, TrajectoryInv, NEW h, NEW i, NEW j, IsRow(h, i), IsRow(h, j)
  PROVE  i = j
<1>1. rows[i].step = h.step /\ rows[j].step = h.step /\ i \in 1..Len(rows) /\ j \in 1..Len(rows)
  BY DEF IsRow, HandleOf
<1>2. i \in Nat /\ j \in Nat /\ rows[i].step \in Nat
  BY <1>1 DEF GraphInv, RowsOK
<1>3. ~(i < j) /\ ~(j < i)
  BY <1>1, <1>2 DEF TrajectoryInv, Ordered
<1> QED
  BY <1>2, <1>3

\* A path of k intervals goes on to the next row when that is its next interval away.
LEMMA PathGrows ==
  ASSUME GraphInv, NEW g \in Graphs, NEW k \in Nat, NEW i \in 1..Len(rows), PathFrom(g, k, i),
         k + 1 <= Len(g.intervals), (i + k) + 1 \in 1..Len(rows),
         rows[(i + k) + 1].step = rows[i + k].step + g.intervals[k + 1].steps
  PROVE  PathFrom(g, k + 1, i)
<1>1. Len(g.intervals) \in Nat /\ Len(rows) \in Nat
  BY GraphAssumption DEF GraphInv, RowsOK
<1>2. k + 1 \in 1..Len(g.intervals) /\ k \in 0..Len(g.intervals) /\ k + 1 \in 0..Len(g.intervals)
  BY <1>1
<1>3. /\ StepsUpTo(g, k) \in Nat /\ StepsUpTo(g, k + 1) \in Nat
      /\ StepsUpTo(g, k + 1) = StepsUpTo(g, (k + 1) - 1) + g.intervals[k + 1].steps
      /\ g.intervals[k + 1].steps \in Nat
  BY <1>2, StepCounts, GraphAssumption
<1>4. (k + 1) - 1 = k /\ i + (k + 1) = (i + k) + 1
  OBVIOUS
<1>5. rows[i].step \in Nat /\ rows[i + k].step = rows[i].step + StepsUpTo(g, k)
  <2>1. rows[i].step \in Nat /\ k \in 0..k
    BY DEF GraphInv, RowsOK
  <2> QED
    BY <2>1 DEF PathFrom
<1>6. rows[i + (k + 1)].step = rows[i].step + StepsUpTo(g, k + 1)
  <2>1. StepsUpTo(g, k + 1) = StepsUpTo(g, k) + g.intervals[k + 1].steps
    BY <1>3, <1>4
  <2>2. rows[i + (k + 1)].step = rows[i + k].step + g.intervals[k + 1].steps
    BY <1>4
  <2>3. PICK a \in Nat, b \in Nat, c \in Nat :
          a = rows[i].step /\ b = StepsUpTo(g, k) /\ c = g.intervals[k + 1].steps
    BY <1>3, <1>5
  <2>4. (a + b) + c = a + (b + c)
    OBVIOUS
  <2>5. rows[i + k].step = a + b
    BY <1>5, <2>3
  <2> QED
    BY <2>1, <2>2, <2>3, <2>4, <2>5
<1>7. \A j \in 0..(k + 1) : j \in 0..k \/ j = k + 1
  OBVIOUS
<1> QED
  BY <1>1, <1>6, <1>7 DEF PathFrom

LEMMA EmptyPath ==
  ASSUME GraphInv, NEW g \in Graphs, NEW i \in 1..Len(rows)
  PROVE  PathFrom(g, 0, i)
<1>1. rows[i].step \in Nat /\ i + 0 = i /\ i <= Len(rows)
  BY DEF GraphInv, RowsOK
<1>2. \A j \in 0..0 : j = 0
  OBVIOUS
<1> QED
  BY <1>1, <1>2, StepCounts DEF PathFrom

\* A run takes the handle of its node on to the next one.
LEMMA ReturnedRun ==
  ASSUME GraphInv, TrajectoryInv, PathInv, NEW w \in Workers, NodeReturns(w)
  PROVE  Placed(w)' /\ OnPath(w)' /\ Calling(w)'
<1>1. PICK r, g, n, h : r = run[w] /\ g = r.graph /\ n = Len(g.intervals) /\ h = call[w]
  OBVIOUS
<1>2. /\ r # Nil /\ g \in Graphs /\ n \in Nat /\ r.at \in Nat /\ r.at <= n + 1
      /\ Placed(w) /\ OnPath(w) /\ Calling(w) /\ pc[w] = "returned"
      /\ Len(rows) \in Nat
  BY <1>1, GraphAssumption DEF NodeReturns, GraphInv, ShapeOK, RowsOK, TrajectoryInv, RunOK, PathInv, Calling
<1>3. PICK q : /\ q = run'[w] /\ q.graph = g /\ q.first = r.first /\ q.at = r.at + 1 /\ q.port = h
  <2>1. DOMAIN r = {"graph", "first", "at", "port"} /\ run' = [run EXCEPT ![w].at = @ + 1, ![w].port = h]
    BY <1>1, <1>2 DEF NodeReturns, GraphInv, ShapeOK
  <2>2. run'[w] = [r EXCEPT !.at = r.at + 1, !.port = h]
    BY <1>1, <2>1 DEF GraphInv, ShapeOK
  <2> QED
    BY <1>1, <2>1, <2>2
<1>4. Creates(q) = Creates(r) /\ Base(q) = Base(r) /\ Base(r) \in Nat
  BY <1>1, <1>2, <1>3 DEF Creates, Base, Placed
<1>5. Calling(w)'
  <2>1. pc'[w] = "idle"
    BY DEF NodeReturns, Goto, GraphInv, ShapeOK
  <2> QED
    BY <2>1 DEF Calling, Advances, Completes, AdvanceLabels, Claimed
<1>6. ledgerVars' = ledgerVars
  BY DEF NodeReturns
\* It suffices to find where the new handle is.
<1>7. ASSUME NEW i \in 1..Len(rows), Creates(r) => i = 1, ~Creates(r) => r.first = HandleOf(rows[i]),
             PathFrom(g, r.at, i), h = HandleOf(rows[i + r.at]), r.at <= n
      PROVE  OnPath(w)'
  <2>1. r.at + 1 - 1 = r.at
    BY <1>2
  <2>2. rows' = rows /\ sessionConfig' = sessionConfig
    BY <1>6 DEF ledgerVars
  <2>3. PathFrom(g, r.at, i)'
    BY <1>7, <2>2 DEF PathFrom
  <2>4. PathFrom(run[w].graph, run[w].at - 1, i)'
    <3>1. run'[w].graph = g /\ run'[w].at - 1 = r.at
      BY <1>2, <1>3
    <3> QED
      BY <2>3, <3>1 DEF PathFrom
  <2>5. run'[w].port = HandleOf(rows[i + run[w].at - 1])'
    <3>1. i + q.at - 1 = i + r.at
      BY <1>2, <1>3
    <3> QED
      BY <1>3, <1>7, <2>2, <3>1 DEF HandleOf
  <2>6. Creates(run[w])' = Creates(r) /\ run'[w].first = r.first
    BY <1>1, <1>3 DEF Creates
  <2>7. i \in 1..Len(rows') /\ (~Creates(r) => r.first = HandleOf(rows[i])')
    BY <1>7, <2>2 DEF HandleOf
  <2>8. LedFrom(w, i)'
    BY <1>7, <2>4, <2>5, <2>6, <2>7 DEF LedFrom
  <2> QED
    BY <2>8 DEF OnPath
<1>8. ASSUME h = AsHandle(h), h.step = Base(r) + StepsUpTo(g, r.at)
      PROVE  Placed(w)'
  <2>1. r.at + 1 - 1 = r.at
    BY <1>2
  <2>2. Base(r) + TotalSteps(g) <= MaxStep /\ (r.at = 0 => Creates(r))
    BY <1>1, <1>2 DEF Placed
  <2> QED
    <3>1. /\ q.at \in 0..(n + 2) /\ q.at # 0 /\ (q.at = 1 => Creates(q))
          /\ Base(q) + TotalSteps(q.graph) <= MaxStep /\ Base(q) \in Nat
      BY <1>2, <1>3, <1>4, <2>2
    <3>2. q.port = AsHandle(q.port) /\ q.port.step = Base(q) + StepsUpTo(q.graph, q.at - 1)
      BY <1>2, <1>3, <1>4, <1>8
    <3> QED
      BY <1>1, <1>3, <3>1, <3>2 DEF Placed
<1>9. CASE r.at = n + 1
  <2>1. Base(r) + TotalSteps(g) <= MaxStep
    BY <1>1, <1>2 DEF Placed
  <2>2. Placed(w)'
    BY <1>1, <1>2, <1>3, <1>4, <1>9, <2>1 DEF Placed
  <2>3. OnPath(w)'
    BY <1>1, <1>2, <1>3, <1>9 DEF OnPath
  <2> QED
    BY <1>5, <2>2, <2>3
<1>10. CASE r.at = 0
  <2>1. IsRow(h, 1) /\ Creates(r)
    BY <1>1, <1>2, <1>10 DEF Calling, Placed
  <2>2. h = AsHandle(h) /\ h.step = rows[1].step /\ 1 \in 1..Len(rows)
    BY <2>1 DEF IsRow, HandleOf, AsHandle
  <2>3. rows[1].step = 0 /\ Base(r) = 0 /\ StepsUpTo(g, 0) = 0
    BY <1>2, <2>1, <2>2, StepCounts DEF PathInv, FirstRow, Base
  <2>4. PathFrom(g, 0, 1)
    BY <1>2, <2>2, EmptyPath
  <2>5. Placed(w)'
    BY <1>8, <1>10, <2>2, <2>3
  <2>6. OnPath(w)'
    BY <1>2, <1>7, <1>10, <2>1, <2>2, <2>4 DEF IsRow
  <2> QED
    BY <1>5, <2>5, <2>6
<1>11. CASE r.at \in 1..n
  <2>0. PICK k : k = r.at - 1 /\ k \in Nat /\ k + 1 = r.at /\ k + 1 <= n
    BY <1>2, <1>11
  <2>1. PICK m : /\ IsRow(r.port, m) /\ IsRow(h, m + 1)
                 /\ rows[m + 1].step = rows[m].step + g.intervals[r.at].steps
    BY <1>1, <1>2, <1>11 DEF Calling, AtAdvance, NextRow
  <2>2. /\ m \in 1..Len(rows) /\ m + 1 \in 1..Len(rows)
        /\ r.port.step = rows[m].step /\ h.step = rows[m + 1].step /\ h = AsHandle(h)
    BY <2>1 DEF IsRow, HandleOf, AsHandle
  <2>3. Placed(w)'
    <3>1. r.port.step = Base(r) + StepsUpTo(g, r.at - 1)
      BY <1>1, <1>2, <1>11 DEF Placed
    <3>2. StepsUpTo(g, r.at) = StepsUpTo(g, r.at - 1) + g.intervals[r.at].steps
      BY <1>1, <1>2, <1>11, StepCounts
    <3>3. g.intervals[r.at].steps \in Nat /\ StepsUpTo(g, r.at - 1) \in Nat
      <4>1. r.at - 1 \in 0..n
        BY <1>2, <1>11
      <4> QED
        BY <1>1, <1>2, <1>11, <4>1, StepCounts, GraphAssumption
    <3> QED
      BY <1>4, <1>8, <2>1, <2>2, <3>1, <3>2, <3>3
  <2>4. PICK i \in 1..Len(rows) : /\ Creates(r) => i = 1
                                  /\ ~Creates(r) => r.first = HandleOf(rows[i])
                                  /\ PathFrom(g, k, i) /\ IsRow(r.port, i + k)
    <3>1. CASE r.at = 1 /\ ~Creates(r)
      <4>1. r.port = r.first /\ k = 0 /\ m + 0 = m
        BY <1>1, <1>2, <2>0, <2>2, <3>1 DEF Placed
      <4>2. r.first = HandleOf(rows[m]) /\ PathFrom(g, 0, m)
        BY <1>2, <2>1, <2>2, <4>1, EmptyPath DEF IsRow
      <4> QED
        BY <2>1, <2>2, <3>1, <4>1, <4>2
    <3>2. CASE ~(r.at = 1 /\ ~Creates(r))
      <4>1. PICK i : LedFrom(w, i)
        BY <1>1, <1>2, <1>11, <3>2 DEF OnPath
      <4>2. i + k = i + r.at - 1 /\ i \in 1..Len(rows)
        BY <1>2, <2>0, <4>1 DEF LedFrom
      <4>3. i + k \in 1..Len(rows) /\ PathFrom(g, k, i)
        BY <1>1, <1>2, <2>0, <4>1, <4>2 DEF LedFrom, PathFrom
      <4> QED
        BY <1>1, <4>1, <4>2, <4>3 DEF LedFrom, IsRow
    <3> QED
      BY <3>1, <3>2
  <2>5. m = i + k
    BY <2>1, <2>4, SameRow
  <2>6. PathFrom(g, k + 1, i)
    BY <1>1, <1>2, <2>0, <2>1, <2>2, <2>4, <2>5, PathGrows
  <2>7. i + r.at = m + 1
    BY <2>0, <2>4, <2>5
  <2>8. h = HandleOf(rows[i + r.at]) /\ PathFrom(g, r.at, i)
    BY <2>0, <2>1, <2>6, <2>7 DEF IsRow
  <2>9. OnPath(w)'
    BY <1>7, <1>11, <2>4, <2>8
  <2> QED
    BY <1>5, <2>3, <2>9
<1> QED
  BY <1>2, <1>9, <1>10, <1>11

-----------------------------------------------------------------------------
(* Calls. *)

LEMMA CallStays ==
  ASSUME GraphInv, TrajectoryInv, PathInv, NEW w \in Workers, Act(w), NEW v \in Workers,
         run'[v] = run[v], pc'[v] = pc[v], call'[v] = call[v]
  PROVE  Calling(v)'
<1>1. Calling(v) /\ (sessionConfig # Nil => sessionConfig' # Nil)
  BY ConfigKept DEF PathInv
<1>2. \A h, i : IsRow(h, i) => IsRow(h, i)'
  BY HandleKept
<1>3. NextRow(v) => NextRow(v)'
  <2>1. \A h, i : IsRow(h, i) => rows'[i] = rows[i]
    BY HandleKept
  <2> QED
    BY <1>2, <2>1 DEF NextRow
<1> QED
  BY <1>1, <1>2, <1>3 DEF Calling, Advances, Completes

\* An advance that goes on.
LEMMA CallMoves ==
  ASSUME GraphInv, TrajectoryInv, PathInv, NEW w \in Workers, Act(w), run' = run, call' = call,
         Advances(w), pc'[w] \in AdvanceLabels
  PROVE  Calling(w)'
<1>1. Calling(w) /\ run[w] # Nil
  BY DEF PathInv, Calling, Advances, AdvanceLabels, Claimed
<1>2. \A h, i : IsRow(h, i) => IsRow(h, i)'
  BY HandleKept
<1> QED
  BY <1>1, <1>2 DEF Calling, Advances, Completes, AdvanceLabels, Claimed

\* The answer of an advance is the row after its input.
LEMMA OutcomeRow ==
  ASSUME GraphInv, TrajectoryInv, PathInv, NEW w \in Workers, pc[w] = "answer"
  PROVE  \E i, h : /\ h = Outcome(w, ops[Operation(w)])
                   /\ IsRow(run[w].port, i) /\ IsRow(h, i + 1)
                   /\ rows[i + 1].step = rows[i].step + run[w].graph.intervals[run[w].at].steps
<1>1. PICK o, p : o = Operation(w) /\ p = run[w].port
  OBVIOUS
<1>2. /\ IsCommitted(o) /\ Ready(w) /\ call[w].handle = p
      /\ call[w].steps = run[w].graph.intervals[run[w].at].steps
  BY <1>1 DEF TrajectoryInv, CallOK, Advancing, AdvanceLabels, PathInv, Calling, Advances
<1>3. PICK j : IsRow(p, j)
  BY <1>1 DEF PathInv, Calling, Advances, AdvanceLabels
<1>4. o.input.step = p.step /\ o.steps = call[w].steps
  BY <1>1, <1>2 DEF Operation, Ready, Manifest
<1>5. PICK i : /\ i \in 1..Len(rows) /\ i + 1 \in 1..Len(rows)
               /\ rows[i].step = o.input.step
               /\ rows[i + 1].step = rows[i].step + o.steps
               /\ rows[i + 1].manifest = ops[o].output
               /\ rows[i + 1].step = ops[o].step
               /\ rows[i + 1].seq = ops[o].seq
  BY <1>2 DEF PathInv, Recorded
<1>6. i = j
  <2>1. rows[j].step = rows[i].step /\ j \in 1..Len(rows)
    BY <1>3, <1>4, <1>5 DEF IsRow, HandleOf
  <2>2. i \in Nat /\ j \in Nat /\ rows[i].step \in Nat
    BY <1>5, <2>1 DEF GraphInv, RowsOK
  <2>3. ~(i < j) /\ ~(j < i)
    BY <1>5, <2>1, <2>2 DEF TrajectoryInv, Ordered
  <2> QED
    BY <2>2, <2>3
<1>7. PICK h : /\ h = Outcome(w, ops[o])
               /\ h = [manifest |-> ops[o].output, step |-> ops[o].step, seq |-> ops[o].seq,
                       config |-> sessionConfig]
  BY <1>2 DEF Outcome, Ready
<1>8. IsRow(h, i + 1)
  BY <1>5, <1>7 DEF IsRow, HandleOf
<1> QED
  BY <1>1, <1>2, <1>3, <1>4, <1>5, <1>6, <1>7, <1>8

LEMMA StartedCall ==
  ASSUME GraphInv, TrajectoryInv, PathInv, NEW w \in Workers, Act(w), run' = run,
         ExecuteCreate(w) \/ ExecuteAdvance(w) \/ ExecuteComplete(w)
  PROVE  Calling(w)'
<1> USE DEF Goto, GraphInv, ShapeOK
<1>1. CASE pc'[w] = "raised"
  BY <1>1 DEF Calling, Advances, Completes, AdvanceLabels, Claimed
<1>2. CASE ExecuteCreate(w) /\ pc'[w] # "raised"
  <2>1. run[w] # Nil /\ run[w].at = 0 /\ pc'[w] = "created"
    BY <1>2 DEF ExecuteCreate, Create, Begin
  <2>2. sessionConfig' # Nil
    BY <1>2, <2>1 DEF ExecuteCreate, Create, CreateSession, TrajectoryInv, RunOK, Begin
  <2> QED
    BY <2>1, <2>2 DEF Calling, Advances, Completes, AdvanceLabels, Claimed
<1>3. CASE ExecuteAdvance(w) /\ pc'[w] # "raised"
  <2>1. PICK r, n, h, note :
          /\ r = run[w] /\ r # Nil /\ AtAdvance(r) /\ h = r.port
          /\ n = r.graph.intervals[r.at].steps /\ note = r.graph.intervals[r.at].note
          /\ Advance(w, h, n, note)
    BY <1>3 DEF ExecuteAdvance
  <2>2. /\ call'[w] = [kind |-> "advance", handle |-> h, steps |-> n, note |-> note]
        /\ pc'[w] \in {"fence", "claim"} /\ VerifyHandle(h)
        /\ rows' = rows /\ sessionConfig' = sessionConfig
    BY <1>3, <2>1 DEF Advance, Begin, ledgerVars
  <2>3. call'[w].kind = "advance" /\ call'[w].handle = h /\ call'[w].steps = n
    BY <2>2
  <2>4. h = AsHandle(h)
    <3>1. r.at \in 1..(Len(r.graph.intervals) + 1)
      BY <2>1, GraphAssumption DEF AtAdvance
    <3> QED
      BY <2>1, <3>1 DEF PathInv, Placed
  <2>5. PICK i \in 1..Len(rows) : rows[i].manifest = h.manifest /\ rows[i].step = h.step /\ rows[i].seq = h.seq
    BY <2>2 DEF VerifyHandle
  <2>6. h.config = sessionConfig
    BY <2>2 DEF VerifyHandle
  <2>7. h = HandleOf(rows[i])
    BY <2>4, <2>5, <2>6 DEF AsHandle, HandleOf
  <2>8. IsRow(h, i)'
    BY <2>2, <2>7 DEF IsRow, HandleOf
  <2> QED
    BY <2>1, <2>2, <2>3, <2>8 DEF Calling, Advances, Completes, AdvanceLabels, Claimed
<1>4. CASE ExecuteComplete(w) /\ pc'[w] # "raised"
  <2>1. run[w] # Nil /\ run[w].at = Len(run[w].graph.intervals) + 1
    BY <1>4 DEF ExecuteComplete, AtComplete
  <2>2. PICK h : call'[w] = [kind |-> "complete", handle |-> h] /\ pc'[w] \in {"fence", "seal"}
    BY <1>4 DEF ExecuteComplete, Complete, Begin
  <2>3. call'[w].kind = "complete"
    BY <2>2
  <2> QED
    BY <2>1, <2>2, <2>3 DEF Calling, Advances, Completes, AdvanceLabels, Claimed
<1> QED
  BY <1>1, <1>2, <1>3, <1>4

LEMMA OwnCalling ==
  ASSUME GraphInv, TrajectoryInv, PathInv, NEW w \in Workers, Act(w), run' = run
  PROVE  Calling(w)'
<1> USE DEF Goto, GraphInv, ShapeOK
<1>0. Calling(w)
  BY DEF PathInv
<1>1. CASE pc'[w] = "raised"
  BY <1>1 DEF Calling, Advances, Completes, AdvanceLabels, Claimed
<1>2. CASE Starts(w) \/ RunEnds(w)
  <2>1. pc' = pc /\ call' = call
    BY <1>2 DEF Starts, StartGraph, StartLiteral, StartRun, RunEnds, trainerVars
  <2> QED
    BY <2>1, CallStays
<1>3. CASE RunFails(w)
  BY <1>3 DEF RunFails, Calling, Advances, Completes, AdvanceLabels, Claimed
<1>4. CASE NodeReturns(w)
  BY <1>4, ReturnedRun
<1>5. CASE ReturnCreated(w)
  <2>1. /\ pc[w] = "created" /\ pc'[w] = "returned" /\ call'[w] = HandleOf(rows[1])
        /\ rows' = rows /\ sessionConfig' = sessionConfig
    BY <1>5 DEF ReturnCreated, Return, ledgerVars
  <2>2. run[w] # Nil /\ run[w].at = 0 /\ sessionConfig # Nil
    BY <1>0, <2>1 DEF Calling
  <2>3. 1 \in 1..Len(rows)
    BY <2>2 DEF TrajectoryInv, Opened, RowsOK
  <2>4. IsRow(call[w], 1)'
    BY <2>1, <2>3 DEF IsRow, HandleOf
  <2>5. 0 <= Len(run[w].graph.intervals) + 1
    BY <2>2, GraphAssumption
  <2> QED
    BY <2>1, <2>2, <2>4, <2>5 DEF Calling, Advances, Completes, AdvanceLabels, Claimed, AtAdvance
<1>6. CASE GetFence(w)
  <2>1. /\ pc[w] = "fence" /\ call' = call
        /\ pc'[w] = IF call[w].kind = "advance" THEN "claim" ELSE "seal"
    BY <1>6 DEF GetFence
  <2>2. CASE call[w].kind = "advance"
    BY <2>1, <2>2, CallMoves DEF Advances, AdvanceLabels
  <2>3. CASE call[w].kind # "advance"
    BY <1>0, <2>1, <2>3 DEF Calling, Advances, Completes, AdvanceLabels, Claimed
  <2> QED
    BY <2>2, <2>3
<1>7. CASE (ClaimReplayed(w) \/ Claim(w) \/ Step(w) \/ RecordRecovery(w)) /\ pc'[w] # "raised"
  <2>1. Advances(w) /\ pc'[w] \in AdvanceLabels /\ call' = call
    BY <1>7 DEF ClaimReplayed, Claim, Step, RecordRecovery, Raise, Advances, AdvanceLabels, Claimed
  <2> QED
    BY <2>1, CallMoves
<1>8. CASE (ReadCovered(w) \/ Commit(w) \/ PollCancelled(w)) /\ pc'[w] # "raised"
  <2>1. Advances(w) /\ pc'[w] \in AdvanceLabels /\ call' = call
    BY <1>8 DEF ReadCovered, Commit, PollCancelled, Raise, Advances, AdvanceLabels, Claimed
  <2> QED
    BY <2>1, CallMoves
<1>9. CASE Pause(w) \/ Kill(w)
  <2>1. pc'[w] = "raised"
    BY <1>9 DEF Pause, Kill, Raise
  <2> QED
    BY <1>1, <2>1
<1>10. CASE ReturnOutcome(w)
  <2>1. pc[w] = "answer"
    BY <1>10 DEF ReturnOutcome
  <2>2. PICK i, h : /\ h = Outcome(w, ops[Operation(w)])
                    /\ IsRow(run[w].port, i) /\ IsRow(h, i + 1)
                    /\ rows[i + 1].step = rows[i].step + run[w].graph.intervals[run[w].at].steps
    BY <2>1, OutcomeRow
  <2>3. /\ pc'[w] = "returned" /\ call'[w] = h
        /\ rows' = rows /\ sessionConfig' = sessionConfig
    BY <1>10, <2>2 DEF ReturnOutcome, Return, ledgerVars
  <2>4. run[w] # Nil /\ AtAdvance(run[w]) /\ run[w].graph \in Graphs
    BY <1>0, <2>1 DEF Calling, Advances, AdvanceLabels
  <2>5. IsRow(run[w].port, i)' /\ IsRow(call[w], i + 1)'
    BY <2>2, <2>3 DEF IsRow, HandleOf
  <2>6. NextRow(w)'
    BY <2>2, <2>3, <2>5 DEF NextRow
  <2>7. run[w].at # 0 /\ run[w].at <= Len(run[w].graph.intervals) + 1
    BY <2>4, GraphAssumption DEF AtAdvance
  <2> QED
    BY <2>3, <2>4, <2>6, <2>7 DEF Calling, Advances, Completes, AdvanceLabels, Claimed
<1>11. CASE Seal(w) /\ pc'[w] # "raised"
  <2>1. pc[w] = "seal" /\ pc'[w] = "returned"
    BY <1>11 DEF Seal, Return, Raise
  <2>2. PICK n : n = Len(run[w].graph.intervals) /\ n \in Nat /\ run[w].at = n + 1 /\ run[w] # Nil
    BY <1>0, <2>1, GraphAssumption DEF Calling, Completes
  <2>3. run[w].at # 0 /\ ~AtAdvance(run[w])
    BY <2>2 DEF AtAdvance
  <2> QED
    BY <2>1, <2>2, <2>3 DEF Calling, Advances, Completes, AdvanceLabels, Claimed
<1> QED
  BY <1>1, <1>2, <1>3, <1>4, <1>5, <1>6, <1>7, <1>8, <1>9, <1>10, <1>11, StartedCall
     DEF Act, Execute, Continue, Disturb

LEMMA PathStep ==
  ASSUME GraphInv, TrajectoryInv, PathInv, NEW w \in Workers, Act(w), NEW v \in Workers
  PROVE  Placed(v)' /\ OnPath(v)' /\ Calling(v)'
<1>1. CASE run'[v] = run[v]
  <2>1. CASE v = w /\ run' = run
    BY <1>1, <2>1, RunStays, OwnCalling
  <2>2. CASE v # w
    BY <1>1, <2>2, RunStays, CallStays, Alone DEF GraphInv
  <2>3. CASE v = w /\ run' # run
    <3>1. Starts(w) \/ NodeReturns(w) \/ RunFails(w) \/ RunEnds(w)
      BY <2>3 DEF Act, Execute, ExecuteCreate, ExecuteAdvance, ExecuteComplete
    <3>2. CASE NodeReturns(w)
      BY <2>3, <3>2, ReturnedRun
    <3>3. CASE Starts(w)
      BY <2>3, <3>3, StartedRun
    <3>4. CASE RunFails(w) \/ RunEnds(w)
      <4>1. pc'[w] = "idle"
        BY <3>4 DEF RunFails, RunEnds, Goto, trainerVars, GraphInv, ShapeOK
      <4>2. Calling(w)'
        BY <4>1 DEF Calling, Advances, Completes, AdvanceLabels, Claimed
      <4> QED
        BY <1>1, <2>3, <4>2, RunStays
    <3> QED
      BY <3>1, <3>2, <3>3, <3>4
  <2> QED
    BY <2>1, <2>2, <2>3
<1>2. CASE run'[v] # run[v]
  <2>1. v = w /\ (Starts(w) \/ NodeReturns(w) \/ RunFails(w) \/ RunEnds(w))
    BY <1>2, RunAlone DEF GraphInv
  <2>2. CASE Starts(w) \/ NodeReturns(w)
    BY <2>1, <2>2, StartedRun, ReturnedRun
  <2>3. CASE RunFails(w) \/ RunEnds(w)
    <3>1. run'[w] = Nil /\ pc'[w] = "idle"
      BY <2>3 DEF RunFails, RunEnds, Goto, trainerVars, GraphInv, ShapeOK
    <3> QED
      BY <2>1, <3>1 DEF Placed, OnPath, Calling, Advances, Completes, AdvanceLabels, Claimed
  <2> QED
    BY <2>1, <2>2, <2>3
<1> QED
  BY <1>1, <1>2

LEMMA PathInvariance == Spec => [](GraphInv /\ TrajectoryInv /\ PathInv)
<1>1. Init => PathInv
  <2> SUFFICES ASSUME Init PROVE PathInv
    OBVIOUS
  <2>1. rows = <<>> /\ Len(rows) = 0 /\ DOMAIN ops = {}
    BY DEF Init, TrainerInit, LedgerInit
  <2>2. \A w \in Workers : pc[w] = "idle" /\ run[w] = Nil
    BY DEF Init, TrainerInit
  <2> QED
    BY <2>1, <2>2 DEF PathInv, FirstRow, IsCommitted, Placed, OnPath, Calling, Advances, Completes,
                      AdvanceLabels, Claimed
<1>2. GraphInv /\ TrajectoryInv /\ PathInv /\ [Next]_vars => PathInv'
  <2>1. ASSUME GraphInv, TrajectoryInv, PathInv, NEW w \in Workers, Act(w) PROVE PathInv'
    <3>1. \A v \in Workers : Placed(v)' /\ OnPath(v)' /\ Calling(v)'
      BY <2>1, PathStep
    <3>2. \A o : IsCommitted(o)' => Recorded(o)'
      BY <2>1, RecordedStep
    <3> QED
      BY <2>1, <3>1, <3>2, FirstRowStep DEF PathInv
  <2>2. ASSUME PathInv, UNCHANGED vars PROVE PathInv'
    <3> USE <2>2 DEF vars, ledgerVars, trainerVars
    <3>1. \A o : IsCommitted(o)' => Recorded(o)'
      BY DEF PathInv, IsCommitted, Recorded
    <3>2. \A h, i : IsRow(h, i) => IsRow(h, i)'
      BY DEF IsRow, HandleOf
    <3>3. ASSUME NEW w \in Workers PROVE Placed(w)' /\ Calling(w)'
      BY <3>2 DEF PathInv, Placed, Calling, Advances, Completes, NextRow
    <3>4. ASSUME NEW w \in Workers PROVE OnPath(w)'
      BY DEF PathInv, OnPath, LedFrom, PathFrom, HandleOf
    <3> QED
      BY <3>1, <3>3, <3>4 DEF PathInv, FirstRow
  <2> QED
    BY <2>1, <2>2, NextActs
<1> QED
  BY <1>1, <1>2, TrajectoryInvariance, PTL DEF Spec

\* The handle in a run's loop is the checkpoint its own intervals lead to from its first handle,
\* whatever other graphs, re-runs and takeovers do to the session, for every number of them.
THEOREM HandlesFollowTheGraph == Spec => []PortOnPath
<1>1. PathInv => PortOnPath
  BY DEF PathInv, OnPath, LedFrom, PortOnPath
<1> QED
  BY <1>1, PathInvariance, PTL

-----------------------------------------------------------------------------
(* Bounds. *)

\* The session has the configuration of one of the graphs.
Configured == sessionConfig # Nil => \E g \in Graphs : g.config = sessionConfig

Marked(w) ==
  /\ mark[w].current \in 0..MaxStep
  /\ mark[w].covered \in 0..journal

BoundInv ==
  /\ Configured
  /\ stepsRun \in Nat /\ journal \in Nat
  /\ pc \in [Workers -> Labels]
  /\ \A i \in 1..Len(rows) : rows[i].step <= MaxStep
  /\ \A w \in Workers : Marked(w)

\* No advance of a run goes beyond the bound the run was started under.
LEMMA TargetBound ==
  ASSUME PathInv, GraphInv, NEW w \in Workers, Advances(w), call[w].handle.step \in Nat
  PROVE  Target(w) \in 0..MaxStep
<1>1. PICK r, g, n, k : r = run[w] /\ g = r.graph /\ n = Len(g.intervals) /\ k = r.at
  OBVIOUS
<1>2. /\ r # Nil /\ k \in 1..n /\ call[w].handle = r.port /\ call[w].steps = g.intervals[k].steps
  BY <1>1 DEF PathInv, Calling, AtAdvance, Advances, AdvanceLabels, Claimed
<1>3. g \in Graphs /\ n \in Nat /\ MaxStep \in Nat
  BY <1>1, <1>2, GraphAssumption DEF GraphInv, ShapeOK
<1>4. k \in 0..n /\ k - 1 \in 0..n /\ k \in 1..(n + 1)
  BY <1>2, <1>3
<1>5. /\ r.port.step = Base(r) + StepsUpTo(g, k - 1)
      /\ Base(r) \in Nat /\ Base(r) + TotalSteps(g) <= MaxStep
  BY <1>1, <1>2, <1>4 DEF PathInv, Placed
<1>6. /\ StepsUpTo(g, k) = StepsUpTo(g, k - 1) + g.intervals[k].steps
      /\ StepsUpTo(g, k) \in Nat /\ StepsUpTo(g, k) <= TotalSteps(g) /\ StepsUpTo(g, k - 1) \in Nat
      /\ g.intervals[k].steps \in Nat
  BY <1>1, <1>2, <1>3, <1>4, StepCounts, GraphAssumption
<1>7. TotalSteps(g) \in Nat
  <2>1. n \in 0..n
    BY <1>3
  <2> QED
    BY <1>1, <1>3, <2>1, StepCounts DEF TotalSteps
<1>8. PICK a, b, c, t : /\ a = Base(r) /\ b = StepsUpTo(g, k - 1) /\ c = g.intervals[k].steps /\ t = TotalSteps(g)
                        /\ a \in Nat /\ b \in Nat /\ c \in Nat /\ t \in Nat /\ a + t <= MaxStep /\ b + c <= t
  BY <1>5, <1>6, <1>7
<1>9. Target(w) = (a + b) + c
  BY <1>2, <1>5, <1>8 DEF Target
<1>10. (a + b) + c \in 0..MaxStep
  BY <1>3, <1>8
<1> QED
  BY <1>9, <1>10

LEMMA ConfiguredStep ==
  ASSUME GraphInv, Configured, NEW w \in Workers, Act(w)
  PROVE  Configured'
<1>1. CASE sessionConfig' = sessionConfig
  BY <1>1 DEF Configured
<1>2. CASE sessionConfig' # sessionConfig
  <2>1. Registered(w)
    BY <1>2, LedgerSteps DEF Extended, Kept
  <2> QED
    BY <2>1 DEF Registered, ExecuteCreate, GraphInv, ShapeOK, Configured
<1> QED
  BY <1>1, <1>2

LEMMA RowBoundStep ==
  ASSUME GraphInv, TrajectoryInv, PathInv, BoundInv, NEW w \in Workers, Act(w), NEW i \in 1..Len(rows')
  PROVE  rows'[i].step <= MaxStep
<1>1. CASE Registered(w)
  <2>1. PICK row : rows' = <<row>> /\ row.step = 0
    BY <1>1 DEF Registered
  <2> QED
    BY <2>1, OneRow, GraphAssumption
<1>2. CASE Extended(w)
  <2>1. pc[w] = "commit" /\ Ready(w)
    BY <1>2 DEF Extended, Commit, GraphInv, WorkerOK, Claimed
  <2>2. Target(w) \in 0..MaxStep
    BY <2>1, TargetBound DEF Ready, Advances, AdvanceLabels, Claimed
  <2>3. CASE i \in 1..Len(rows)
    BY <1>2, <2>3, Appended DEF BoundInv
  <2>4. CASE i = Len(rows) + 1
    BY <1>2, <2>2, <2>4, Appended
  <2> QED
    BY <1>2, <2>3, <2>4, Appended
<1>3. CASE Kept
  BY <1>3 DEF Kept, BoundInv
<1> QED
  BY <1>1, <1>2, <1>3, LedgerSteps

\* The journal only grows, and no step is taken back.
LEMMA CountersStep ==
  ASSUME BoundInv, NEW w \in Workers, Act(w)
  PROVE  stepsRun' \in Nat /\ journal' \in Nat /\ journal <= journal'
<1> USE DEF BoundInv
<1>1. CASE Starts(w) \/ RunEnds(w) \/ NodeReturns(w) \/ RunFails(w)
  BY <1>1 DEF Starts, StartGraph, StartLiteral, StartRun, RunEnds, NodeReturns, RunFails, ledgerVars,
              trainerVars
<1>2. CASE ExecuteCreate(w) \/ ExecuteAdvance(w) \/ ExecuteComplete(w)
  BY <1>2 DEF ExecuteCreate, ExecuteAdvance, ExecuteComplete, Create, Advance, Complete, Begin,
              CreateSession, ledgerVars
<1>3. CASE ReturnCreated(w) \/ GetFence(w) \/ ClaimReplayed(w) \/ Claim(w)
  BY <1>3 DEF ReturnCreated, GetFence, AcquireFence, ClaimReplayed, Claim, ClaimAdvance, ledgerVars
<1>4. CASE Step(w) \/ RecordRecovery(w) \/ Pause(w) \/ ReadCovered(w)
  BY <1>4 DEF Step, RecordRecovery, SetRecoveryCheckpoint, Pause, PauseAdvance, ReadCovered, ledgerVars
<1>5. CASE Commit(w) \/ ReturnOutcome(w) \/ Seal(w) \/ Disturb(w)
  BY <1>5 DEF Commit, CommitAdvance, ReturnOutcome, Seal, CompleteSession, Disturb, PollCancelled, Kill,
              ledgerVars
<1> QED
  BY <1>1, <1>2, <1>3, <1>4, <1>5 DEF Act, Execute, Continue

LEMMA LabelSteps ==
  ASSUME NEW w \in Workers, Act(w)
  PROVE  pc' = pc \/ \E label \in Labels : pc' = [pc EXCEPT ![w] = label]
<1> USE DEF Goto, Begin, Raise, Return, Labels
<1>1. CASE Starts(w) \/ RunEnds(w) \/ NodeReturns(w) \/ RunFails(w)
  BY <1>1 DEF Starts, StartGraph, StartLiteral, StartRun, RunEnds, NodeReturns, RunFails, trainerVars
<1>2. CASE ExecuteCreate(w) \/ ExecuteAdvance(w) \/ ExecuteComplete(w)
  BY <1>2 DEF ExecuteCreate, ExecuteAdvance, ExecuteComplete, Create, Advance, Complete
<1>3. CASE ReturnCreated(w) \/ GetFence(w) \/ ClaimReplayed(w) \/ ReturnOutcome(w)
  BY <1>3 DEF ReturnCreated, GetFence, ClaimReplayed, ReturnOutcome
<1>4. CASE Claim(w)
  BY <1>4 DEF Claim
<1>5. CASE Step(w) \/ ReadCovered(w)
  BY <1>5 DEF Step, ReadCovered
<1>6. CASE RecordRecovery(w)
  BY <1>6 DEF RecordRecovery
<1>7. CASE Pause(w) \/ Commit(w) \/ Seal(w)
  BY <1>7 DEF Pause, Commit, Seal
<1>8. CASE Disturb(w)
  BY <1>8 DEF Disturb, PollCancelled, Kill
<1> QED
  BY <1>1, <1>2, <1>3, <1>4, <1>5, <1>6, <1>7, <1>8 DEF Act, Execute, Continue

\* A mark moves in a claimed advance that goes on with its call.
MarkMoves(w) ==
  /\ pc[w] \in Claimed \cup {"claim"} /\ pc'[w] \in Claimed /\ call' = call
  /\ mark'[w].covered \in {mark[w].covered, journal}

\* Otherwise it is kept or reset.
LEMMA MarkSteps ==
  ASSUME ShapeOK, NEW w \in Workers, Act(w)
  PROVE  mark' = mark \/ mark' = [mark EXCEPT ![w] = NoMark] \/ MarkMoves(w)
<1> USE DEF Goto, Begin, Raise, Return
<1>1. CASE Starts(w) \/ RunEnds(w) \/ NodeReturns(w) \/ RunFails(w)
  BY <1>1 DEF Starts, StartGraph, StartLiteral, StartRun, RunEnds, NodeReturns, RunFails, trainerVars
<1>2. CASE ExecuteCreate(w) \/ ExecuteAdvance(w) \/ ExecuteComplete(w)
  BY <1>2 DEF ExecuteCreate, ExecuteAdvance, ExecuteComplete, Create, Advance, Complete
<1>3. CASE ReturnCreated(w) \/ GetFence(w) \/ ClaimReplayed(w) \/ ReturnOutcome(w)
  BY <1>3 DEF ReturnCreated, GetFence, ClaimReplayed, ReturnOutcome
<1>4. CASE Claim(w)
  <2>1. CASE pc'[w] = "raised"
    BY <1>4, <2>1 DEF Claim, ShapeOK
  <2>2. CASE pc'[w] # "raised"
    <3>1. PICK s, p : /\ mark' = [mark EXCEPT ![w].current = s, ![w].published = p]
                      /\ pc'[w] \in {"poll", "cover"} /\ call' = call /\ pc[w] = "claim"
      BY <1>4, <2>2 DEF Claim, ShapeOK
    <3>2. mark'[w].covered = mark[w].covered
      BY <3>1 DEF ShapeOK
    <3> QED
      BY <3>1, <3>2 DEF MarkMoves, Claimed
  <2> QED
    BY <2>1, <2>2
<1>5. CASE Step(w) \/ ReadCovered(w)
  BY <1>5 DEF Step, ReadCovered, MarkMoves, Claimed, ShapeOK
<1>6. CASE RecordRecovery(w)
  BY <1>6 DEF RecordRecovery, MarkMoves, Claimed, ShapeOK
<1>7. CASE Pause(w) \/ Commit(w) \/ Seal(w)
  BY <1>7 DEF Pause, Commit, Seal
<1>8. CASE Disturb(w)
  BY <1>8 DEF Disturb, PollCancelled, Kill
<1> QED
  BY <1>1, <1>2, <1>3, <1>4, <1>5, <1>6, <1>7, <1>8 DEF Act, Execute, Continue

LEMMA MarkedStep ==
  ASSUME GraphInv, TrajectoryInv, PathInv, BoundInv, NEW w \in Workers, Act(w), NEW v \in Workers
  PROVE  Marked(v)'
<1>1. journal \in Nat /\ journal' \in Nat /\ journal <= journal' /\ MaxStep \in Nat /\ Marked(v)
  BY CountersStep, GraphAssumption DEF BoundInv
<1>2. CASE v # w
  BY <1>1, <1>2, Alone DEF GraphInv, Marked
<1>3. CASE v = w
  <2>1. CASE MarkMoves(w)
    <3>1. Ready(w) /\ Target(w)' = Target(w)
      BY <2>1, ReadyKept DEF GraphInv, WorkerOK, MarkMoves
    <3>2. Target(w) \in 0..MaxStep
      BY <2>1, <3>1, TargetBound DEF Ready, Advances, AdvanceLabels, MarkMoves
    <3>3. mark'[w].current \in call[w].handle.step .. Target(w)
      BY <2>1, <3>1, OwnWorker DEF WorkerOK, MarkMoves
    <3>4. mark'[w].current \in 0..MaxStep
      BY <1>1, <3>1, <3>2, <3>3 DEF Ready
    <3> QED
      BY <1>1, <1>3, <2>1, <3>4 DEF Marked, MarkMoves
  <2>2. CASE mark' = mark
    BY <1>1, <1>3, <2>2 DEF Marked
  <2>3. CASE mark' = [mark EXCEPT ![w] = NoMark]
    <3>1. mark'[w].current = 0 /\ mark'[w].covered = 0
      BY <2>3 DEF GraphInv, ShapeOK, NoMark
    <3> QED
      BY <1>1, <1>3, <3>1 DEF Marked
  <2> QED
    BY <2>1, <2>2, <2>3, MarkSteps DEF GraphInv
<1> QED
  BY <1>2, <1>3

LEMMA BoundInvariance ==
  Spec => [](GraphInv /\ TrajectoryInv /\ PathInv /\ BoundInv /\ FenceInv)
<1>1. Init => BoundInv /\ FenceInv
  <2> SUFFICES ASSUME Init PROVE BoundInv /\ FenceInv
    OBVIOUS
  <2>1. rows = <<>> /\ Len(rows) = 0 /\ sessionConfig = Nil /\ stepsRun = 0 /\ journal = 0 /\ epoch = 0
    BY DEF Init, TrainerInit, LedgerInit
  <2>2. \A w \in Workers : pc[w] = "idle" /\ mark[w] = NoMark /\ fence[w] = 0
    BY DEF Init, TrainerInit
  <2>3. fence \in [Workers -> Nat]
    BY DEF Init, TrainerInit
  <2>4. BoundInv
    <3>1. pc \in [Workers -> Labels]
      BY DEF Init, TrainerInit, Labels
    <3>2. \A w \in Workers : mark[w].current = 0 /\ mark[w].covered = 0
      BY <2>2 DEF NoMark
    <3> QED
      BY <2>1, <3>1, <3>2, GraphAssumption DEF BoundInv, Configured, Marked
  <2>5. FenceInv
    BY <2>1, <2>2, <2>3 DEF FenceInv, Fenced, Distinct, Claimed
  <2> QED
    BY <2>4, <2>5
<1>2. GraphInv /\ TrajectoryInv /\ PathInv /\ BoundInv /\ FenceInv /\ [Next]_vars => BoundInv' /\ FenceInv'
  <2>1. ASSUME GraphInv, TrajectoryInv, PathInv, BoundInv, FenceInv, NEW w \in Workers, Act(w)
        PROVE  BoundInv' /\ FenceInv'
    <3>1. Configured'
      BY <2>1, ConfiguredStep DEF BoundInv
    <3>2. stepsRun' \in Nat /\ journal' \in Nat
      BY <2>1, CountersStep
    <3>3. \A i \in 1..Len(rows') : rows'[i].step <= MaxStep
      BY <2>1, RowBoundStep
    <3>4. \A v \in Workers : Marked(v)'
      BY <2>1, MarkedStep
    <3>5. FenceInv'
      BY <2>1, FenceStep DEF GraphInv
    <3>6. pc' \in [Workers -> Labels]
      BY <2>1, LabelSteps DEF BoundInv
    <3> QED
      BY <3>1, <3>2, <3>3, <3>4, <3>5, <3>6 DEF BoundInv
  <2>2. ASSUME BoundInv, FenceInv, UNCHANGED vars PROVE BoundInv' /\ FenceInv'
    BY <2>2 DEF BoundInv, Configured, Marked, FenceInv, Fenced, Distinct, vars, ledgerVars, trainerVars
  <2> QED
    BY <2>1, <2>2, NextActs
<1> QED
  BY <1>1, <1>2, PathInvariance, PTL DEF Spec

\* Every variable keeps its type, and no run, however it is interleaved with others, goes beyond
\* the bound that the steps of its graph were checked against when it started.
THEOREM TypeCorrect == Spec => []TypeOK
<1>1. GraphInv /\ PathInv /\ BoundInv /\ FenceInv => TypeOK
  <2> SUFFICES ASSUME GraphInv, PathInv, BoundInv, FenceInv PROVE TypeOK
    OBVIOUS
  <2>1. fence \in [Workers -> 0..epoch]
    BY DEF FenceInv, Fenced
  <2>3. \A i \in 1..Len(rows) : rows[i].step \in 0..MaxStep
    BY GraphAssumption DEF BoundInv, GraphInv, RowsOK
  <2>4. \A w \in Workers : run[w] # Nil => run[w].at \in 0..(Len(run[w].graph.intervals) + 2)
    BY DEF PathInv, Placed
  <2> QED
    BY <2>1, <2>3, <2>4 DEF TypeOK, BoundInv, Marked
<1> QED
  BY <1>1, BoundInvariance, PTL

-----------------------------------------------------------------------------
(* What a step does to the progress of operations. *)

LEMMA Named ==
  ASSUME GraphInv, BoundInv, NEW w \in Workers, pc[w] \in Claimed
  PROVE  Manifest(call[w].handle.config, mark[w].current) # Nil
<1>1. sessionConfig # Nil /\ call[w].handle.config = sessionConfig /\ mark[w].current \in 0..MaxStep
  BY DEF GraphInv, WorkerOK, Ready, BoundInv, Marked
<1> QED
  BY <1>1, GraphAssumption DEF BoundInv, Configured

\* The operation of the holder gets to the step the trainer is at.
LEMMA SaveProgress ==
  ASSUME GraphInv, BoundInv, ProgressInv, NEW w \in Workers, RecordRecovery(w), pc'[w] # "raised"
  PROVE  /\ fence[w] = epoch /\ completed' = completed
         /\ \E x, p : /\ x = Operation(w) /\ x \in DOMAIN ops
                      /\ Moved(x, p) /\ ~IsCommitted(x)'
                      /\ p = mark[w].current - call[w].handle.step
                      /\ Progress(x) = SavedStep(w) - call[w].handle.step
<1>1. PICK x, m, p : /\ x = Operation(w) /\ m = Manifest(call[w].handle.config, mark[w].current)
                     /\ p = mark[w].current - call[w].handle.step
  OBVIOUS
<1>2. /\ WriteAccepted(x, fence[w]) /\ SetRecoveryCheckpoint(x, m)
  BY <1>1 DEF RecordRecovery, Raise, Goto, GraphInv, ShapeOK
<1>3. fence[w] = epoch /\ completed' = completed /\ ops' = [ops EXCEPT ![x].recovery = m] /\ ~IsCommitted(x)
  BY <1>2 DEF WriteAccepted, SetRecoveryCheckpoint
<1>4. pc[w] \in Claimed
  BY DEF RecordRecovery, Claimed
<1>5. x \in DOMAIN ops /\ Progress(x) = SavedStep(w) - call[w].handle.step
  BY <1>1, <1>3, <1>4 DEF ProgressInv, Holding
<1>6. m # Nil /\ m.step = mark[w].current
  BY <1>1, <1>4, Named DEF Manifest
<1>7. DOMAIN ops[x] = RecordFields
  BY <1>5 DEF GraphInv, OperationOK
<1>8. /\ DOMAIN ops' = DOMAIN ops /\ \A o \in DOMAIN ops \ {x} : ops'[o] = ops[o]
      /\ ops'[x].recovery = m /\ ops'[x].status = ops[x].status
  BY <1>3, <1>5, <1>7 DEF RecordFields
<1>9. \A o \in DOMAIN ops \ {x} : Progress(o)' = Progress(o)
  BY <1>8 DEF Progress, IsCommitted
<1>10. ~IsCommitted(x)'
  BY <1>3, <1>8 DEF IsCommitted
<1>11. x.input.step = call[w].handle.step
  BY <1>1, <1>4, HeldOperation
<1>12. Progress(x)' = p
  BY <1>1, <1>6, <1>8, <1>10, <1>11 DEF Progress
<1>13. Moved(x, p)
  BY <1>5, <1>8, <1>9, <1>12 DEF Moved
<1> QED
  BY <1>1, <1>3, <1>5, <1>10, <1>13

LEMMA PauseProgress ==
  ASSUME GraphInv, NEW w \in Workers, Pause(w)
  PROVE  Unmoved
<1>1. CASE ops' = ops
  BY <1>1 DEF Unmoved, Progress, IsCommitted
<1>2. CASE ops' # ops
  <2>1. PICK x : x = Operation(w)
    OBVIOUS
  <2>2. ops' = [ops EXCEPT ![x].status = "paused"] /\ ~IsCommitted(x)
    BY <1>2, <2>1 DEF Pause, PauseAdvance, WriteAccepted, ledgerVars
  <2>3. ASSUME NEW o \in DOMAIN ops PROVE Progress(o)' = Progress(o)
    <3>1. CASE o # x
      <4>1. ops'[o] = ops[o] /\ DOMAIN ops' = DOMAIN ops
        BY <2>2, <3>1
      <4> QED
        BY <4>1 DEF Progress, IsCommitted
    <3>2. CASE o = x
      <4>1. DOMAIN ops[x] = RecordFields
        BY <3>2 DEF GraphInv, OperationOK
      <4>2. ops'[x].status = "paused" /\ ops'[x].recovery = ops[x].recovery
        BY <2>2, <3>2, <4>1 DEF RecordFields
      <4> QED
        BY <2>2, <3>2, <4>2 DEF Progress, IsCommitted
    <3> QED
      BY <3>1, <3>2
  <2>4. DOMAIN ops' = DOMAIN ops
    BY <2>2
  <2> QED
    BY <2>3, <2>4 DEF Unmoved
<1> QED
  BY <1>1, <1>2

LEMMA CommitProgress ==
  ASSUME GraphInv, ProgressInv, NEW w \in Workers, Commit(w), ops' # ops
  PROVE  /\ fence[w] = epoch
         /\ \E x, p : x = Operation(w) /\ x \in DOMAIN ops /\ Moved(x, p) /\ p = x.steps
<1>1. PICK x, m : x = Operation(w) /\ m = Manifest(call[w].handle.config, Target(w))
  OBVIOUS
<1>2. /\ fence[w] = epoch
      /\ ops' = [ops EXCEPT ![x].status = "committed", ![x].output = m,
                            ![x].step = Target(w), ![x].seq = journal + 1]
  BY <1>1 DEF Commit, CommitAdvance, CommitAccepted, WriteAccepted, ledgerVars
<1>3. x \in DOMAIN ops
  BY <1>1, <1>2 DEF ProgressInv, Holding, Commit, Claimed
<1>4. DOMAIN ops[x] = RecordFields
  BY <1>3 DEF GraphInv, OperationOK
<1>5. ops'[x].status = "committed" /\ DOMAIN ops' = DOMAIN ops
  BY <1>2, <1>3, <1>4 DEF RecordFields
<1>6. \A o \in DOMAIN ops \ {x} : ops'[o] = ops[o]
  BY <1>2
<1>7. \A o \in DOMAIN ops \ {x} : Progress(o)' = Progress(o)
  BY <1>5, <1>6 DEF Progress, IsCommitted
<1>8. Progress(x)' = x.steps
  BY <1>3, <1>5 DEF Progress, IsCommitted
<1>9. Moved(x, x.steps)
  BY <1>3, <1>5, <1>7, <1>8 DEF Moved
<1> QED
  BY <1>1, <1>2, <1>3, <1>9

\* An operation is never taken back: it is new, gets further, or stays where it is.
LEMMA OperationsProgress ==
  ASSUME GraphInv, BoundInv, ProgressInv, NEW w \in Workers, Act(w)
  PROVE  \/ Unmoved
         \/ \E x, p : /\ Moved(x, p) /\ Sized(x) /\ p \in Nat
                      /\ x \in DOMAIN ops => Progress(x) <= p
<1>1. CASE ops' = ops
  BY <1>1 DEF Unmoved, Progress, IsCommitted
<1>2. CASE Starts(w) \/ RunEnds(w) \/ NodeReturns(w) \/ RunFails(w)
  BY <1>1, <1>2 DEF Starts, StartGraph, StartLiteral, StartRun, RunEnds, NodeReturns, RunFails, ledgerVars
<1>3. CASE ExecuteCreate(w) \/ ExecuteAdvance(w) \/ ExecuteComplete(w)
  BY <1>1, <1>3 DEF ExecuteCreate, ExecuteAdvance, ExecuteComplete, Create, Advance, Complete,
              CreateSession, ledgerVars
<1>4. CASE ReturnCreated(w) \/ GetFence(w) \/ ClaimReplayed(w) \/ Step(w) \/ ReadCovered(w)
  BY <1>1, <1>4 DEF ReturnCreated, GetFence, AcquireFence, ClaimReplayed, Step, ReadCovered, ledgerVars
<1>5. CASE ReturnOutcome(w) \/ Seal(w) \/ Disturb(w)
  BY <1>1, <1>5 DEF ReturnOutcome, Seal, CompleteSession, Disturb, PollCancelled, Kill, ledgerVars
<1>6. CASE Claim(w) /\ ops' # ops
  <2>1. ClaimAdvance(Operation(w), fence[w])
    BY <1>6 DEF Claim, ledgerVars
  <2>2. PICK x, p : /\ x = Operation(w) /\ Moved(x, p)
                    /\ p = IF x \in DOMAIN ops THEN Progress(x) ELSE 0
    BY <1>6, <2>1, ClaimProgress
  <2>3. Sized(x)
    BY <1>6, <2>2, HeldOperation DEF Claim
  <2>4. p \in Nat /\ (x \in DOMAIN ops => Progress(x) <= p)
    BY <2>2, <2>3, ProgressRange DEF Sized
  <2> QED
    BY <2>2, <2>3, <2>4
<1>7. CASE RecordRecovery(w) /\ ops' # ops
  <2>1. pc'[w] # "raised"
    BY <1>7 DEF RecordRecovery, Goto, GraphInv, ShapeOK, ledgerVars
  <2>2. PICK x, p : /\ x = Operation(w) /\ x \in DOMAIN ops /\ Moved(x, p)
                    /\ p = mark[w].current - call[w].handle.step
                    /\ Progress(x) = SavedStep(w) - call[w].handle.step
    BY <1>7, <2>1, SaveProgress
  <2>3. /\ mark[w].current \in call[w].handle.step .. Target(w) /\ call[w].handle.step \in Nat
        /\ Target(w) = call[w].handle.step + call[w].steps /\ call[w].steps \in Nat /\ Sized(x)
    BY <1>7, <2>2, HeldOperation DEF RecordRecovery, Claimed
  <2>4. p \in Nat /\ Progress(x) <= p
    BY <2>2, <2>3 DEF SavedStep
  <2> QED
    BY <2>2, <2>3, <2>4
<1>8. CASE Pause(w)
  BY <1>8, PauseProgress
<1>9. CASE Commit(w) /\ ops' # ops
  <2>1. PICK x, p : x = Operation(w) /\ x \in DOMAIN ops /\ Moved(x, p) /\ p = x.steps
    BY <1>9, CommitProgress
  <2>2. Sized(x) /\ Progress(x) \in 0..x.steps
    BY <2>1, ProgressRange DEF ProgressInv
  <2>3. p \in Nat /\ Progress(x) <= p
    BY <2>1, <2>2 DEF Sized
  <2> QED
    BY <2>1, <2>2, <2>3
<1> QED
  BY <1>1, <1>2, <1>3, <1>4, <1>5, <1>6, <1>7, <1>8, <1>9 DEF Act, Execute, Continue

-----------------------------------------------------------------------------
(* The holder's record is up to date. *)

LEMMA HoldingNext ==
  ASSUME NEW w \in Workers, NEW x, x = Operation(w)', ~completed', x \in DOMAIN ops', ~IsCommitted(x)',
         Progress(x)' = SavedStep(w)' - call'[w].handle.step
  PROVE  Holding(w)'
BY DEF Holding, Progress, IsCommitted

LEMMA OthersHolding ==
  ASSUME GraphInv, FenceInv, ProgressInv, NEW w \in Workers, Act(w), NEW v \in Workers \ {w}
  PROVE  Holding(v)'
<1>1. pc'[v] = pc[v] /\ call'[v] = call[v] /\ mark'[v] = mark[v]
  BY Alone DEF GraphInv
<1>2. SUFFICES ASSUME fence'[v] = epoch', pc[v] \in Claimed PROVE Holding(v)'
  BY <1>1 DEF Holding
<1>3. fence'[v] = fence[v] /\ fence[v] \in 0..epoch /\ fence[v] # 0 /\ epoch \in Nat
  <2>1. fence'[v] = fence[v]
    BY FenceSteps DEF GraphInv, FenceInv, Dropped, Acquired
  <2> QED
    BY <1>2, <2>1 DEF FenceInv, Fenced
<1>4. epoch' = epoch
  BY <1>2, <1>3, FenceSteps DEF GraphInv, Dropped, Acquired
<1>5. fence[w] # epoch
  BY <1>2, <1>3, <1>4 DEF FenceInv, Distinct
<1>6. UNCHANGED <<ops, completed>>
  BY <1>5, NewestWrites
<1>7. Holding(v) /\ fence[v] = epoch
  BY <1>2, <1>3, <1>4 DEF ProgressInv
<1> QED
  BY <1>1, <1>2, <1>6, <1>7 DEF Holding, Operation, IsCommitted, Progress, SavedStep

LEMMA OwnHolding ==
  ASSUME GraphInv, BoundInv, FenceInv, ProgressInv, NEW w \in Workers, Act(w)
  PROVE  Holding(w)'
<1>1. CASE pc'[w] \notin Claimed
  BY <1>1 DEF Holding
\* The call goes on with the same record.
<1>2. ASSUME pc[w] \in Claimed, UNCHANGED <<ops, completed, epoch>>, fence' = fence, call' = call,
             SavedStep(w)' = SavedStep(w)
      PROVE  Holding(w)'
  <2>1. CASE fence[w] # epoch
    BY <1>2, <2>1 DEF Holding
  <2>2. CASE fence[w] = epoch
    BY <1>2, <2>2 DEF ProgressInv, Holding, Operation, IsCommitted, Progress
  <2> QED
    BY <2>1, <2>2
<1>3. CASE (Starts(w) \/ RunEnds(w)) /\ pc'[w] \in Claimed
  <2>1. UNCHANGED <<ledgerVars, trainerVars>>
    BY <1>3 DEF Starts, StartGraph, StartLiteral, StartRun, RunEnds
  <2> QED
    BY <1>2, <1>3, <2>1 DEF ledgerVars, trainerVars, SavedStep
<1>4. CASE ExecuteCreate(w) \/ ExecuteAdvance(w) \/ ExecuteComplete(w)
  <2>1. pc'[w] \in {"created", "raised", "fence", "claim", "seal"}
    BY <1>4 DEF ExecuteCreate, ExecuteAdvance, ExecuteComplete, Create, Advance, Complete, Begin, Goto,
                GraphInv, ShapeOK
  <2> QED
    BY <1>1, <2>1 DEF Claimed
<1>5. CASE NodeReturns(w) \/ RunFails(w) \/ ReturnCreated(w) \/ ClaimReplayed(w) \/ ReturnOutcome(w) \/ Seal(w)
           \/ Pause(w) \/ Commit(w) \/ Kill(w) \/ GetFence(w)
  <2>1. pc'[w] \in {"idle", "returned", "answer", "raised", "claim", "seal"}
    BY <1>5 DEF NodeReturns, RunFails, ReturnCreated, ClaimReplayed, ReturnOutcome, Seal, Pause, Commit, Kill,
                GetFence, Return, Raise, Goto, GraphInv, ShapeOK
  <2> QED
    BY <1>1, <2>1 DEF Claimed
<1>6. CASE PollCancelled(w) \/ ReadCovered(w)
  <2>1. /\ pc[w] \in {"poll", "cover"} /\ pc'[w] \in {"pause", "pauseRecord", "commit"}
        /\ UNCHANGED ledgerVars /\ fence' = fence /\ call' = call /\ mark'[w].current = mark[w].current
    BY <1>6 DEF PollCancelled, ReadCovered, Goto, GraphInv, ShapeOK
  <2> QED
    BY <1>2, <2>1 DEF Claimed, ledgerVars, SavedStep
<1>7. CASE Step(w)
  <2>1. /\ pc[w] = "poll" /\ pc'[w] = "record" /\ UNCHANGED ledgerVars /\ fence' = fence /\ call' = call
        /\ mark'[w].current = mark[w].current + 1
    BY <1>7 DEF Step, Goto, GraphInv, ShapeOK
  <2>2. mark[w].current \in Nat
    BY <2>1, HeldOperation DEF Claimed
  <2> QED
    BY <1>2, <2>1, <2>2 DEF Claimed, ledgerVars, SavedStep
<1>8. CASE RecordRecovery(w) /\ pc'[w] \in Claimed
  <2>1. pc'[w] # "raised"
    BY <1>8 DEF Claimed
  <2>2. PICK x, p : /\ x = Operation(w) /\ x \in DOMAIN ops /\ Moved(x, p) /\ ~IsCommitted(x)'
                    /\ p = mark[w].current - call[w].handle.step /\ completed' = completed
    BY <1>8, <2>1, SaveProgress
  <2>3. /\ pc'[w] \in {"poll", "pause"} /\ call' = call /\ mark'[w].current = mark[w].current
        /\ ~completed
    BY <1>8, <2>1 DEF RecordRecovery, Raise, Goto, GraphInv, ShapeOK, WriteAccepted
  <2>4. x = Operation(w)' /\ SavedStep(w)' = mark[w].current
    BY <2>2, <2>3 DEF Operation, SavedStep
  <2> QED
    BY <2>2, <2>3, <2>4, HoldingNext DEF Moved
<1>9. CASE Claim(w) /\ pc'[w] \in Claimed
  <2>1. PICK o, s :
          /\ o = Operation(w)
          /\ ClaimAccepted(o, fence[w]) /\ ClaimAdvance(o, fence[w])
          /\ s \in ResumeSteps(ops'[o], call[w].handle)
          /\ mark' = [mark EXCEPT ![w].current = s, ![w].published = ops'[o].recovery # Nil]
          /\ pc'[w] \in {"poll", "cover"}
          /\ call' = call
    BY <1>9 DEF Claim, Raise, Goto, GraphInv, ShapeOK, Claimed
  <2>2. PICK p : /\ Moved(o, p) /\ ~IsCommitted(o)'
                 /\ p = IF ops'[o].recovery = Nil THEN 0 ELSE ops'[o].recovery.step - o.input.step
    BY <1>9, <2>1, ClaimProgress
  <2>3. o.input.step = call[w].handle.step /\ call[w].handle.step \in Nat
    BY <1>9, <2>1, HeldOperation DEF Claim
  <2>4. p = s - call[w].handle.step
    <3>1. CASE ops'[o].recovery = Nil
      BY <2>1, <2>2, <2>3, <3>1 DEF ResumeSteps
    <3>2. CASE ops'[o].recovery # Nil
      <4>1. Manifest(call[w].handle.config, s) = ops'[o].recovery
        BY <2>1, <3>2 DEF ResumeSteps, StepsNamed
      <4>2. s = ops'[o].recovery.step
        BY <4>1 DEF Manifest
      <4> QED
        BY <2>2, <2>3, <3>2, <4>2
    <3> QED
      BY <3>1, <3>2
  <2>5. mark'[w].current = s /\ SavedStep(w)' = s
    BY <2>1 DEF GraphInv, ShapeOK, SavedStep
  <2>6. o = Operation(w)' /\ ~completed'
    BY <2>1 DEF Operation, ClaimAccepted, ClaimAdvance
  <2> QED
    BY <2>1, <2>2, <2>4, <2>5, <2>6, HoldingNext DEF Moved
<1> QED
  BY <1>1, <1>3, <1>4, <1>5, <1>6, <1>7, <1>8, <1>9 DEF Act, Execute, Continue, Disturb

LEMMA ProgressStep ==
  ASSUME GraphInv, BoundInv, FenceInv, ProgressInv, NEW w \in Workers, Act(w)
  PROVE  ProgressInv'
<1>1. \A o \in DOMAIN ops' : Sized(o)
  BY OperationsProgress DEF ProgressInv, Unmoved, Moved
<1>2. \A v \in Workers : Holding(v)'
  BY OwnHolding, OthersHolding
<1> QED
  BY <1>1, <1>2 DEF ProgressInv

-----------------------------------------------------------------------------
(* Steps executed and steps shown. *)

\* The fence of the worker may still be spent on a step the ledger is not told of.
Unspent(w) == fence[w] # 0 /\ (pc[w] = "poll" \/ (fence[w] = epoch /\ pc[w] # "record"))
UnspentFences == {fence[w] : w \in {v \in Workers : Unspent(v)}}

Budget ==
  /\ IsFiniteSet(StepsShown)
  /\ stepsRun + Cardinality(UnspentFences) <= Cardinality(StepsShown) + epoch

LEMMA UnspentFinite ==
  ASSUME FenceInv
  PROVE  /\ IsFiniteSet(UnspentFences) /\ Cardinality(UnspentFences) \in Nat
         /\ \A T \in SUBSET UnspentFences : /\ IsFiniteSet(T) /\ Cardinality(T) \in Nat
                                            /\ Cardinality(T) <= Cardinality(UnspentFences)
<1>1. UnspentFences \in SUBSET (0..epoch)
  BY DEF UnspentFences, FenceInv, Fenced
<1>2. 0 \in Int /\ epoch \in Int
  BY DEF FenceInv
<1>3. IsFiniteSet(0..epoch)
  BY <1>2, FS_Interval, Zenon
<1>4. IsFiniteSet(UnspentFences)
  BY <1>1, <1>3, FS_Subset, Zenon
<1> QED
  BY <1>4, FS_Subset, FS_CardinalityType

\* What has been added to a set is at most one.
LEMMA AtMostOneMore ==
  ASSUME NEW S, NEW e, IsFiniteSet(S), NEW T \in SUBSET (S \cup {e})
  PROVE  IsFiniteSet(T) /\ Cardinality(T) \in Nat /\ Cardinality(S) \in Nat /\ Cardinality(T) <= Cardinality(S) + 1
<1>1. IsFiniteSet(S \cup {e}) /\ Cardinality(S \cup {e}) = IF e \in S THEN Cardinality(S) ELSE Cardinality(S) + 1
  BY FS_AddElement
<1>2. IsFiniteSet(T) /\ Cardinality(T) <= Cardinality(S \cup {e})
  BY <1>1, FS_Subset
<1>3. Cardinality(S) \in Nat /\ Cardinality(T) \in Nat /\ Cardinality(S \cup {e}) \in Nat
  BY <1>1, <1>2, FS_CardinalityType
<1> QED
  BY <1>1, <1>2, <1>3

\* The steps of an operation that has moved are added to those shown.
LEMMA MovedShows ==
  ASSUME IsFiniteSet(StepsShown), NEW x, NEW p \in Nat, Moved(x, p),
         x \in DOMAIN ops => Progress(x) \in Nat /\ Progress(x) <= p
  PROVE  /\ IsFiniteSet(StepsShown') /\ StepsShown \subseteq StepsShown'
         /\ {x} \X (1..p) \subseteq StepsShown'
<1>1. \A e : e \in StepsShown <=> \E o \in DOMAIN ops : e \in {o} \X (1..Progress(o))
  BY DEF StepsShown
<1>2. \A e : e \in StepsShown' <=> \E o \in DOMAIN ops' : e \in {o} \X (1..Progress(o)')
  BY DEF StepsShown
<1>3. \A o \in DOMAIN ops : o \in DOMAIN ops' /\ (o # x => Progress(o)' = Progress(o))
  BY DEF Moved
<1>4. x \in DOMAIN ops' /\ Progress(x)' = p
  BY DEF Moved
<1>5. {x} \X (1..p) \subseteq StepsShown'
  BY <1>2, <1>4
<1>6. x \in DOMAIN ops => {x} \X (1..Progress(x)) \subseteq {x} \X (1..p)
  <2>1. x \in DOMAIN ops => 1..Progress(x) \subseteq 1..p
    OBVIOUS
  <2> QED
    BY <2>1
<1>7. StepsShown \subseteq StepsShown'
  BY <1>1, <1>2, <1>3, <1>5, <1>6
<1>8. StepsShown' \in SUBSET (StepsShown \cup ({x} \X (1..p)))
  BY <1>1, <1>2, <1>4 DEF Moved
<1>9. IsFiniteSet({x} \X (1..p))
  <2>1. 1 \in Int /\ p \in Int
    OBVIOUS
  <2>2. IsFiniteSet(1..p)
    BY <2>1, FS_Interval, Zenon
  <2> QED
    BY <2>2, FS_Singleton, FS_Product
<1>10. IsFiniteSet(StepsShown')
  BY <1>8, <1>9, FS_Union, FS_Subset
<1> QED
  BY <1>5, <1>7, <1>10

LEMMA ShownGrows ==
  ASSUME GraphInv, BoundInv, ProgressInv, Budget, NEW w \in Workers, Act(w)
  PROVE  /\ IsFiniteSet(StepsShown') /\ StepsShown \subseteq StepsShown'
         /\ Cardinality(StepsShown) \in Nat /\ Cardinality(StepsShown') \in Nat
         /\ Cardinality(StepsShown) <= Cardinality(StepsShown')
<1>1. IsFiniteSet(StepsShown') /\ StepsShown \subseteq StepsShown'
  <2>1. CASE Unmoved
    <3>1. StepsShown' = StepsShown
      BY <2>1 DEF Unmoved, StepsShown
    <3> QED
      BY <3>1 DEF Budget
  <2>2. ASSUME NEW x, NEW p, Moved(x, p), Sized(x), p \in Nat, x \in DOMAIN ops => Progress(x) <= p
        PROVE  IsFiniteSet(StepsShown') /\ StepsShown \subseteq StepsShown'
    <3>1. x \in DOMAIN ops => Progress(x) \in Nat
      BY <2>2, ProgressRange DEF Sized
    <3> QED
      BY <2>2, <3>1, MovedShows DEF Budget
  <2> QED
    BY <2>1, <2>2, OperationsProgress
<1> QED
  BY <1>1, FS_Subset, FS_CardinalityType DEF Budget

\* A step that is neither an optimizer step nor a fence, nor shows the step before it.
Quiet(w) ==
  /\ stepsRun' = stepsRun /\ epoch' = epoch
  /\ \A v \in Workers : Unspent(v)' => Unspent(v) /\ fence'[v] = fence[v]

Showed(w) ==
  /\ RecordRecovery(w) /\ pc'[w] # "raised" /\ pc[w] = "record"
  /\ stepsRun' = stepsRun /\ UNCHANGED <<fence, epoch>>

LEMMA QuietSteps ==
  ASSUME GraphInv, BoundInv, FenceInv, ProgressInv, NEW w \in Workers, Act(w)
  PROVE  Quiet(w) \/ Acquired(w) \/ Step(w) \/ Showed(w)
<1> USE DEF Goto
<1>1. ASSUME ~Acquired(w), ~Step(w), stepsRun' = stepsRun,
             fence'[w] # 0 /\ (pc'[w] = "poll" \/ (fence[w] = epoch /\ pc'[w] # "record")) => Unspent(w)
      PROVE  Quiet(w)
  <2>1. epoch' = epoch /\ (fence'[w] = 0 \/ fence'[w] = fence[w])
    BY <1>1, FenceSteps DEF GraphInv, FenceInv, Dropped
  <2>2. \A v \in Workers \ {w} : fence'[v] = fence[v] /\ pc'[v] = pc[v]
    BY <1>1, FenceSteps, Alone DEF GraphInv, FenceInv, Dropped
  <2> QED
    BY <1>1, <2>1, <2>2 DEF Quiet, Unspent
<1>2. CASE Starts(w) \/ RunEnds(w)
  <2>1. stepsRun' = stepsRun /\ pc' = pc /\ fence' = fence
    BY <1>2 DEF Starts, StartGraph, StartLiteral, StartRun, RunEnds, trainerVars
  <2> QED
    BY <1>1, <2>1 DEF Unspent
<1>3. ASSUME stepsRun' = stepsRun, fence' = fence, pc[w] \notin {"poll", "record"}, pc'[w] # "poll", ~Acquired(w),
             ~Step(w)
      PROVE  Quiet(w)
  BY <1>1, <1>3 DEF Unspent
<1>4. CASE ExecuteCreate(w) \/ ExecuteAdvance(w) \/ ExecuteComplete(w)
  <2>1. stepsRun' = stepsRun /\ fence' = fence /\ pc[w] = "idle" /\ pc'[w] # "poll"
    BY <1>4 DEF ExecuteCreate, ExecuteAdvance, ExecuteComplete, Create, Advance, Complete, Begin,
                GraphInv, ShapeOK
  <2> QED
    BY <1>3, <2>1 DEF Step, Acquired, GetFence
<1>5. CASE NodeReturns(w) \/ RunFails(w) \/ ReturnCreated(w) \/ ClaimReplayed(w) \/ ReturnOutcome(w) \/ Seal(w)
           \/ Pause(w) \/ Commit(w)
  <2>1. /\ stepsRun' = stepsRun /\ fence' = fence
        /\ pc[w] \in {"returned", "raised", "created", "claim", "answer", "seal", "pause", "commit"}
        /\ pc'[w] # "poll"
    BY <1>5 DEF NodeReturns, RunFails, ReturnCreated, ClaimReplayed, ReturnOutcome, Seal, Pause, Commit,
                Return, Raise, GraphInv, ShapeOK
  <2> QED
    BY <1>3, <2>1 DEF Step, Acquired, GetFence
<1>6. CASE GetFence(w)
  BY <1>6, FenceSteps DEF Acquired, GetFence, AcquireFence, GraphInv
<1>7. CASE PollCancelled(w) \/ ReadCovered(w)
  <2>1. stepsRun' = stepsRun /\ fence' = fence /\ pc[w] \in {"poll", "cover"} /\ pc'[w] # "poll"
    BY <1>7 DEF PollCancelled, ReadCovered, GraphInv, ShapeOK
  <2> QED
    BY <1>1, <2>1 DEF Unspent, Acquired, GetFence
<1>8. CASE Kill(w)
  <2>1. stepsRun' = stepsRun /\ fence' = [fence EXCEPT ![w] = 0]
    BY <1>8 DEF Kill
  <2>2. fence'[w] = 0
    BY <2>1 DEF FenceInv
  <2> QED
    BY <1>1, <1>8, <2>1, <2>2 DEF Acquired, GetFence, AcquireFence, Kill, ledgerVars, FenceInv
<1>9. CASE Claim(w)
  <2>1. stepsRun' = stepsRun /\ fence' = fence /\ pc[w] = "claim"
    BY <1>9 DEF Claim
  <2>2. pc'[w] # "raised" => fence[w] = epoch
    BY <1>9 DEF Claim, ClaimAccepted, Raise, GraphInv, ShapeOK
  <2> QED
    BY <1>1, <2>1, <2>2 DEF Unspent, Acquired, GetFence
<1>10. CASE RecordRecovery(w)
  <2>1. stepsRun' = stepsRun /\ fence' = fence /\ pc[w] \in {"record", "pauseRecord"}
    BY <1>10 DEF RecordRecovery
  <2>2. epoch' = epoch
    BY <1>10 DEF RecordRecovery, SetRecoveryCheckpoint, ledgerVars
  <2>3. CASE fence[w] # epoch
    <3>1. pc'[w] = "raised"
      BY <1>10, <2>3 DEF RecordRecovery, WriteAccepted, Raise, GraphInv, ShapeOK
    <3> QED
      BY <1>1, <2>1, <2>3, <3>1 DEF Unspent, Acquired, GetFence
  <2>4. CASE fence[w] = epoch /\ pc[w] = "record"
    <3>1. ~completed /\ ~IsCommitted(Operation(w))
      BY <2>4 DEF ProgressInv, Holding, Claimed
    <3>2. pc'[w] # "raised"
      BY <1>10, <2>4, <3>1 DEF RecordRecovery, WriteAccepted, GraphInv, ShapeOK
    <3> QED
      BY <1>10, <2>1, <2>2, <2>4, <3>2 DEF Showed
  <2>5. CASE fence[w] = epoch /\ pc[w] = "pauseRecord"
    BY <1>1, <2>1, <2>5 DEF Unspent, Acquired, GetFence
  <2> QED
    BY <2>1, <2>3, <2>4, <2>5
<1> QED
  BY <1>2, <1>4, <1>5, <1>6, <1>7, <1>8, <1>9, <1>10 DEF Act, Execute, Continue, Disturb

\* A step that is recorded was not shown before.
LEMMA ShowsOne ==
  ASSUME GraphInv, BoundInv, FenceInv, ProgressInv, Budget, NEW w \in Workers, Act(w), Showed(w)
  PROVE  Cardinality(StepsShown) + 1 <= Cardinality(StepsShown')
<1>1. PICK x, p : /\ x = Operation(w) /\ x \in DOMAIN ops /\ Moved(x, p)
                  /\ p = mark[w].current - call[w].handle.step
                  /\ Progress(x) = SavedStep(w) - call[w].handle.step
  BY SaveProgress DEF Showed
<1>2. /\ mark[w].current \in call[w].handle.step .. Target(w) /\ call[w].handle.step \in Nat
      /\ Target(w) = call[w].handle.step + call[w].steps /\ call[w].steps \in Nat /\ Sized(x)
  BY <1>1, HeldOperation DEF Showed, Claimed
<1>3. Progress(x) \in Nat
  BY <1>1, <1>2, ProgressRange DEF Sized
<1>4. p \in Nat /\ Progress(x) = p - 1 /\ p \in 1..p /\ ~(p \in 1..Progress(x))
  BY <1>1, <1>2, <1>3 DEF SavedStep, Showed
<1>5. PICK e : e = <<x, p>>
  OBVIOUS
<1>6. e \in StepsShown' /\ StepsShown \subseteq StepsShown' /\ IsFiniteSet(StepsShown')
  <2>1. {x} \X (1..p) \subseteq StepsShown' /\ StepsShown \subseteq StepsShown' /\ IsFiniteSet(StepsShown')
    BY <1>1, <1>3, <1>4, MovedShows DEF Budget
  <2> QED
    BY <1>4, <1>5, <2>1
<1>7. e \notin StepsShown
  BY <1>1, <1>4, <1>5 DEF StepsShown
<1>8. StepsShown \cup {e} \in SUBSET StepsShown'
  BY <1>6
<1>9. Cardinality(StepsShown \cup {e}) = Cardinality(StepsShown) + 1
  BY <1>7, FS_AddElement DEF Budget
<1> QED
  BY <1>6, <1>8, <1>9, FS_Subset

LEMMA BudgetStep ==
  ASSUME GraphInv, BoundInv, FenceInv, ProgressInv, Budget, NEW w \in Workers, Act(w)
  PROVE  Budget'
<1>1. PICK s, u, d, e : /\ s = stepsRun /\ u = Cardinality(UnspentFences) /\ d = Cardinality(StepsShown) /\ e = epoch
                        /\ s \in Nat /\ u \in Nat /\ d \in Nat /\ e \in Nat /\ s + u <= d + e
  BY UnspentFinite, ShownGrows DEF Budget, BoundInv, FenceInv
<1>2. PICK dd : dd = Cardinality(StepsShown') /\ dd \in Nat /\ d <= dd /\ IsFiniteSet(StepsShown')
  BY <1>1, ShownGrows
<1>3. CASE Quiet(w)
  <2>1. UnspentFences' \in SUBSET UnspentFences
    BY <1>3 DEF Quiet, UnspentFences
  <2>2. Cardinality(UnspentFences') \in Nat /\ Cardinality(UnspentFences') <= u
    BY <1>1, <2>1, UnspentFinite
  <2>3. s + Cardinality(UnspentFences') <= dd + e
    BY <1>1, <1>2, <2>2
  <2> QED
    BY <1>1, <1>2, <1>3, <2>3 DEF Budget, Quiet
<1>4. CASE Acquired(w)
  <2>1. \A v \in Workers \ {w} : fence'[v] = fence[v] /\ pc'[v] = pc[v] /\ fence[v] \in 0..epoch
    BY <1>4, Alone DEF GraphInv, FenceInv, Fenced, Acquired
  <2>2. fence'[w] = epoch + 1
    BY <1>4 DEF FenceInv, Acquired
  <2>3. \A v \in Workers \ {w} : Unspent(v)' => Unspent(v)
    BY <1>1, <1>4, <2>1 DEF Unspent, Acquired
  <2>4. UnspentFences' \in SUBSET (UnspentFences \cup {epoch + 1})
    BY <2>1, <2>2, <2>3 DEF UnspentFences
  <2>5. Cardinality(UnspentFences') \in Nat /\ Cardinality(UnspentFences') <= u + 1
    BY <1>1, <2>4, UnspentFinite, AtMostOneMore
  <2>6. stepsRun' = s /\ epoch' = e + 1
    BY <1>1, <1>4 DEF Acquired, GetFence
  <2>7. s + Cardinality(UnspentFences') <= dd + (e + 1)
    BY <1>1, <1>2, <2>5
  <2> QED
    BY <1>2, <2>6, <2>7 DEF Budget
<1>5. CASE Step(w)
  <2>1. pc[w] = "poll" /\ pc'[w] = "record" /\ UNCHANGED <<fence, epoch>> /\ stepsRun' = s + 1
    BY <1>1, <1>5 DEF Step, Goto, GraphInv, ShapeOK, ledgerVars
  <2>2. fence[w] # 0 /\ fence[w] \in UnspentFences
    BY <2>1 DEF FenceInv, Fenced, Claimed, Unspent, UnspentFences
  <2>3. \A v \in Workers \ {w} : fence[v] # fence[w] /\ pc'[v] = pc[v]
    BY <2>2, Alone DEF GraphInv, FenceInv, Distinct
  <2>4. ~Unspent(w)'
    BY <2>1 DEF Unspent
  <2>5. \A v \in Workers \ {w} : Unspent(v)' => Unspent(v) /\ fence'[v] = fence[v]
    BY <2>1, <2>3 DEF Unspent
  <2>6. UnspentFences' \in SUBSET (UnspentFences \ {fence[w]})
    BY <2>1, <2>3, <2>4, <2>5 DEF UnspentFences
  <2>7. /\ IsFiniteSet(UnspentFences \ {fence[w]})
        /\ Cardinality(UnspentFences \ {fence[w]}) = u - 1
    BY <1>1, <2>2, UnspentFinite, FS_RemoveElement
  <2>8. Cardinality(UnspentFences') <= u - 1 /\ Cardinality(UnspentFences') \in Nat
    BY <2>6, <2>7, FS_Subset, FS_CardinalityType
  <2>9. (s + 1) + Cardinality(UnspentFences') <= dd + e
    BY <1>1, <1>2, <2>8
  <2> QED
    BY <1>1, <1>2, <2>1, <2>9 DEF Budget
<1>6. CASE Showed(w)
  <2>1. stepsRun' = s /\ UNCHANGED <<fence, epoch>> /\ d + 1 <= dd
    BY <1>1, <1>2, <1>6, ShowsOne DEF Showed
  <2>2. UnspentFences' \in SUBSET (UnspentFences \cup {fence[w]})
    <3>1. \A v \in Workers \ {w} : pc'[v] = pc[v]
      BY Alone DEF GraphInv
    <3>2. \A v \in Workers \ {w} : Unspent(v)' => Unspent(v)
      BY <2>1, <3>1 DEF Unspent
    <3> QED
      BY <2>1, <3>2 DEF UnspentFences
  <2>3. Cardinality(UnspentFences') \in Nat /\ Cardinality(UnspentFences') <= u + 1
    BY <1>1, <2>2, UnspentFinite, AtMostOneMore
  <2>4. s + Cardinality(UnspentFences') <= dd + e
    BY <1>1, <1>2, <2>1, <2>3
  <2> QED
    BY <1>1, <1>2, <2>1, <2>4 DEF Budget
<1> QED
  BY <1>3, <1>4, <1>5, <1>6, QuietSteps

LEMMA BudgetInvariance ==
  Spec => [](GraphInv /\ TrajectoryInv /\ PathInv /\ BoundInv /\ FenceInv /\ ProgressInv /\ Budget)
<1>1. Init => ProgressInv /\ Budget
  <2> SUFFICES ASSUME Init PROVE ProgressInv /\ Budget
    OBVIOUS
  <2>1. DOMAIN ops = {} /\ stepsRun = 0 /\ epoch = 0
    BY DEF Init, TrainerInit, LedgerInit
  <2>2. \A w \in Workers : pc[w] = "idle" /\ fence[w] = 0
    BY DEF Init, TrainerInit
  <2>3. ProgressInv
    BY <2>1, <2>2 DEF ProgressInv, Holding, Claimed
  <2>4. StepsShown = {} /\ UnspentFences = {}
    BY <2>1, <2>2 DEF StepsShown, UnspentFences, Unspent
  <2> QED
    BY <2>1, <2>3, <2>4, FS_EmptySet DEF Budget
<1>2. GraphInv /\ BoundInv /\ FenceInv /\ ProgressInv /\ Budget /\ [Next]_vars => ProgressInv' /\ Budget'
  <2>1. ASSUME GraphInv, BoundInv, FenceInv, ProgressInv, Budget, NEW w \in Workers, Act(w)
        PROVE  ProgressInv' /\ Budget'
    BY <2>1, ProgressStep, BudgetStep
  <2>2. ASSUME ProgressInv, Budget, UNCHANGED vars PROVE ProgressInv' /\ Budget'
    BY <2>2 DEF ProgressInv, Holding, Operation, IsCommitted, Progress, SavedStep, Budget, StepsShown,
                UnspentFences, Unspent, vars, ledgerVars, trainerVars
  <2> QED
    BY <2>1, <2>2, NextActs
<1> QED
  BY <1>1, <1>2, BoundInvariance, PTL DEF Spec

\* A replacement executes only the remaining steps: whoever is killed, paused or overtaken,
\* no more steps are executed than the ledger has to show for, and one for each fence.
THEOREM OnlyRemainingSteps == Spec => []StepsRerunBounded
<1>1. BoundInv /\ FenceInv /\ Budget => StepsRerunBounded
  <2> SUFFICES ASSUME BoundInv, FenceInv, Budget PROVE StepsRerunBounded
    OBVIOUS
  <2>1. Cardinality(UnspentFences) \in Nat /\ Cardinality(StepsShown) \in Nat /\ stepsRun \in Nat /\ epoch \in Nat
    BY UnspentFinite, FS_CardinalityType DEF Budget, BoundInv, FenceInv
  <2> QED
    BY <2>1 DEF Budget, StepsRerunBounded
<1> QED
  BY <1>1, BudgetInvariance, PTL
=============================================================================
