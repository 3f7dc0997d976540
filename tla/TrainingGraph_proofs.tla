------------------------- MODULE TrainingGraph_proofs -------------------------
(***************************************************************************)
(* What a replacement of a fake trainer resumes from, for every number of   *)
(* workers, of kills and of graphs: the fake backend has no check that it   *)
(* lies in the advance, so that it always does is an invariant of what the  *)
(* ledger records and of what each worker holds.                            *)
(* Then the lemmas about steps, fences and the progress of operations that  *)
(* the theorems of TrainingGraphRefinement_proofs rest on.                  *)
(***************************************************************************)
EXTENDS TrainingGraph, SequenceTheorems, FiniteSetTheorems, TLAPS

-----------------------------------------------------------------------------
(* The invariant. *)

Claimed == {"poll", "record", "pauseRecord", "pause", "cover", "commit"}

\* The call is an advance from a checkpoint of the session.
Ready(w) ==
  /\ sessionConfig # Nil
  /\ call[w].handle.config = sessionConfig
  /\ call[w].handle.manifest = Manifest(sessionConfig, call[w].handle.step)
  /\ call[w].handle.step \in Nat
  /\ call[w].steps \in Nat

WorkerOK(w) ==
  /\ pc[w] \in Claimed \cup {"claim"} => Ready(w)
  /\ pc[w] = "fence" /\ call[w].kind = "advance" => Ready(w)
  /\ pc[w] \in Claimed => mark[w].current \in call[w].handle.step .. Target(w)

RecordFields == {"status", "fence", "recovery", "output", "step", "seq"}

InAdvance(m, o) ==
  m # Nil => /\ m.config = sessionConfig
             /\ m.step \in o.input.step .. (o.input.step + o.steps)

OperationOK(o) ==
  /\ sessionConfig # Nil
  /\ DOMAIN ops[o] = RecordFields
  /\ InAdvance(ops[o].recovery, o)

RowsOK ==
  /\ \E S : rows \in Seq(S)
  /\ \A i \in 1..Len(rows) : rows[i].step \in Nat

\* The variables are functions over the workers, a run is of one of the graphs.
ShapeOK ==
  /\ DOMAIN pc = Workers /\ DOMAIN call = Workers /\ DOMAIN mark = Workers /\ DOMAIN run = Workers
  /\ \A w \in Workers :
       /\ DOMAIN mark[w] = {"current", "published", "covered"}
       /\ run[w] # Nil => /\ DOMAIN run[w] = {"graph", "first", "at", "port"}
                          /\ run[w].graph \in Graphs

GraphInv ==
  /\ ShapeOK
  /\ RowsOK
  /\ \A o \in DOMAIN ops : OperationOK(o)
  /\ \A w \in Workers : WorkerOK(w)

-----------------------------------------------------------------------------
(* The parts of a step. *)

Starts(w) ==
  \E g \in Graphs : StartGraph(w, g) \/ \E h \in Literals : StartLiteral(w, g, h)

Act(w) == Starts(w) \/ Execute(w) \/ (Disturb(w) /\ UNCHANGED run)

LEMMA NextActs == Next => \E w \in Workers : Act(w)
BY DEF Next, Act, Starts

\* A step of one worker leaves the call of another alone.
LEMMA Alone ==
  ASSUME ShapeOK, NEW w \in Workers, NEW v \in Workers \ {w}, Act(w)
  PROVE  pc'[v] = pc[v] /\ call'[v] = call[v] /\ mark'[v] = mark[v]
<1> USE DEF ShapeOK, Goto, Begin, Raise, Return
<1>1. CASE Starts(w) \/ RunEnds(w)
  BY <1>1 DEF Starts, StartGraph, StartLiteral, StartRun, RunEnds, trainerVars
<1>2. CASE ExecuteCreate(w) \/ ExecuteAdvance(w) \/ ExecuteComplete(w)
  BY <1>2 DEF ExecuteCreate, ExecuteAdvance, ExecuteComplete, Create, Advance, Complete
<1>3. CASE NodeReturns(w) \/ RunFails(w)
  BY <1>3 DEF NodeReturns, RunFails
<1>4. CASE ReturnCreated(w) \/ GetFence(w) \/ ClaimReplayed(w)
  BY <1>4 DEF ReturnCreated, GetFence, ClaimReplayed
<1>5. CASE Claim(w)
  BY <1>5 DEF Claim
<1>6. CASE Step(w) \/ RecordRecovery(w)
  BY <1>6 DEF Step, RecordRecovery
<1>7. CASE Pause(w) \/ ReadCovered(w)
  BY <1>7 DEF Pause, ReadCovered
<1>8. CASE Commit(w) \/ ReturnOutcome(w)
  BY <1>8 DEF Commit, ReturnOutcome
<1>9. CASE Seal(w) \/ Disturb(w)
  BY <1>9 DEF Seal, Disturb, PollCancelled, Kill
<1> QED
  BY <1>1, <1>2, <1>3, <1>4, <1>5, <1>6, <1>7, <1>8, <1>9 DEF Act, Execute, Continue

\* A session keeps its configuration.
LEMMA ConfigKept ==
  ASSUME NEW w \in Workers, Act(w), sessionConfig # Nil
  PROVE  sessionConfig' = sessionConfig
<1>1. CASE Starts(w) \/ RunEnds(w) \/ NodeReturns(w) \/ RunFails(w)
  BY <1>1 DEF Starts, StartGraph, StartLiteral, StartRun, RunEnds, NodeReturns, RunFails, ledgerVars
<1>2. CASE ExecuteCreate(w) \/ ExecuteAdvance(w) \/ ExecuteComplete(w)
  BY <1>2 DEF ExecuteCreate, ExecuteAdvance, ExecuteComplete, Create, Advance, Complete,
              CreateSession, ledgerVars
<1>3. CASE ReturnCreated(w) \/ GetFence(w) \/ ClaimReplayed(w) \/ Claim(w)
  BY <1>3 DEF ReturnCreated, GetFence, AcquireFence, ClaimReplayed, Claim, ClaimAdvance, ledgerVars
<1>4. CASE Step(w) \/ RecordRecovery(w) \/ Pause(w) \/ ReadCovered(w)
  BY <1>4 DEF Step, RecordRecovery, SetRecoveryCheckpoint, Pause, PauseAdvance, ReadCovered, ledgerVars
<1>5. CASE Commit(w) \/ ReturnOutcome(w) \/ Seal(w) \/ Disturb(w)
  BY <1>5 DEF Commit, CommitAdvance, ReturnOutcome, Seal, CompleteSession, Disturb, PollCancelled,
              Kill, ledgerVars
<1> QED
  BY <1>1, <1>2, <1>3, <1>4, <1>5 DEF Act, Execute, Continue

-----------------------------------------------------------------------------
(* Shapes and rows. *)

LEMMA ShapeStep ==
  ASSUME ShapeOK, NEW w \in Workers, Act(w)
  PROVE  ShapeOK'
<1> USE DEF ShapeOK, Goto, Begin, Raise, Return, NoMark
<1>1. CASE Starts(w)
  BY <1>1 DEF Starts, StartGraph, StartLiteral, StartRun, Fresh, FromLiteral, trainerVars
<1>2. CASE RunEnds(w) \/ RunFails(w)
  BY <1>2 DEF RunEnds, RunFails, trainerVars
<1>3. CASE NodeReturns(w)
  BY <1>3 DEF NodeReturns
<1>4. CASE ExecuteCreate(w) \/ ExecuteAdvance(w) \/ ExecuteComplete(w)
  BY <1>4 DEF ExecuteCreate, ExecuteAdvance, ExecuteComplete, Create, Advance, Complete
<1>5. CASE (ReturnCreated(w) \/ GetFence(w) \/ ClaimReplayed(w)) /\ UNCHANGED run
  BY <1>5 DEF ReturnCreated, GetFence, ClaimReplayed
<1>6. CASE Claim(w) /\ UNCHANGED run
  BY <1>6 DEF Claim
<1>7. CASE (Step(w) \/ RecordRecovery(w)) /\ UNCHANGED run
  BY <1>7 DEF Step, RecordRecovery
<1>8. CASE (Pause(w) \/ ReadCovered(w)) /\ UNCHANGED run
  BY <1>8 DEF Pause, ReadCovered
<1>9. CASE (Commit(w) \/ ReturnOutcome(w)) /\ UNCHANGED run
  BY <1>9 DEF Commit, ReturnOutcome
<1>10. CASE (Seal(w) \/ Disturb(w)) /\ UNCHANGED run
  BY <1>10 DEF Seal, Disturb, PollCancelled, Kill
<1> QED
  BY <1>1, <1>2, <1>3, <1>4, <1>5, <1>6, <1>7, <1>8, <1>9, <1>10 DEF Act, Execute, Continue

LEMMA RowsStep ==
  ASSUME GraphInv, NEW w \in Workers, Act(w)
  PROVE  RowsOK'
<1>1. CASE rows' = rows
  BY <1>1 DEF GraphInv, RowsOK
<1>2. CASE Starts(w) \/ RunEnds(w) \/ NodeReturns(w) \/ RunFails(w)
  BY <1>1, <1>2 DEF Starts, StartGraph, StartLiteral, StartRun, RunEnds, NodeReturns, RunFails, ledgerVars
<1>3. CASE ExecuteAdvance(w) \/ ExecuteComplete(w)
  BY <1>1, <1>3 DEF ExecuteAdvance, ExecuteComplete, Advance, Complete, ledgerVars
<1>4. CASE ExecuteCreate(w)
  <2>1. CASE rows' # rows
    <3>1. PICK row : rows' = <<row>> /\ row.step = 0
      BY <1>4, <2>1 DEF ExecuteCreate, Create, CreateSession, ledgerVars
    <3>2. <<row>> \in Seq({row}) /\ Len(<<row>>) = 1 /\ <<row>>[1] = row
      OBVIOUS
    <3>3. Len(rows') = 1 /\ rows'[1].step = 0 /\ \E S : rows' \in Seq(S)
      BY <3>1, <3>2
    <3> QED
      BY <3>3 DEF RowsOK
  <2> QED
    BY <1>1, <2>1
<1>5. CASE ReturnCreated(w) \/ GetFence(w) \/ ClaimReplayed(w) \/ Claim(w)
  BY <1>1, <1>5 DEF ReturnCreated, GetFence, AcquireFence, ClaimReplayed, Claim, ClaimAdvance, ledgerVars
<1>6. CASE Step(w) \/ RecordRecovery(w) \/ Pause(w) \/ ReadCovered(w)
  BY <1>1, <1>6 DEF Step, RecordRecovery, SetRecoveryCheckpoint, Pause, PauseAdvance, ReadCovered, ledgerVars
<1>7. CASE ReturnOutcome(w) \/ Seal(w) \/ Disturb(w)
  BY <1>1, <1>7 DEF ReturnOutcome, Seal, CompleteSession, Disturb, PollCancelled, Kill, ledgerVars
<1>8. CASE Commit(w)
  <2>1. CASE rows' # rows
    <3>1. PICK row : rows' = Append(rows, row) /\ row.step = Target(w)
      BY <1>8, <2>1 DEF Commit, CommitAdvance, ledgerVars
    <3>2. row.step \in Nat
      BY <1>8, <3>1 DEF Commit, GraphInv, WorkerOK, Claimed, Ready, Target
    <3>3. PICK S : rows \in Seq(S)
      BY DEF GraphInv, RowsOK
    <3>4. rows \in Seq(S \cup {row})
      BY <3>3
    <3>5. /\ Append(rows, row) \in Seq(S \cup {row})
          /\ Len(Append(rows, row)) = Len(rows) + 1
          /\ \A i \in 1..Len(rows) : Append(rows, row)[i] = rows[i]
          /\ Append(rows, row)[Len(rows) + 1] = row
          /\ Len(rows) \in Nat
      BY <3>4, AppendProperties
    <3>6. \A i \in 1..Len(rows) + 1 : i \in 1..Len(rows) \/ i = Len(rows) + 1
      BY <3>5
    <3> QED
      BY <3>1, <3>2, <3>5, <3>6 DEF GraphInv, RowsOK
  <2> QED
    BY <1>1, <2>1
<1> QED
  BY <1>2, <1>3, <1>4, <1>5, <1>6, <1>7, <1>8 DEF Act, Execute, Continue

-----------------------------------------------------------------------------
(* Operations. *)

\* An operation is claimed, given a recovery checkpoint, or keeps the one it has.
LEMMA OperationStep ==
  ASSUME GraphInv, NEW w \in Workers, Act(w), NEW o \in DOMAIN ops'
  PROVE  OperationOK(o)'
<1>1. ASSUME o \in DOMAIN ops, DOMAIN ops'[o] = RecordFields, ops'[o].recovery = ops[o].recovery
      PROVE  OperationOK(o)'
  BY <1>1, ConfigKept DEF GraphInv, OperationOK, InAdvance
<1>2. CASE ops' = ops
  BY <1>1, <1>2 DEF GraphInv, OperationOK
<1>3. CASE Starts(w) \/ RunEnds(w) \/ NodeReturns(w) \/ RunFails(w)
  BY <1>2, <1>3 DEF Starts, StartGraph, StartLiteral, StartRun, RunEnds, NodeReturns, RunFails, ledgerVars
<1>4. CASE ExecuteCreate(w) \/ ExecuteAdvance(w) \/ ExecuteComplete(w)
  BY <1>2, <1>4 DEF ExecuteCreate, ExecuteAdvance, ExecuteComplete, Create, Advance, Complete,
              CreateSession, ledgerVars
<1>5. CASE ReturnCreated(w) \/ GetFence(w) \/ ClaimReplayed(w) \/ Step(w) \/ ReadCovered(w)
  BY <1>2, <1>5 DEF ReturnCreated, GetFence, AcquireFence, ClaimReplayed, Step, ReadCovered, ledgerVars
<1>6. CASE ReturnOutcome(w) \/ Seal(w) \/ Disturb(w)
  BY <1>2, <1>6 DEF ReturnOutcome, Seal, CompleteSession, Disturb, PollCancelled, Kill, ledgerVars
<1>7. CASE Claim(w) /\ ops' # ops
  <2>1. PICK x : x = Operation(w)
    OBVIOUS
  <2>2. ops' = [y \in DOMAIN ops \cup {x} |-> IF y = x THEN ClaimedRecord(x, fence[w]) ELSE ops[y]]
    BY <1>7, <2>1 DEF Claim, ClaimAdvance, ledgerVars
  <2>3. sessionConfig # Nil
    BY <1>7 DEF Claim, GraphInv, WorkerOK, Ready
  <2>4. CASE o \in DOMAIN ops
    <3>1. ops'[o] = ops[o] \/ ops'[o] = [ops[o] EXCEPT !.status = "started", !.fence = fence[w]]
      BY <2>2, <2>4 DEF ClaimedRecord
    <3>2. DOMAIN ops'[o] = RecordFields /\ ops'[o].recovery = ops[o].recovery
      BY <2>4, <3>1 DEF GraphInv, OperationOK, RecordFields
    <3> QED
      BY <1>1, <2>4, <3>2
  <2>5. CASE o \notin DOMAIN ops
    <3>1. ops'[o] = [status |-> "started", fence |-> fence[w], recovery |-> Nil,
                     output |-> Nil, step |-> 0, seq |-> 0]
      BY <2>2, <2>5 DEF ClaimedRecord
    <3>2. DOMAIN ops'[o] = RecordFields /\ ops'[o].recovery = Nil
      BY <3>1 DEF RecordFields
    <3> QED
      BY <2>3, <3>2, ConfigKept DEF OperationOK, InAdvance
  <2> QED
    BY <2>4, <2>5
<1>8. CASE RecordRecovery(w) /\ ops' # ops
  <2>1. PICK x : x = Operation(w)
    OBVIOUS
  <2>2. PICK m : m = Manifest(call[w].handle.config, mark[w].current)
    OBVIOUS
  <2>3. ops' = [ops EXCEPT ![x].recovery = m]
    BY <1>8, <2>1, <2>2 DEF RecordRecovery, SetRecoveryCheckpoint, ledgerVars
  <2>4. o \in DOMAIN ops /\ DOMAIN ops[o] = RecordFields /\ sessionConfig # Nil
    BY <2>3 DEF GraphInv, OperationOK
  <2>5. CASE o = x
    <3>1. ops'[o].recovery = m /\ DOMAIN ops'[o] = RecordFields
      BY <2>3, <2>4, <2>5 DEF RecordFields
    <3>2. Ready(w) /\ mark[w].current \in call[w].handle.step .. Target(w)
      BY <1>8 DEF RecordRecovery, GraphInv, WorkerOK, Claimed
    <3>3. /\ m.config = sessionConfig /\ m.step = mark[w].current
          /\ x.input.step = call[w].handle.step /\ x.steps = call[w].steps
      BY <2>1, <2>2, <3>2 DEF Ready, Manifest, Operation
    <3>4. m.config = sessionConfig /\ m.step \in o.input.step .. (o.input.step + o.steps)
      BY <2>5, <3>2, <3>3 DEF Target
    <3> QED
      BY <2>4, <3>1, <3>4, ConfigKept DEF OperationOK, InAdvance
  <2>6. CASE o # x
    BY <1>1, <2>3, <2>4, <2>6
  <2> QED
    BY <2>5, <2>6
<1>9. CASE Pause(w) /\ ops' # ops
  <2>1. ops' = [ops EXCEPT ![Operation(w)].status = "paused"]
    BY <1>9 DEF Pause, PauseAdvance, ledgerVars
  <2> QED
    BY <1>1, <2>1 DEF GraphInv, OperationOK, RecordFields
<1>10. CASE Commit(w) /\ ops' # ops
  <2>0. PICK x, m : x = Operation(w) /\ m = Manifest(call[w].handle.config, Target(w))
    OBVIOUS
  <2>1. ops' = [ops EXCEPT ![x].status = "committed", ![x].output = m,
                           ![x].step = Target(w), ![x].seq = journal + 1]
    BY <1>10, <2>0 DEF Commit, CommitAdvance, ledgerVars
  <2>2. o \in DOMAIN ops /\ DOMAIN ops[o] = RecordFields
    BY <2>1 DEF GraphInv, OperationOK
  <2>3. DOMAIN ops'[o] = RecordFields /\ ops'[o].recovery = ops[o].recovery
    BY <2>1, <2>2 DEF RecordFields
  <2> QED
    BY <1>1, <2>2, <2>3
<1> QED
  BY <1>2, <1>3, <1>4, <1>5, <1>6, <1>7, <1>8, <1>9, <1>10 DEF Act, Execute, Continue

-----------------------------------------------------------------------------
(* Calls. *)

LEMMA ReadyKept ==
  ASSUME NEW w \in Workers, Act(w), NEW v \in Workers, Ready(v), call'[v] = call[v]
  PROVE  Ready(v)' /\ Target(v)' = Target(v)
BY ConfigKept DEF Ready, Target, Manifest

\* A call that holds nothing of an advance.
LEMMA HoldsNothing ==
  ASSUME NEW w \in Workers, pc'[w] \notin Claimed \cup {"fence", "claim"}
  PROVE  WorkerOK(w)'
BY DEF WorkerOK, Claimed

\* A claimed advance that goes on, where it is or a step further.
LEMMA GoesOn ==
  ASSUME GraphInv, NEW w \in Workers, Act(w), pc[w] \in Claimed, call'[w] = call[w],
         pc'[w] \in Claimed,
         \/ mark'[w].current = mark[w].current
         \/ mark'[w].current = mark[w].current + 1 /\ mark[w].current < Target(w)
  PROVE  WorkerOK(w)'
<1>1. Ready(w) /\ mark[w].current \in call[w].handle.step .. Target(w)
  BY DEF GraphInv, WorkerOK
<1>2. Ready(w)' /\ Target(w)' = Target(w) /\ Target(w) \in Nat /\ call[w].handle.step \in Nat
  BY <1>1, ReadyKept DEF Ready, Target
<1>3. mark'[w].current \in call[w].handle.step .. Target(w)
  BY <1>1, <1>2
<1> QED
  BY <1>2, <1>3 DEF WorkerOK, Claimed

LEMMA StartAdvanceOK ==
  ASSUME GraphInv, NEW w \in Workers, ExecuteAdvance(w)
  PROVE  WorkerOK(w)'
<1>1. PICK i : i = run[w].at /\ i \in 1..Len(run[w].graph.intervals)
  BY DEF ExecuteAdvance, AtAdvance
<1>2. PICK n, h, note :
        /\ n = run[w].graph.intervals[i].steps /\ h = run[w].port /\ note = run[w].graph.intervals[i].note
        /\ Advance(w, h, n, note)
  BY <1>1 DEF ExecuteAdvance
<1>3. n \in Nat
  <2>1. run[w].graph \in Graphs
    BY DEF ExecuteAdvance, GraphInv, ShapeOK
  <2> QED
    BY <1>1, <1>2, <2>1, GraphAssumption
<1>4. CASE pc'[w] = "raised"
  BY <1>4, HoldsNothing DEF Claimed
<1>5. CASE n >= 1 /\ VerifyHandle(h) /\ pc'[w] # "raised"
  <2>1. /\ call'[w] = [kind |-> "advance", handle |-> h, steps |-> n, note |-> note]
        /\ pc'[w] \in {"fence", "claim"}
    BY <1>2, <1>5 DEF Advance, Begin, Goto, GraphInv, ShapeOK
  <2>2. call'[w].handle = h /\ call'[w].steps = n
    BY <2>1
  <2>3. sessionConfig' = sessionConfig
    BY <1>2 DEF Advance, ledgerVars
  <2>4. h.step \in Nat
    BY <1>5 DEF VerifyHandle, GraphInv, RowsOK
  <2>5. /\ sessionConfig # Nil /\ h.config = sessionConfig
        /\ h.manifest = Manifest(sessionConfig, h.step)
    BY <1>5 DEF VerifyHandle
  <2>6. Ready(w)'
    BY <1>3, <2>2, <2>3, <2>4, <2>5 DEF Ready, Manifest
  <2> QED
    BY <2>1, <2>6 DEF WorkerOK, Claimed
<1> QED
  BY <1>2, <1>4, <1>5 DEF Advance, Begin, Goto, GraphInv, ShapeOK

LEMMA ClaimOK ==
  ASSUME GraphInv, NEW w \in Workers, Act(w), Claim(w)
  PROVE  WorkerOK(w)'
<1>1. CASE pc'[w] = "raised"
  BY <1>1, HoldsNothing DEF Claimed
<1>2. CASE pc'[w] # "raised"
  <2>1. PICK o, s :
          /\ o = Operation(w)
          /\ ClaimAdvance(o, fence[w])
          /\ s \in ResumeSteps(ops'[o], call[w].handle)
          /\ mark' = [mark EXCEPT ![w].current = s, ![w].published = ops'[o].recovery # Nil]
          /\ pc'[w] \in {"poll", "cover"}
          /\ call' = call
    BY <1>2 DEF Claim, Raise, Goto, GraphInv, ShapeOK
  <2>2. Ready(w)
    BY DEF Claim, GraphInv, WorkerOK
  <2>3. o.input.step = call[w].handle.step /\ o.steps = call[w].steps
    BY <2>1, <2>2 DEF Operation, Ready, Manifest
  <2>4. o \in DOMAIN ops' /\ OperationOK(o)'
    <3>1. o \in DOMAIN ops'
      BY <2>1 DEF ClaimAdvance
    <3> QED
      BY <3>1, OperationStep
  <2>5. s \in call[w].handle.step .. Target(w)
    <3>1. CASE ops'[o].recovery = Nil
      BY <2>1, <2>2, <3>1 DEF ResumeSteps, Ready, Target
    <3>2. CASE ops'[o].recovery # Nil
      <4>1. Manifest(call[w].handle.config, s) = ops'[o].recovery
        BY <2>1, <3>2 DEF ResumeSteps, StepsNamed
      <4>2. s = ops'[o].recovery.step
        BY <4>1 DEF Manifest
      <4> QED
        BY <2>3, <2>4, <3>2, <4>2 DEF OperationOK, InAdvance, Target
    <3> QED
      BY <3>1, <3>2
  <2>6. mark'[w].current = s
    BY <2>1 DEF GraphInv, ShapeOK
  <2>7. Ready(w)' /\ Target(w)' = Target(w)
    BY <2>1, <2>2, ReadyKept
  <2> QED
    BY <2>1, <2>5, <2>6, <2>7 DEF WorkerOK, Claimed
<1> QED
  BY <1>1, <1>2

LEMMA OwnWorker ==
  ASSUME GraphInv, NEW w \in Workers, Act(w)
  PROVE  WorkerOK(w)'
<1> USE DEF Goto, GraphInv, ShapeOK
<1>1. CASE Starts(w) \/ RunEnds(w)
  <2>1. pc' = pc /\ call' = call /\ mark' = mark
    BY <1>1 DEF Starts, StartGraph, StartLiteral, StartRun, RunEnds, trainerVars
  <2> QED
    BY <2>1, ReadyKept DEF WorkerOK
<1>2. CASE ExecuteCreate(w)
  <2>1. pc'[w] \in {"created", "raised"}
    BY <1>2 DEF ExecuteCreate, Create, Begin
  <2> QED
    BY <2>1, HoldsNothing DEF Claimed
<1>3. CASE ExecuteComplete(w)
  <2>1. pc'[w] \in {"fence", "seal", "raised"} /\ (pc'[w] = "fence" => call'[w].kind = "complete")
    BY <1>3 DEF ExecuteComplete, Complete, Begin
  <2> QED
    BY <2>1 DEF WorkerOK, Claimed
<1>4. CASE NodeReturns(w) \/ RunFails(w) \/ ReturnCreated(w) \/ ClaimReplayed(w)
  <2>1. pc'[w] \in {"idle", "returned", "answer"}
    BY <1>4 DEF NodeReturns, RunFails, ReturnCreated, Return, ClaimReplayed
  <2> QED
    BY <2>1, HoldsNothing DEF Claimed
<1>5. CASE GetFence(w)
  <2>1. /\ pc[w] = "fence" /\ call' = call
        /\ pc'[w] = IF call[w].kind = "advance" THEN "claim" ELSE "seal"
    BY <1>5 DEF GetFence
  <2> QED
    BY <2>1, ReadyKept DEF WorkerOK, Claimed
<1>6. CASE Pause(w) \/ Commit(w) \/ ReturnOutcome(w) \/ Seal(w) \/ Kill(w)
  <2>1. pc'[w] \in {"raised", "answer", "returned"}
    BY <1>6 DEF Pause, Commit, ReturnOutcome, Seal, Kill, Raise, Return
  <2> QED
    BY <2>1, HoldsNothing DEF Claimed
<1>7. CASE PollCancelled(w)
  <2>1. pc[w] = "poll" /\ pc'[w] \in {"pause", "pauseRecord"} /\ call' = call /\ mark' = mark
    BY <1>7 DEF PollCancelled
  <2> QED
    BY <2>1, GoesOn DEF Claimed
<1>8. CASE Step(w)
  <2>1. /\ pc[w] = "poll" /\ pc'[w] = "record" /\ call' = call
        /\ mark'[w].current = mark[w].current + 1 /\ mark[w].current < Target(w)
    BY <1>8 DEF Step
  <2> QED
    BY <2>1, GoesOn DEF Claimed
<1>9. CASE RecordRecovery(w)
  <2>1. CASE pc'[w] = "raised"
    BY <2>1, HoldsNothing DEF Claimed
  <2>2. CASE pc'[w] # "raised"
    <3>1. /\ pc[w] \in {"record", "pauseRecord"} /\ pc'[w] \in {"poll", "pause"} /\ call' = call
          /\ mark'[w].current = mark[w].current
      BY <1>9, <2>2 DEF RecordRecovery, Raise
    <3> QED
      BY <3>1, GoesOn DEF Claimed
  <2> QED
    BY <2>1, <2>2
<1>10. CASE ReadCovered(w)
  <2>1. /\ pc[w] \in {"poll", "cover"} /\ pc'[w] = "commit" /\ call' = call
        /\ mark'[w].current = mark[w].current
    BY <1>10 DEF ReadCovered
  <2> QED
    BY <2>1, GoesOn DEF Claimed
<1> QED
  BY <1>1, <1>2, <1>3, <1>4, <1>5, <1>6, <1>7, <1>8, <1>9, <1>10, StartAdvanceOK, ClaimOK
     DEF Act, Execute, Continue, Disturb

LEMMA WorkersStep ==
  ASSUME GraphInv, NEW w \in Workers, Act(w), NEW v \in Workers
  PROVE  WorkerOK(v)'
<1>1. CASE v = w
  BY <1>1, OwnWorker
<1>2. CASE v # w
  <2>1. pc'[v] = pc[v] /\ call'[v] = call[v] /\ mark'[v] = mark[v]
    BY <1>2, Alone DEF GraphInv
  <2> QED
    BY <2>1, ReadyKept DEF GraphInv, WorkerOK
<1> QED
  BY <1>1, <1>2

-----------------------------------------------------------------------------
(* The theorem. *)

LEMMA Invariance == Spec => []GraphInv
<1>1. Init => GraphInv
  <2> SUFFICES ASSUME Init PROVE GraphInv
    OBVIOUS
  <2>1. ShapeOK /\ \A w \in Workers : WorkerOK(w)
    BY DEF Init, TrainerInit, ShapeOK, WorkerOK, Claimed, NoMark
  <2>2. rows = <<>> /\ rows \in Seq({})
    BY DEF Init, TrainerInit, LedgerInit
  <2>3. \A o \in DOMAIN ops : OperationOK(o)
    BY DEF Init, TrainerInit, LedgerInit
  <2> QED
    BY <2>1, <2>2, <2>3 DEF GraphInv, RowsOK
<1>2. GraphInv /\ [Next]_vars => GraphInv'
  <2>1. ASSUME GraphInv, NEW w \in Workers, Act(w) PROVE GraphInv'
    <3>1. ShapeOK' /\ RowsOK'
      BY <2>1, ShapeStep, RowsStep DEF GraphInv
    <3>2. \A o \in DOMAIN ops' : OperationOK(o)'
      BY <2>1, OperationStep
    <3>3. \A v \in Workers : WorkerOK(v)'
      BY <2>1, WorkersStep
    <3> QED
      BY <3>1, <3>2, <3>3 DEF GraphInv
  <2>2. ASSUME GraphInv, UNCHANGED vars PROVE GraphInv'
    BY <2>2 DEF GraphInv, ShapeOK, RowsOK, OperationOK, InAdvance, WorkerOK, Ready, Target, vars,
                ledgerVars, trainerVars
  <2> QED
    BY <2>1, <2>2, NextActs
<1> QED
  BY <1>1, <1>2, PTL DEF Spec

\* A takeover of the fake backend resumes inside its advance, although neither the trainer
\* nor the ledger checks it, whoever is killed, paused or overtaken.
THEOREM ResumesInAdvance == Spec => []RecoveryInAdvance
<1>1. GraphInv => RecoveryInAdvance
  BY DEF GraphInv, OperationOK, InAdvance, RecoveryInAdvance
<1> QED
  BY <1>1, Invariance, PTL

-----------------------------------------------------------------------------
(* Counting the steps of a graph. *)

\* Induction over the natural numbers, with a set for the predicate.
LEMMA Counting ==
  ASSUME NEW S, 0 \in S, \A n \in Nat : n \in S => n + 1 \in S
  PROVE  Nat \subseteq S
<1> SUFFICES ASSUME Nat \ S # {} PROVE FALSE
  OBVIOUS
<1>1. PICK n \in Nat \ S : \A m \in Nat \ S : ~(<<m, n>> \in OpToRel(<, Nat))
  BY NatLessThanWellFounded, WFMin
<1>2. \A m \in Nat \ S : ~(m < n)
  BY <1>1 DEF OpToRel
<1>0. n \in Nat /\ n \notin S
  BY <1>1, Zenon
<1>3. n # 0 /\ n - 1 \in Nat /\ n - 1 < n /\ (n - 1) + 1 = n
  BY <1>0
<1>4. n - 1 \in S
  BY <1>2, <1>3
<1> QED
  BY <1>0, <1>3, <1>4

\* The steps of k intervals are finitely many, and the next interval adds its own.
LEMMA NextInterval ==
  ASSUME NEW g \in Graphs, NEW k \in Nat, k + 1 <= Len(g.intervals), IsFiniteSet(StepsOf(g, k))
  PROVE  /\ IsFiniteSet(StepsOf(g, k + 1))
         /\ StepsUpTo(g, k + 1) = StepsUpTo(g, k) + g.intervals[k + 1].steps
<1>0. PICK n : n = g.intervals[k + 1].steps
  OBVIOUS
<1> DEFINE Added == {k + 1} \X (1..n)
<1>1. n \in Nat
  BY <1>0, GraphAssumption
<1>2. IsFiniteSet(1..n) /\ Cardinality(1..n) = n
  <2>1. 1 \in Int /\ n \in Int
    BY <1>1
  <2>2. IsFiniteSet(1..n) /\ Cardinality(1..n) = IF 1 > n THEN 0 ELSE n - 1 + 1
    BY <2>1, FS_Interval, Zenon
  <2> QED
    BY <1>1, <2>2
<1>3. IsFiniteSet(Added) /\ Cardinality(Added) = n
  <2>1. IsFiniteSet({k + 1}) /\ Cardinality({k + 1}) = 1
    BY FS_Singleton
  <2>2. IsFiniteSet(Added) /\ Cardinality(Added) = 1 * n
    BY <1>2, <2>1, FS_Product
  <2> QED
    BY <1>1, <2>2
<1>4. StepsOf(g, k + 1) = StepsOf(g, k) \cup Added
  <2>1. \A i : i \in 1..(k + 1) <=> i \in 1..k \/ i = k + 1
    OBVIOUS
  <2> QED
    BY <1>0, <2>1 DEF StepsOf
<1>5. StepsOf(g, k) \cap Added = {}
  BY DEF StepsOf
<1> HIDE DEF Added
<1>6. /\ IsFiniteSet(StepsOf(g, k) \cup Added)
      /\ Cardinality(StepsOf(g, k) \cup Added)
           = Cardinality(StepsOf(g, k)) + Cardinality(Added) - Cardinality(StepsOf(g, k) \cap Added)
  BY <1>3, FS_Union
<1>7. Cardinality(StepsOf(g, k)) \in Nat
  BY FS_CardinalityType
<1>8. Cardinality(StepsOf(g, k) \cap Added) = 0
  BY <1>5, FS_EmptySet
<1>9. Cardinality(StepsOf(g, k + 1)) = Cardinality(StepsOf(g, k)) + n
  <2>1. Cardinality(StepsOf(g, k + 1)) = Cardinality(StepsOf(g, k)) + n - 0
    BY <1>3, <1>4, <1>6, <1>8, Zenon
  <2> QED
    BY <1>1, <1>7, <2>1
<1> QED
  BY <1>0, <1>4, <1>6, <1>9 DEF StepsUpTo

\* What is counted of a graph's steps is what its intervals ask for.
LEMMA StepCounts ==
  ASSUME NEW g \in Graphs
  PROVE  /\ StepsUpTo(g, 0) = 0
         /\ \A k \in 0..Len(g.intervals) : StepsUpTo(g, k) \in Nat /\ StepsUpTo(g, k) <= TotalSteps(g)
         /\ \A k \in 1..Len(g.intervals) : StepsUpTo(g, k) = StepsUpTo(g, k - 1) + g.intervals[k].steps
<1>0. PICK n : n = Len(g.intervals) /\ n \in Nat
  BY GraphAssumption
<1>1. StepsOf(g, 0) = {}
  BY DEF StepsOf
<1>2. \A k \in 0..n : IsFiniteSet(StepsOf(g, k))
  <2>1. PICK S : S = {k \in Nat : k <= n => IsFiniteSet(StepsOf(g, k))}
    OBVIOUS
  <2>2. 0 \in S
    BY <1>1, <2>1, FS_EmptySet
  <2>3. ASSUME NEW k \in Nat, k \in S PROVE k + 1 \in S
    <3>1. CASE k + 1 <= n
      BY <1>0, <2>1, <2>3, <3>1, NextInterval
    <3>2. CASE ~(k + 1 <= n)
      BY <2>1, <3>2
    <3> QED
      BY <3>1, <3>2
  <2>4. Nat \subseteq S
    BY <2>2, <2>3, Counting
  <2> QED
    BY <1>0, <2>1, <2>4
<1>3. \A k \in 0..n : StepsUpTo(g, k) \in Nat /\ StepsUpTo(g, k) <= TotalSteps(g)
  <2> SUFFICES ASSUME NEW k \in 0..n PROVE StepsUpTo(g, k) \in Nat /\ StepsUpTo(g, k) <= TotalSteps(g)
    OBVIOUS
  <2>1. StepsOf(g, k) \in SUBSET StepsOf(g, n)
    BY <1>0 DEF StepsOf
  <2>2. n \in 0..n /\ IsFiniteSet(StepsOf(g, n)) /\ IsFiniteSet(StepsOf(g, k))
    BY <1>0, <1>2
  <2>3. Cardinality(StepsOf(g, k)) \in Nat /\ Cardinality(StepsOf(g, k)) <= Cardinality(StepsOf(g, n))
    BY <2>1, <2>2, FS_Subset, FS_CardinalityType
  <2> QED
    BY <1>0, <2>3 DEF StepsUpTo, TotalSteps
<1>4. ASSUME NEW k \in 1..n PROVE StepsUpTo(g, k) = StepsUpTo(g, k - 1) + g.intervals[k].steps
  <2>1. k - 1 \in Nat /\ k - 1 \in 0..n /\ (k - 1) + 1 = k /\ (k - 1) + 1 <= n
    BY <1>0
  <2>2. StepsUpTo(g, (k - 1) + 1) = StepsUpTo(g, k - 1) + g.intervals[(k - 1) + 1].steps
    BY <1>0, <1>2, <2>1, NextInterval
  <2> QED
    BY <2>1, <2>2
<1> QED
  BY <1>0, <1>1, <1>3, <1>4, FS_EmptySet DEF StepsUpTo

-----------------------------------------------------------------------------
(* Fences: who may write. *)

\* No two workers hold the same fence.
Distinct == \A v, w \in Workers : fence[v] = fence[w] /\ fence[v] # 0 => v = w

Fenced(w) ==
  /\ fence[w] \in 0..epoch
  /\ pc[w] \in Claimed \cup {"claim", "seal"} => fence[w] # 0

FenceInv ==
  /\ epoch \in Nat
  /\ fence \in [Workers -> Nat]
  /\ Distinct
  /\ \A w \in Workers : Fenced(w)

Dropped(w) == fence' = [fence EXCEPT ![w] = 0] /\ epoch' = epoch /\ pc'[w] = "raised" /\ Kill(w)
Acquired(w) == GetFence(w) /\ fence' = [fence EXCEPT ![w] = epoch + 1] /\ epoch' = epoch + 1

\* A fence is forgotten when its worker is killed, handed out to one that has none, or stays.
LEMMA FenceSteps ==
  ASSUME ShapeOK, NEW w \in Workers, Act(w)
  PROVE  (UNCHANGED <<fence, epoch>>) \/ Dropped(w) \/ Acquired(w)
<1>1. CASE Starts(w) \/ RunEnds(w) \/ NodeReturns(w) \/ RunFails(w)
  BY <1>1 DEF Starts, StartGraph, StartLiteral, StartRun, RunEnds, NodeReturns, RunFails, ledgerVars,
              trainerVars
<1>2. CASE ExecuteCreate(w) \/ ExecuteAdvance(w) \/ ExecuteComplete(w)
  BY <1>2 DEF ExecuteCreate, ExecuteAdvance, ExecuteComplete, Create, Advance, Complete, Begin,
              CreateSession, ledgerVars
<1>3. CASE ReturnCreated(w) \/ ClaimReplayed(w) \/ Claim(w)
  BY <1>3 DEF ReturnCreated, ClaimReplayed, Claim, ClaimAdvance, ledgerVars
<1>4. CASE GetFence(w)
  BY <1>4 DEF GetFence, AcquireFence, Acquired
<1>5. CASE Step(w) \/ RecordRecovery(w) \/ Pause(w) \/ ReadCovered(w)
  BY <1>5 DEF Step, RecordRecovery, SetRecoveryCheckpoint, Pause, PauseAdvance, ReadCovered, ledgerVars
<1>6. CASE Commit(w) \/ ReturnOutcome(w) \/ Seal(w) \/ PollCancelled(w)
  BY <1>6 DEF Commit, CommitAdvance, ReturnOutcome, Seal, CompleteSession, PollCancelled, ledgerVars
<1>7. CASE Kill(w)
  BY <1>7 DEF Kill, Raise, Goto, ShapeOK, Dropped, ledgerVars
<1> QED
  BY <1>1, <1>2, <1>3, <1>4, <1>5, <1>6, <1>7 DEF Act, Execute, Continue, Disturb

\* A worker gets to where it writes with a fence only.
LEMMA OwnFenced ==
  ASSUME ShapeOK, FenceInv, NEW w \in Workers, Act(w), UNCHANGED <<fence, epoch>>
  PROVE  Fenced(w)'
<1> USE DEF Goto, ShapeOK
<1>1. fence'[w] \in 0..epoch' /\ Fenced(w)
  BY DEF FenceInv, Fenced
<1>2. ASSUME pc'[w] \in Claimed \cup {"claim", "seal"} => pc[w] \in Claimed \cup {"claim", "seal"} \/ fence[w] # 0
      PROVE  Fenced(w)'
  BY <1>1, <1>2 DEF Fenced
<1>3. CASE Starts(w) \/ RunEnds(w)
  BY <1>2, <1>3 DEF Starts, StartGraph, StartLiteral, StartRun, RunEnds, trainerVars
<1>4. CASE ExecuteCreate(w) \/ ExecuteAdvance(w) \/ ExecuteComplete(w)
  <2>1. pc'[w] \in {"created", "raised", "fence"} \/ (pc'[w] \in {"claim", "seal"} /\ fence[w] # 0)
    BY <1>4 DEF ExecuteCreate, ExecuteAdvance, ExecuteComplete, Create, Advance, Complete, Begin
  <2> QED
    BY <1>2, <2>1 DEF Claimed
<1>5. CASE NodeReturns(w) \/ RunFails(w) \/ ReturnCreated(w) \/ ClaimReplayed(w) \/ ReturnOutcome(w) \/ Seal(w)
           \/ Pause(w) \/ Commit(w) \/ Kill(w)
  <2>1. pc'[w] \in {"idle", "returned", "answer", "raised"}
    BY <1>5 DEF NodeReturns, RunFails, ReturnCreated, ClaimReplayed, ReturnOutcome, Seal, Pause, Commit, Kill,
                Return, Raise
  <2> QED
    BY <1>2, <2>1 DEF Claimed
<1>6. CASE GetFence(w)
  BY <1>6 DEF GetFence, AcquireFence, FenceInv
<1>7. CASE Claim(w) \/ Step(w) \/ RecordRecovery(w) \/ ReadCovered(w) \/ PollCancelled(w)
  <2>1. pc[w] \in Claimed \cup {"claim"}
    BY <1>7 DEF Claim, Step, RecordRecovery, ReadCovered, PollCancelled, Claimed
  <2> QED
    BY <1>2, <2>1
<1> QED
  BY <1>3, <1>4, <1>5, <1>6, <1>7 DEF Act, Execute, Continue, Disturb

LEMMA FenceStep ==
  ASSUME ShapeOK, FenceInv, NEW w \in Workers, Act(w)
  PROVE  FenceInv'
<1>1. \A v \in Workers \ {w} : pc'[v] = pc[v]
  BY Alone
<1>2. CASE UNCHANGED <<fence, epoch>>
  <2>1. \A v \in Workers \ {w} : Fenced(v)'
    BY <1>1, <1>2 DEF FenceInv, Fenced
  <2> QED
    BY <1>2, <2>1, OwnFenced DEF FenceInv, Distinct
<1>3. CASE Dropped(w)
  <2>1. \A v \in Workers \ {w} : Fenced(v)' /\ fence'[v] = fence[v]
    BY <1>1, <1>3 DEF FenceInv, Fenced, Dropped
  <2>2. Fenced(w)' /\ fence'[w] = 0
    BY <1>3 DEF FenceInv, Fenced, Dropped, Claimed
  <2> QED
    BY <1>3, <2>1, <2>2 DEF FenceInv, Distinct, Dropped
<1>4. CASE Acquired(w)
  <2>1. \A v \in Workers \ {w} : Fenced(v)' /\ fence'[v] = fence[v] /\ fence[v] \in 0..epoch
    BY <1>1, <1>4 DEF FenceInv, Fenced, Acquired
  <2>2. Fenced(w)' /\ fence'[w] = epoch + 1
    BY <1>4 DEF FenceInv, Fenced, Acquired
  <2>3. Distinct'
    BY <2>1, <2>2 DEF FenceInv, Distinct
  <2> QED
    BY <1>4, <2>1, <2>2, <2>3 DEF FenceInv, Acquired
<1> QED
  BY <1>2, <1>3, <1>4, FenceSteps

\* Only the worker that holds the newest fence changes an operation, or completes the session.
LEMMA NewestWrites ==
  ASSUME NEW w \in Workers, Act(w), fence[w] # epoch
  PROVE  UNCHANGED <<ops, completed>>
<1>1. CASE Starts(w) \/ RunEnds(w) \/ NodeReturns(w) \/ RunFails(w)
  BY <1>1 DEF Starts, StartGraph, StartLiteral, StartRun, RunEnds, NodeReturns, RunFails, ledgerVars
<1>2. CASE ExecuteCreate(w) \/ ExecuteAdvance(w) \/ ExecuteComplete(w)
  BY <1>2 DEF ExecuteCreate, ExecuteAdvance, ExecuteComplete, Create, Advance, Complete, CreateSession,
              ledgerVars
<1>3. CASE ReturnCreated(w) \/ GetFence(w) \/ ClaimReplayed(w) \/ Claim(w)
  BY <1>3 DEF ReturnCreated, GetFence, AcquireFence, ClaimReplayed, Claim, ClaimAccepted, ledgerVars
<1>4. CASE Step(w) \/ RecordRecovery(w) \/ Pause(w) \/ ReadCovered(w)
  BY <1>4 DEF Step, RecordRecovery, WriteAccepted, Pause, ReadCovered, ledgerVars
<1>5. CASE Commit(w) \/ ReturnOutcome(w) \/ Seal(w) \/ Disturb(w)
  BY <1>5 DEF Commit, CommitAccepted, WriteAccepted, ReturnOutcome, Seal, Disturb, PollCancelled, Kill,
              ledgerVars
<1> QED
  BY <1>1, <1>2, <1>3, <1>4, <1>5 DEF Act, Execute, Continue

-----------------------------------------------------------------------------
(* Progress: what the newest holder has done that the ledger knows of. *)

\* The step the trainer is at, or the one before while it has a step to record.
SavedStep(w) == IF pc[w] = "record" THEN mark[w].current - 1 ELSE mark[w].current

\* The holder of the newest fence writes to an open operation whose record is up to date.
Holding(w) ==
  fence[w] = epoch /\ pc[w] \in Claimed =>
    /\ ~completed
    /\ Operation(w) \in DOMAIN ops
    /\ ~IsCommitted(Operation(w))
    /\ Progress(Operation(w)) = SavedStep(w) - call[w].handle.step

Sized(o) == o.input.step \in Nat /\ o.steps \in Nat

ProgressInv ==
  /\ \A o \in DOMAIN ops : Sized(o)
  /\ \A w \in Workers : Holding(w)

LEMMA ProgressRange ==
  ASSUME GraphInv, ProgressInv, NEW o \in DOMAIN ops
  PROVE  Progress(o) \in 0..o.steps
BY DEF GraphInv, OperationOK, InAdvance, ProgressInv, Sized, Progress, IsCommitted

LEMMA HeldOperation ==
  ASSUME GraphInv, NEW w \in Workers, pc[w] \in Claimed \cup {"claim"}
  PROVE  /\ Sized(Operation(w))
         /\ Operation(w).input.step = call[w].handle.step /\ Operation(w).steps = call[w].steps
         /\ call[w].handle.step \in Nat /\ Target(w) = call[w].handle.step + call[w].steps
         /\ call[w].handle.config = sessionConfig /\ call[w].steps \in Nat
         /\ pc[w] \in Claimed => mark[w].current \in call[w].handle.step .. Target(w)
<1>1. Ready(w) /\ (pc[w] \in Claimed => mark[w].current \in call[w].handle.step .. Target(w))
  BY DEF GraphInv, WorkerOK
<1>2. Operation(w).input.step = call[w].handle.step /\ Operation(w).steps = call[w].steps
  BY <1>1 DEF Ready, Operation, Manifest
<1> QED
  BY <1>1, <1>2 DEF Ready, Sized, Target

\* What a step does to the progress of operations.
Unmoved == DOMAIN ops' = DOMAIN ops /\ \A o \in DOMAIN ops : Progress(o)' = Progress(o)

\* Operation x is new, or gets further.
Moved(x, p) ==
  /\ DOMAIN ops' = DOMAIN ops \cup {x}
  /\ \A o \in DOMAIN ops \ {x} : Progress(o)' = Progress(o)
  /\ Progress(x)' = p

LEMMA ClaimProgress ==
  ASSUME GraphInv, NEW w \in Workers, Claim(w), ClaimAdvance(Operation(w), fence[w])
  PROVE  \E x, p : /\ x = Operation(w) /\ Moved(x, p) /\ ~IsCommitted(x)'
                   /\ p = IF ops'[x].recovery = Nil THEN 0 ELSE ops'[x].recovery.step - x.input.step
                   /\ p = IF x \in DOMAIN ops THEN Progress(x) ELSE 0
<1>1. PICK x, p : x = Operation(w) /\ p = IF x \in DOMAIN ops THEN Progress(x) ELSE 0
  OBVIOUS
<1>2. /\ ops' = [y \in DOMAIN ops \cup {x} |-> IF y = x THEN ClaimedRecord(x, fence[w]) ELSE ops[y]]
      /\ ~IsCommitted(x)
  BY <1>1 DEF Claim, ClaimAdvance
<1>3. /\ ops'[x].status = "started"
      /\ ops'[x].recovery = IF x \in DOMAIN ops THEN ops[x].recovery ELSE Nil
  <2>1. CASE x \in DOMAIN ops
    <3>1. ops'[x] = [ops[x] EXCEPT !.status = "started", !.fence = fence[w]]
      BY <1>2, <2>1 DEF ClaimedRecord
    <3> QED
      BY <2>1, <3>1 DEF GraphInv, OperationOK, RecordFields
  <2>2. CASE x \notin DOMAIN ops
    <3>1. ops'[x] = [status |-> "started", fence |-> fence[w], recovery |-> Nil,
                     output |-> Nil, step |-> 0, seq |-> 0]
      BY <1>2, <2>2 DEF ClaimedRecord
    <3> QED
      BY <2>2, <3>1
  <2> QED
    BY <2>1, <2>2
<1>4. \A o \in DOMAIN ops \ {x} : ops'[o] = ops[o] /\ o \in DOMAIN ops'
  BY <1>2
<1>5. \A o \in DOMAIN ops \ {x} : Progress(o)' = Progress(o)
  BY <1>4 DEF Progress, IsCommitted
<1>6. x \in DOMAIN ops' /\ ~IsCommitted(x)'
  BY <1>2, <1>3 DEF IsCommitted
<1>7. /\ p = IF ops'[x].recovery = Nil THEN 0 ELSE ops'[x].recovery.step - x.input.step
      /\ Progress(x)' = p
  BY <1>1, <1>2, <1>3, <1>6 DEF Progress
<1> QED
  BY <1>1, <1>2, <1>5, <1>6, <1>7 DEF Moved
=============================================================================
