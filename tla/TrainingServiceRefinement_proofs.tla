------------------ MODULE TrainingServiceRefinement_proofs ------------------
(***************************************************************************)
(* TrainingService implements CommittedTrajectory for every number of       *)
(* workers, of requests, of notes and of configurations, and answers a      *)
(* retried call as it answered the first.  Both rest on what an answer is:  *)
(* a copy of a committed record, and those never change.                    *)
(***************************************************************************)
EXTENDS TrainingServiceRefinement, TrainingService_proofs, SequenceTheorems

-----------------------------------------------------------------------------
(* The invariant. *)

AdvanceLabels == Claimed \cup {"claim", "answer"}

\* What kind of call is at each label.
KindOK(w) ==
  /\ pc[w] \in AdvanceLabels => call[w].kind = "advance"
  /\ pc[w] = "fence" => call[w].kind \in {"advance", "complete"}
  /\ pc[w] \in AdvanceLabels \cup {"fence"} /\ call[w].kind = "advance" =>
       call[w].steps \in Requests /\ call[w].note \in Notes
  /\ pc[w] = "seal" => call[w].kind = "complete"
  /\ pc[w] \in {"build", "register", "created"} => call[w].kind = "create"
  /\ pc[w] \in {"fence", "seal", "created"} => sessionConfig # Nil

AdvanceOf(op) == OperationId(op.handle, op.steps, op.note)

\* An answer copies the first row of the session, or the record of its advance.
AnswerOK(a) ==
  /\ a = [op |-> a.op, handle |-> a.handle]
  /\ a.op.kind \in {"create", "advance", "complete"}
  /\ a.op.kind = "create" => sessionConfig # Nil /\ a.handle = HandleOf(rows[1])
  /\ a.op.kind = "advance" =>
       /\ IsCommitted(AdvanceOf(a.op))
       /\ a.handle = OutcomeHandle(a.op.handle, ops[AdvanceOf(a.op)])

\* Rows are in the order of their steps, and a committed operation led from one row to
\* the next.
Ordered == \A i, j \in 1..Len(rows) : i < j => rows[i].step < rows[j].step

Led(o) ==
  \E i \in 1..Len(rows) :
    /\ i + 1 \in 1..Len(rows)
    /\ rows[i].manifest = o.input
    /\ rows[i + 1].manifest = ops[o].output

\* A session that is not there has no rows.
Unopened == sessionConfig = Nil => rows = <<>>

AnswersInv ==
  /\ Unopened
  /\ \A w \in Workers : KindOK(w)
  /\ \A a \in answers : AnswerOK(a)
  /\ Ordered
  /\ \A o \in DOMAIN ops : IsCommitted(o) => Led(o)

-----------------------------------------------------------------------------
(* What a step does to the ledger. *)

\* The first row of a session is added when it is registered.
Registered(w) ==
  /\ RegisterSession(w) /\ sessionConfig = Nil
  /\ sessionConfig' = call[w].config
  /\ rows' = <<[manifest |-> RootManifest(call[w].config), step |-> 0,
                seq |-> journal + 1, covered |-> journal]>>
  /\ ops' = ops

\* A further one by a commit.
NewRow(w) == [manifest |-> mark[w].resume, step |-> Target(w),
              seq |-> journal + 1, covered |-> mark[w].covered]

Committed(w) ==
  /\ Commit(w) /\ CommitAccepted(Operation(w), fence[w])
  /\ sessionConfig' = sessionConfig
  /\ rows' = Append(rows, NewRow(w))
  /\ ops' = [ops EXCEPT ![Operation(w)].status = "committed", ![Operation(w)].output = mark[w].resume,
                        ![Operation(w)].step = Target(w), ![Operation(w)].seq = journal + 1]

\* Any other step keeps the rows and what is committed.
Kept ==
  /\ sessionConfig' = sessionConfig /\ rows' = rows
  /\ \A o : IsCommitted(o)' <=> IsCommitted(o)
  /\ \A o : IsCommitted(o) => ops'[o] = ops[o]

LEMMA LedgerSteps ==
  ASSUME IInv, NEW w \in Workers, Act(w)
  PROVE  Registered(w) \/ Committed(w) \/ Kept
<1>1. UNCHANGED ledgerVars => Kept
  BY DEF ledgerVars, Kept, IsCommitted
<1>2. CASE Dispatch(w) \/ Disturb(w)
  BY <1>1, <1>2 DEF Dispatch, RejoinSession, StartCreate, StartAdvance, StartComplete, Begin, Disturb,
              PollCancelled, Fault, Crash, Raise
<1>3. CASE WriteInitial(w) \/ ReturnCreated(w) \/ ClaimReplayed(w) \/ LoadTrainer(w)
           \/ TrainStep(w) \/ WriteCheckpoint(w) \/ ReadCovered(w) \/ ReturnOutcome(w)
  BY <1>1, <1>3 DEF WriteInitial, ReturnCreated, ClaimReplayed, LoadTrainer, TrainStep, WriteCheckpoint,
              ReadCovered, ReturnOutcome
<1>4. CASE GetFence(w) \/ Seal(w)
  BY <1>1, <1>4 DEF GetFence, AcquireFence, Seal, CompleteSession, Raise, Kept, IsCommitted
<1>5. CASE RegisterSession(w)
  BY <1>1, <1>5 DEF RegisterSession, CreateSession, Raise, Registered, Kept, IsCommitted
<1>6. CASE Claim(w)
  <2>0. PICK o : o = Operation(w)
    OBVIOUS
  <2>1. CASE UNCHANGED ledgerVars
    BY <1>1, <2>1
  <2>2. CASE ~UNCHANGED ledgerVars
    <3>1. /\ ops' = [x \in DOMAIN ops \cup {o} |-> IF x = o THEN ClaimedRecord(o, fence[w]) ELSE ops[x]]
          /\ ~IsCommitted(o) /\ UNCHANGED <<sessionConfig, rows>>
      BY <1>6, <2>0, <2>2 DEF Claim, ClaimAdvance, Raise
    <3>2. ops'[o].status = "started"
      BY <3>1 DEF ClaimedRecord, IInv, OperationsOK, OperationOK, RecordFields
    <3> QED
      BY <3>1, <3>2 DEF Kept, IsCommitted
  <2> QED
    BY <2>1, <2>2
<1>7. CASE RecordRecovery(w)
  <2>0. PICK o : o = Operation(w)
    OBVIOUS
  <2>1. CASE UNCHANGED ledgerVars
    BY <1>1, <2>1
  <2>2. CASE ~UNCHANGED ledgerVars
    <3>1. /\ ops' = [ops EXCEPT ![o].recovery = mark[w].resume]
          /\ ~IsCommitted(o) /\ UNCHANGED <<sessionConfig, rows>>
      BY <1>7, <2>0, <2>2 DEF RecordRecovery, WriteAccepted, SetRecoveryCheckpoint, Raise
    <3>2. o \in DOMAIN ops => ops'[o].status = ops[o].status
      BY <3>1 DEF IInv, OperationsOK, OperationOK, RecordFields
    <3> QED
      BY <3>1, <3>2 DEF Kept, IsCommitted
  <2> QED
    BY <2>1, <2>2
<1>8. CASE Pause(w)
  <2>0. PICK o : o = Operation(w)
    OBVIOUS
  <2>1. CASE UNCHANGED ledgerVars
    BY <1>1, <2>1
  <2>2. CASE ~UNCHANGED ledgerVars
    <3>1. /\ ops' = [ops EXCEPT ![o].status = "paused"]
          /\ ~IsCommitted(o) /\ UNCHANGED <<sessionConfig, rows>>
      BY <1>8, <2>0, <2>2 DEF Pause, WriteAccepted, PauseAdvance
    <3>2. o \in DOMAIN ops => ops'[o].status = "paused"
      BY <3>1 DEF IInv, OperationsOK, OperationOK, RecordFields
    <3> QED
      BY <3>1, <3>2 DEF Kept, IsCommitted
  <2> QED
    BY <2>1, <2>2
<1>9. CASE Commit(w)
  BY <1>1, <1>9 DEF Commit, CommitAdvance, Raise, Committed, NewRow
<1> QED
  BY <1>2, <1>3, <1>4, <1>5, <1>6, <1>7, <1>8, <1>9 DEF Act, Continue

\* Rows added at the end leave the others where they are.
LEMMA Appended ==
  ASSUME IInv, NEW w \in Workers, Committed(w)
  PROVE  /\ Len(rows) \in Nat \ {0} /\ Len(rows') = Len(rows) + 1
         /\ rows'[Len(rows) + 1] = NewRow(w)
         /\ \A i \in 1..Len(rows) : i \in 1..Len(rows') /\ rows'[i] = rows[i]
         /\ \A i \in 1..Len(rows') : i \in 1..Len(rows) \/ i = Len(rows) + 1
         /\ sessionConfig # Nil
<1>1. sessionConfig # Nil
  BY DEF Committed, Commit, IInv, WorkersOK, WorkerOK, CallOK, Claimed
<1>2. \E S : rows \in Seq(S)
  BY DEF IInv, RowsOK
<1>3. /\ Len(rows) \in Nat /\ Len(Append(rows, NewRow(w))) = Len(rows) + 1
      /\ Append(rows, NewRow(w))[Len(rows) + 1] = NewRow(w)
      /\ \A i \in 1..Len(rows) : Append(rows, NewRow(w))[i] = rows[i]
  BY <1>2, AppendRow
<1>4. Len(rows) >= 1
  BY <1>1 DEF IInv, RowsOK
<1> QED
  BY <1>1, <1>3, <1>4 DEF Committed

\* What is committed stays as it is, and so does the first row.
LEMMA Permanent ==
  ASSUME IInv, NEW w \in Workers, Act(w)
  PROVE  /\ \A o : IsCommitted(o) => IsCommitted(o)' /\ ops'[o] = ops[o]
         /\ sessionConfig # Nil => sessionConfig' = sessionConfig /\ rows'[1] = rows[1]
<1>1. CASE Registered(w)
  BY <1>1 DEF Registered, IsCommitted
<1>2. CASE Committed(w)
  <2>0. PICK x : x = Operation(w)
    OBVIOUS
  <2>1. /\ ops' = [ops EXCEPT ![x].status = "committed", ![x].output = mark[w].resume,
                              ![x].step = Target(w), ![x].seq = journal + 1]
        /\ ~IsCommitted(x)
    BY <1>2, <2>0 DEF Committed, CommitAccepted, WriteAccepted
  <2>2. ASSUME NEW o, IsCommitted(o) PROVE IsCommitted(o)' /\ ops'[o] = ops[o]
    <3>1. o # x /\ o \in DOMAIN ops /\ ops[o].status = "committed"
      BY <2>1, <2>2 DEF IsCommitted
    <3>2. ops'[o] = ops[o] /\ DOMAIN ops' = DOMAIN ops
      BY <2>1, <3>1
    <3> QED
      BY <3>1, <3>2 DEF IsCommitted
  <2>3. sessionConfig' = sessionConfig /\ rows'[1] = rows[1]
    <3>1. 1 \in 1..Len(rows)
      BY <1>2, Appended
    <3> QED
      BY <1>2, <3>1, Appended DEF Committed
  <2> QED
    BY <2>2, <2>3
<1>3. CASE Kept
  BY <1>3 DEF Kept
<1> QED
  BY <1>1, <1>2, <1>3, LedgerSteps

-----------------------------------------------------------------------------
(* Calls and answers. *)

LEMMA OwnKind ==
  ASSUME IInv, AnswersInv, NEW w \in Workers, Act(w)
  PROVE  KindOK(w)'
<1>0. /\ KindOK(w)
      /\ sessionConfig # Nil => sessionConfig' # Nil
  BY Permanent DEF AnswersInv
\* A call that is over, and one that goes on with its call.
<1>1. ASSUME pc'[w] \in {"idle", "conflict"} PROVE KindOK(w)'
  BY <1>1 DEF KindOK, AdvanceLabels, Claimed
<1>2. CASE Dispatch(w)
  <2>1. ASSUME NEW c, NEW label, Begin(w, c, label)
        PROVE  call'[w] = c /\ pc'[w] = label /\ sessionConfig' = sessionConfig
    BY <2>1 DEF Begin, Goto, ledgerVars, IInv, TypeOK, ShapeOK
  <2>2. ASSUME NEW c \in Configs, RejoinSession(w, c) PROVE KindOK(w)'
    <3>1. pc'[w] = "idle"
      BY <2>2 DEF RejoinSession, Return, Leave, Goto, IInv, TypeOK
    <3> QED
      BY <1>1, <3>1
  <2>3. ASSUME NEW c \in Configs, StartCreate(w, c) PROVE KindOK(w)'
    <3>1. call'[w] = [kind |-> "create", config |-> c] /\ pc'[w] = "build"
      BY <2>1, <2>3 DEF StartCreate
    <3>2. call'[w].kind = "create"
      BY <3>1
    <3> QED
      BY <3>1, <3>2 DEF KindOK, AdvanceLabels, Claimed
  <2>4. ASSUME NEW h, NEW n \in Requests, NEW note \in Notes, StartAdvance(w, h, n, note) PROVE KindOK(w)'
    <3>1. /\ call'[w] = [kind |-> "advance", handle |-> h, steps |-> n, note |-> note]
          /\ pc'[w] = IF fence[w] = 0 THEN "fence" ELSE "claim"
          /\ sessionConfig' # Nil
      BY <2>1, <2>4 DEF StartAdvance, VerifyHandle
    <3>2. call'[w].kind = "advance" /\ call'[w].steps = n /\ call'[w].note = note
      BY <3>1
    <3> QED
      BY <3>1, <3>2 DEF KindOK, AdvanceLabels, Claimed
  <2>5. ASSUME NEW h, StartComplete(w, h) PROVE KindOK(w)'
    <3>1. /\ call'[w] = [kind |-> "complete", handle |-> h]
          /\ pc'[w] = IF fence[w] = 0 THEN "fence" ELSE "seal"
          /\ sessionConfig' # Nil
      BY <2>1, <2>5 DEF StartComplete, VerifyHandle
    <3>2. call'[w].kind = "complete"
      BY <3>1
    <3> QED
      BY <3>1, <3>2 DEF KindOK, AdvanceLabels, Claimed
  <2> QED
    BY <1>2, <2>2, <2>3, <2>4, <2>5 DEF Dispatch
<1>3. CASE WriteInitial(w)
  <2>1. pc[w] = "build" /\ pc'[w] = "register" /\ call' = call
    BY <1>3 DEF WriteInitial, Goto, IInv, TypeOK
  <2> QED
    BY <1>0, <2>1 DEF KindOK, AdvanceLabels, Claimed
<1>4. CASE RegisterSession(w)
  <2>1. CASE ~CreateAccepted(call[w].config)
    <3>1. pc'[w] = "idle"
      BY <1>4, <2>1 DEF RegisterSession, Raise, Leave, Goto, IInv, TypeOK
    <3> QED
      BY <1>1, <3>1
  <2>2. CASE CreateAccepted(call[w].config)
    <3>1. /\ pc[w] = "register" /\ pc'[w] = "created" /\ call' = call
          /\ call[w].config \in Configs
      BY <1>4, <2>2 DEF RegisterSession, Goto, IInv, TypeOK, WorkersOK, WorkerOK
    <3>2. sessionConfig' = call[w].config
      BY <1>4, <2>2 DEF RegisterSession, CreateSession, CreateAccepted
    <3> QED
      BY <1>0, <3>1, <3>2, ConstantsAssumption DEF KindOK, AdvanceLabels, Claimed
  <2> QED
    BY <2>1, <2>2
<1>5. CASE GetFence(w)
  <2>1. /\ pc[w] = "fence" /\ pc'[w] = IF call[w].kind = "advance" THEN "claim" ELSE "seal"
        /\ call' = call /\ sessionConfig' = sessionConfig
    BY <1>5 DEF GetFence, AcquireFence, Goto, IInv, TypeOK
  <2> QED
    BY <1>0, <2>1 DEF KindOK, AdvanceLabels, Claimed
<1>6. CASE ReturnCreated(w) \/ Pause(w) \/ ReturnOutcome(w) \/ Seal(w) \/ Fault(w) \/ Crash(w)
  <2>1. pc'[w] \in {"idle", "conflict"}
    BY <1>6 DEF ReturnCreated, Pause, ReturnOutcome, Seal, Fault, Crash, Return, Raise, Leave, Goto, IInv, TypeOK
  <2> QED
    BY <1>1, <2>1
<1>7. CASE \/ ClaimReplayed(w) \/ Claim(w) \/ LoadTrainer(w) \/ TrainStep(w) \/ WriteCheckpoint(w)
           \/ RecordRecovery(w) \/ ReadCovered(w) \/ Commit(w) \/ PollCancelled(w)
  <2>1. /\ pc[w] \in AdvanceLabels
        /\ pc'[w] \in {"idle", "conflict"} \/ (pc'[w] \in AdvanceLabels /\ call' = call)
    <3> USE DEF Raise, Leave, Goto, IInv, TypeOK, AdvanceLabels, Claimed
    <3>1. CASE ClaimReplayed(w) \/ Claim(w)
      BY <3>1 DEF ClaimReplayed, Claim
    <3>2. CASE LoadTrainer(w) \/ TrainStep(w)
      BY <3>2 DEF LoadTrainer, TrainStep
    <3>3. CASE WriteCheckpoint(w) \/ RecordRecovery(w)
      BY <3>3 DEF WriteCheckpoint, RecordRecovery
    <3>4. CASE ReadCovered(w) \/ Commit(w) \/ PollCancelled(w)
      BY <3>4 DEF ReadCovered, Commit, PollCancelled
    <3> QED
      BY <1>7, <3>1, <3>2, <3>3, <3>4
  <2>2. CASE pc'[w] \in AdvanceLabels /\ call' = call
    BY <1>0, <2>1, <2>2 DEF KindOK, AdvanceLabels, Claimed
  <2> QED
    BY <1>1, <2>1, <2>2
<1> QED
  BY <1>2, <1>3, <1>4, <1>5, <1>6, <1>7 DEF Act, Continue, Disturb

LEMMA KindsStep ==
  ASSUME IInv, AnswersInv, NEW w \in Workers, Act(w), NEW v \in Workers
  PROVE  KindOK(v)'
<1>1. CASE v = w
  BY <1>1, OwnKind
<1>2. CASE v # w
  <2>1. pc'[v] = pc[v] /\ call'[v] = call[v] /\ KindOK(v)
    BY <1>2, Alone DEF AnswersInv
  <2>2. sessionConfig # Nil => sessionConfig' # Nil
    BY Permanent
  <2> QED
    BY <2>1, <2>2 DEF KindOK, AdvanceLabels, Claimed
<1> QED
  BY <1>1, <1>2

\* An answer stays what it was.
LEMMA AnswersLast ==
  ASSUME IInv, NEW w \in Workers, Act(w), NEW a, AnswerOK(a)
  PROVE  AnswerOK(a)'
<1>1. /\ \A o : IsCommitted(o) => IsCommitted(o)' /\ ops'[o] = ops[o]
      /\ sessionConfig # Nil => sessionConfig' = sessionConfig /\ rows'[1] = rows[1]
  BY Permanent
<1>2. ASSUME a.op.kind = "create"
      PROVE  sessionConfig' # Nil /\ a.handle = HandleOf(rows[1])'
  BY <1>1, <1>2 DEF AnswerOK, HandleOf
<1>3. ASSUME a.op.kind = "advance"
      PROVE  /\ IsCommitted(AdvanceOf(a.op))'
             /\ a.handle = OutcomeHandle(a.op.handle, ops'[AdvanceOf(a.op)])
  <2>1. IsCommitted(AdvanceOf(a.op)) /\ a.handle = OutcomeHandle(a.op.handle, ops[AdvanceOf(a.op)])
    BY <1>3 DEF AnswerOK
  <2>2. AdvanceOf(a.op)' = AdvanceOf(a.op)
    BY DEF AdvanceOf, OperationId
  <2> QED
    BY <1>1, <2>1, <2>2
<1> QED
  BY <1>2, <1>3 DEF AnswerOK, OutcomeHandle, AdvanceOf, OperationId

\* A call that answers: which, and with what.
AnswersCall(w) == ReturnCreated(w) \/ ReturnOutcome(w) \/ Seal(w)

LEMMA NewAnswer ==
  ASSUME IInv, AnswersInv, NEW w \in Workers, Act(w), answers' # answers
  PROVE  \E a : answers' = answers \cup {a} /\ AnswerOK(a)
<1>0. KindOK(w) /\ WorkerOK(w)
  BY DEF AnswersInv, IInv, WorkersOK
<1>1. CASE ReturnCreated(w)
  <2>1. PICK a : a = [op |-> call[w], handle |-> HandleOf(rows[1])]
    OBVIOUS
  <2>2. call[w].kind = "create" /\ sessionConfig # Nil
    BY <1>0, <1>1 DEF ReturnCreated, KindOK
  <2>3. AnswerOK(a)
    BY <2>1, <2>2 DEF AnswerOK
  <2> QED
    BY <1>1, <2>1, <2>3 DEF ReturnCreated, Return
<1>2. CASE ReturnOutcome(w)
  <2>1. PICK a : a = [op |-> call[w], handle |-> OutcomeHandle(call[w].handle, ops[Operation(w)])]
    OBVIOUS
  <2>2. call[w].kind = "advance" /\ IsCommitted(Operation(w))
    BY <1>0, <1>2 DEF ReturnOutcome, KindOK, AdvanceLabels, WorkerOK
  <2>3. AdvanceOf(call[w]) = Operation(w)
    BY DEF AdvanceOf, Operation
  <2>4. AnswerOK(a)
    BY <2>1, <2>2, <2>3 DEF AnswerOK
  <2> QED
    BY <1>2, <2>1, <2>4 DEF ReturnOutcome, Return
<1>3. CASE Seal(w)
  <2>1. PICK a : a = [op |-> call[w], handle |-> HandleOf(HeadRow)]
    OBVIOUS
  <2>2. call[w].kind = "complete"
    BY <1>0, <1>3 DEF Seal, KindOK
  <2>3. AnswerOK(a)
    BY <2>1, <2>2 DEF AnswerOK
  <2> QED
    BY <1>3, <2>1, <2>3 DEF Seal, Return
<1>4. CASE Dispatch(w)
  <2>1. ASSUME NEW c \in Configs, RejoinSession(w, c)
        PROVE  \E a : answers' = answers \cup {a} /\ AnswerOK(a)
    <3>1. PICK a : a = [op |-> [kind |-> "create", config |-> c], handle |-> HandleOf(rows[1])]
      OBVIOUS
    <3>2. sessionConfig # Nil
      BY <2>1, ConstantsAssumption DEF RejoinSession
    <3>3. AnswerOK(a)
      BY <3>1, <3>2 DEF AnswerOK
    <3> QED
      BY <2>1, <3>1, <3>3 DEF RejoinSession, Return
  <2> QED
    BY <1>4, <2>1 DEF Dispatch, StartCreate, StartAdvance, StartComplete, Begin
<1>5. CASE Disturb(w)
  BY <1>5 DEF Disturb, PollCancelled, Fault, Crash
<1>6. CASE Continue(w) /\ ~AnswersCall(w)
  <2>1. CASE WriteInitial(w) \/ RegisterSession(w) \/ GetFence(w) \/ ClaimReplayed(w) \/ Claim(w)
    BY <2>1 DEF WriteInitial, RegisterSession, GetFence, ClaimReplayed, Claim
  <2>2. CASE LoadTrainer(w) \/ TrainStep(w) \/ WriteCheckpoint(w) \/ RecordRecovery(w)
    BY <2>2 DEF LoadTrainer, TrainStep, WriteCheckpoint, RecordRecovery
  <2>3. CASE Pause(w) \/ ReadCovered(w) \/ Commit(w)
    BY <2>3 DEF Pause, ReadCovered, Commit
  <2> QED
    BY <1>6, <2>1, <2>2, <2>3 DEF Continue, AnswersCall
<1> QED
  BY <1>1, <1>2, <1>3, <1>4, <1>5, <1>6 DEF Act, AnswersCall

LEMMA AnswersStep ==
  ASSUME IInv, AnswersInv, NEW w \in Workers, Act(w), NEW a \in answers'
  PROVE  AnswerOK(a)'
<1>1. CASE a \in answers
  BY <1>1, AnswersLast DEF AnswersInv
<1>2. CASE a \notin answers
  BY <1>2, NewAnswer, AnswersLast
<1> QED
  BY <1>1, <1>2

-----------------------------------------------------------------------------
(* Rows and committed operations. *)

\* A commit extends the session from its head, by as many steps as were asked for.
LEMMA FromHead ==
  ASSUME IInv, NEW w \in Workers, Committed(w)
  PROVE  /\ Operation(w).input = rows[Len(rows)].manifest
         /\ Operation(w) \in DOMAIN ops /\ OperationOK(Operation(w))
         /\ ~IsCommitted(Operation(w)) /\ ~completed
         /\ call[w].steps \in Nat \ {0}
         /\ \A i \in 1..Len(rows) : rows[i].step \in Nat
         /\ Target(w) = rows[Len(rows)].step + call[w].steps
<1>1. pc[w] = "commit" /\ CommitAccepted(Operation(w), fence[w])
  BY DEF Committed, Commit
<1>2. CallOK(w) /\ Operation(w) \in DOMAIN ops
  BY <1>1 DEF IInv, WorkersOK, WorkerOK, Claimed
<1>3. Operation(w).input = rows[Len(rows)].manifest /\ Operation(w).input = call[w].handle.manifest
  BY <1>1 DEF CommitAccepted, HeadRow, Operation, OperationId
<1>4. Len(rows) \in 1..Len(rows) /\ \A i \in 1..Len(rows) : RowOK(i)
  BY Appended DEF IInv, RowsOK
<1>5. rows[Len(rows)].step = call[w].handle.step
  BY <1>2, <1>3, <1>4 DEF RowOK, CallOK
<1>6. \A i \in 1..Len(rows) : rows[i].step \in Nat
  BY <1>4, ConstantsAssumption DEF RowOK
<1> QED
  BY <1>1, <1>2, <1>3, <1>5, <1>6 DEF CommitAccepted, WriteAccepted, CallOK, Target, IInv, OperationsOK

LEMMA OrderedStep ==
  ASSUME IInv, AnswersInv, NEW w \in Workers, Act(w)
  PROVE  Ordered'
<1>1. CASE Registered(w)
  <2>1. Len(rows') = 1
    BY <1>1, OneRow DEF Registered
  <2> QED
    BY <2>1 DEF Ordered
<1>2. CASE Committed(w)
  <2>1. ASSUME NEW i \in 1..Len(rows) PROVE rows[i].step < Target(w)
    <3>1. i = Len(rows) \/ i < Len(rows)
      BY <1>2, Appended
    <3>2. rows[i].step <= rows[Len(rows)].step
      BY <1>2, <3>1, FromHead, Appended DEF AnswersInv, Ordered
    <3> QED
      BY <1>2, <3>2, FromHead, Appended
  <2>2. SUFFICES ASSUME NEW i \in 1..Len(rows'), NEW j \in 1..Len(rows'), i < j
                 PROVE  rows'[i].step < rows'[j].step
    BY DEF Ordered
  <2>3. i \in 1..Len(rows)
    BY <1>2, <2>2, Appended
  <2>4. CASE j \in 1..Len(rows)
    BY <1>2, <2>2, <2>3, <2>4, Appended DEF AnswersInv, Ordered
  <2>5. CASE j = Len(rows) + 1
    <3>1. rows'[i] = rows[i] /\ rows'[j] = NewRow(w)
      BY <1>2, <2>3, <2>5, Appended
    <3> QED
      BY <2>1, <2>3, <3>1 DEF NewRow
  <2> QED
    BY <1>2, <2>4, <2>5, Appended
<1>3. CASE Kept
  BY <1>3 DEF Kept, AnswersInv, Ordered
<1> QED
  BY <1>1, <1>2, <1>3, LedgerSteps

LEMMA LedStep ==
  ASSUME IInv, AnswersInv, NEW w \in Workers, Act(w), NEW o, IsCommitted(o)'
  PROVE  Led(o)'
<1>1. CASE Registered(w)
  <2>1. IsCommitted(o) /\ Led(o)
    BY <1>1 DEF Registered, IsCommitted, AnswersInv
  <2>2. Len(rows) = 0
    BY <1>1 DEF Registered, AnswersInv, Unopened
  <2> QED
    BY <2>1, <2>2 DEF Led
<1>2. CASE Committed(w)
  <2>0. PICK x : x = Operation(w)
    OBVIOUS
  <2>1. CASE o = x
    <3>1. ops'[x].output = mark[w].resume
      BY <1>2, <2>0, FromHead DEF Committed, OperationOK, RecordFields
    <3>2. PICK n : n = Len(rows)
      OBVIOUS
    <3>3. n \in 1..Len(rows) /\ n \in 1..Len(rows') /\ n + 1 \in 1..Len(rows')
      BY <1>2, <3>2, Appended
    <3>4. rows'[n].manifest = x.input
      BY <1>2, <2>0, <3>2, <3>3, FromHead, Appended
    <3>5. rows'[n + 1] = NewRow(w)
      BY <1>2, <3>2, Appended
    <3>6. rows'[n + 1].manifest = mark[w].resume
      BY <3>5 DEF NewRow
    <3> QED
      BY <2>1, <3>1, <3>3, <3>4, <3>6 DEF Led
  <2>2. CASE o # x
    <3>1. o \in DOMAIN ops /\ ops'[o] = ops[o]
      BY <1>2, <2>0, <2>2 DEF Committed, IsCommitted
    <3>2. IsCommitted(o)
      BY <3>1 DEF IsCommitted
    <3>3. PICK i \in 1..Len(rows) : /\ i + 1 \in 1..Len(rows)
                                    /\ rows[i].manifest = o.input
                                    /\ rows[i + 1].manifest = ops[o].output
      BY <3>1, <3>2 DEF AnswersInv, Led
    <3> QED
      BY <1>2, <3>1, <3>3, Appended DEF Led
  <2> QED
    BY <2>1, <2>2
<1>3. CASE Kept
  <2>1. IsCommitted(o) /\ ops'[o] = ops[o] /\ rows' = rows
    BY <1>3 DEF Kept
  <2>2. Led(o)
    BY <2>1 DEF AnswersInv, IsCommitted
  <2> QED
    BY <2>1, <2>2 DEF Led
<1> QED
  BY <1>1, <1>2, <1>3, LedgerSteps

LEMMA UnopenedStep ==
  ASSUME IInv, AnswersInv, NEW w \in Workers, Act(w)
  PROVE  Unopened'
<1>1. CASE Registered(w)
  <2>1. call[w].config \in Configs
    BY <1>1 DEF Registered, RegisterSession, IInv, WorkersOK, WorkerOK
  <2> QED
    BY <1>1, <2>1, ConstantsAssumption DEF Registered, Unopened
<1>2. CASE Committed(w)
  BY <1>2, Appended DEF Committed, Unopened
<1>3. CASE Kept
  BY <1>3 DEF Kept, AnswersInv, Unopened
<1> QED
  BY <1>1, <1>2, <1>3, LedgerSteps

LEMMA AnswersInvariance == Spec => [](IInv /\ AnswersInv)
<1>1. Init => AnswersInv
  BY DEF Init, LedgerInit, AnswersInv, Unopened, KindOK, AdvanceLabels, Claimed, Ordered
<1>2. IInv /\ AnswersInv /\ [Next]_vars => AnswersInv'
  <2>1. ASSUME IInv, AnswersInv, NEW w \in Workers, Act(w) PROVE AnswersInv'
    <3>1. \A v \in Workers : KindOK(v)'
      BY <2>1, KindsStep
    <3>2. \A a \in answers' : AnswerOK(a)'
      BY <2>1, AnswersStep
    <3>3. Ordered'
      BY <2>1, OrderedStep
    <3>4. \A o \in DOMAIN ops' : IsCommitted(o)' => Led(o)'
      BY <2>1, LedStep
    <3> QED
      BY <2>1, <3>1, <3>2, <3>3, <3>4, UnopenedStep DEF AnswersInv
  <2>2. ASSUME AnswersInv, UNCHANGED vars PROVE AnswersInv'
    BY <2>2 DEF AnswersInv, Unopened, KindOK, AnswerOK, Ordered, Led, IsCommitted, AdvanceOf, OperationId, HandleOf,
                OutcomeHandle, vars, workerVars, ledgerVars
  <2> QED
    BY <2>1, <2>2, NextActs
<1> QED
  BY <1>1, <1>2, Invariance, PTL DEF Spec

\* A retried advance gets the handle the first call got, and so does a create that
\* rejoins its session, from any worker and after any number of further advances.
THEOREM ReplaysAgree == Spec => []ReplayAgrees
<1>1. AnswersInv => ReplayAgrees
  BY DEF AnswersInv, AnswerOK, ReplayAgrees
<1> QED
  BY <1>1, AnswersInvariance, PTL

-----------------------------------------------------------------------------
(* The refinement mapping. *)

\* What an operation contributes to the trajectory.
Contribution(o) ==
  [from |-> IndexOf(o.input), steps |-> o.steps, note |-> o.note, to |-> IndexOf(ops[o].output)]

LEMMA DoneMembers == ASSUME NEW d PROVE d \in Done <=> \E o : IsCommitted(o) /\ d = Contribution(o)
BY DEF Done, Contribution, IsCommitted

LEMMA DoneMembersNext ==
  ASSUME NEW d PROVE d \in Done' <=> \E o : IsCommitted(o)' /\ d = Contribution(o)'
BY DEF Done, Contribution, IsCommitted

\* Checkpoints of distinct steps are in one place.
LEMMA Position ==
  ASSUME NEW s, NEW i \in 1..Len(s), NEW m, s[i].manifest = m,
         \A j \in 1..Len(s) : s[j].manifest.step = s[j].step,
         \A j, k \in 1..Len(s) : j < k => s[j].step < s[k].step,
         \A j \in 1..Len(s) : s[j].step \in Nat,
         Len(s) \in Nat
  PROVE  (CHOOSE j \in 1..Len(s) : s[j].manifest = m) = i
<1>1. ASSUME NEW j \in 1..Len(s), s[j].manifest = m PROVE j = i
  <2>1. s[j].step = s[i].step
    BY <1>1
  <2>2. ~(i < j) /\ ~(j < i)
    BY <2>1
  <2> QED
    BY <2>2
<1> QED
  BY <1>1

LEMMA IndexOfRow ==
  ASSUME IInv, AnswersInv, NEW i \in 1..Len(rows) PROVE IndexOf(rows[i].manifest) = i
<1>1. /\ Len(rows) \in Nat
      /\ \A j \in 1..Len(rows) : rows[j].manifest.step = rows[j].step /\ rows[j].step \in Nat
  BY ConstantsAssumption DEF IInv, RowsOK, RowOK
<1>2. \A j, k \in 1..Len(rows) : j < k => rows[j].step < rows[k].step
  BY DEF AnswersInv, Ordered
<1> QED
  BY <1>1, <1>2, Position DEF IndexOf

LEMMA IndexOfRowNext ==
  ASSUME IInv', AnswersInv', NEW i \in 1..Len(rows'), NEW m, rows'[i].manifest = m
  PROVE  (CHOOSE j \in 1..Len(rows') : rows'[j].manifest = m) = i
<1>1. /\ Len(rows') \in Nat
      /\ \A j \in 1..Len(rows') : rows'[j].manifest.step = rows'[j].step /\ rows'[j].step \in Nat
  BY ConstantsAssumption DEF IInv, RowsOK, RowOK
<1>2. \A j, k \in 1..Len(rows') : j < k => rows'[j].step < rows'[k].step
  BY DEF AnswersInv, Ordered
<1> QED
  BY <1>1, <1>2, Position

\* Rows stay where they are, so a committed operation contributes what it did.
LEMMA ContributionKept ==
  ASSUME IInv, AnswersInv, IInv', AnswersInv', NEW w \in Workers, Act(w), NEW o, IsCommitted(o)
  PROVE  Contribution(o)' = Contribution(o)
<1>1. PICK i \in 1..Len(rows) : /\ i + 1 \in 1..Len(rows)
                                /\ rows[i].manifest = o.input
                                /\ rows[i + 1].manifest = ops[o].output
  BY DEF AnswersInv, Led, IsCommitted
<1>2. \A j \in 1..Len(rows) : j \in 1..Len(rows') /\ rows'[j] = rows[j]
  <2>1. CASE Registered(w)
    BY <1>1, <2>1 DEF Registered, AnswersInv, Unopened
  <2>2. CASE Committed(w)
    BY <2>2, Appended
  <2>3. CASE Kept
    BY <2>3 DEF Kept
  <2> QED
    BY <2>1, <2>2, <2>3, LedgerSteps
<1>3. ops'[o] = ops[o]
  BY Permanent
<1>4. IndexOf(o.input) = i /\ IndexOf(ops[o].output) = i + 1
  BY <1>1, IndexOfRow
<1>5. IndexOf(o.input)' = i
  <2>1. i \in 1..Len(rows') /\ rows'[i].manifest = o.input
    BY <1>1, <1>2
  <2> QED
    BY <2>1, IndexOfRowNext DEF IndexOf
<1>6. IndexOf(ops[o].output)' = i + 1
  <2>1. PICK m : m = ops[o].output
    OBVIOUS
  <2>2. i + 1 \in 1..Len(rows') /\ rows'[i + 1].manifest = m /\ ops'[o].output = m
    BY <1>1, <1>2, <1>3, <2>1
  <2> QED
    BY <2>2, IndexOfRowNext DEF IndexOf
<1> QED
  BY <1>3, <1>4, <1>5, <1>6 DEF Contribution

LEMMA AnsweredMembers ==
  ASSUME AnswersInv, NEW d
  PROVE  d \in Answered <=> \E a \in answers : a.op.kind = "advance" /\ d = Contribution(AdvanceOf(a.op))
<1>1. ASSUME NEW a \in answers, a.op.kind = "advance"
      PROVE  Contribution(AdvanceOf(a.op)) =
               [from |-> IndexOf(a.op.handle.manifest), steps |-> a.op.steps,
                note |-> a.op.note, to |-> IndexOf(a.handle.manifest)]
  <2>1. PICK o : o = AdvanceOf(a.op)
    OBVIOUS
  <2>2. o.input = a.op.handle.manifest /\ o.steps = a.op.steps /\ o.note = a.op.note
    BY <2>1 DEF AdvanceOf, OperationId
  <2>3. a.handle.manifest = ops[o].output
    <3>1. a.handle = OutcomeHandle(a.op.handle, ops[o])
      BY <1>1, <2>1 DEF AnswersInv, AnswerOK
    <3> QED
      BY <3>1 DEF OutcomeHandle
  <2> QED
    BY <2>1, <2>2, <2>3 DEF Contribution
<1> QED
  BY <1>1 DEF Answered, AdvanceAnswers

LEMMA AnsweredMembersNext ==
  ASSUME AnswersInv', NEW d
  PROVE  d \in Answered' <=> \E a \in answers' : a.op.kind = "advance" /\ d = Contribution(AdvanceOf(a.op))'
<1>1. ASSUME NEW a \in answers', a.op.kind = "advance"
      PROVE  Contribution(AdvanceOf(a.op))' =
               [from |-> IndexOf(a.op.handle.manifest)', steps |-> a.op.steps,
                note |-> a.op.note, to |-> IndexOf(a.handle.manifest)']
  <2>1. PICK o : o = AdvanceOf(a.op)
    OBVIOUS
  <2>2. o.input = a.op.handle.manifest /\ o.steps = a.op.steps /\ o.note = a.op.note
    BY <2>1 DEF AdvanceOf, OperationId
  <2>3. a.handle.manifest = ops'[o].output
    <3>1. AnswerOK(a)'
      BY <1>1 DEF AnswersInv
    <3>2. a.handle = OutcomeHandle(a.op.handle, ops'[o])
      BY <1>1, <2>1, <3>1 DEF AnswerOK, OutcomeHandle, AdvanceOf, OperationId
    <3> QED
      BY <3>2 DEF OutcomeHandle
  <2>4. Contribution(AdvanceOf(a.op))' = Contribution(o)'
    BY <2>1 DEF AdvanceOf, OperationId, Contribution
  <2> QED
    BY <2>2, <2>3, <2>4 DEF Contribution, IndexOf
<1> QED
  BY <1>1 DEF Answered, AdvanceAnswers

\* An answer to an advance keeps its place in the trajectory, and is of one that is done.
LEMMA AnswerKept ==
  ASSUME IInv, AnswersInv, IInv', AnswersInv', NEW w \in Workers, Act(w),
         NEW a, AnswerOK(a), a.op.kind = "advance"
  PROVE  /\ Contribution(AdvanceOf(a.op))' = Contribution(AdvanceOf(a.op))
         /\ Contribution(AdvanceOf(a.op)) \in Done
<1>1. PICK o : o = AdvanceOf(a.op)
  OBVIOUS
<1>2. IsCommitted(o)
  BY <1>1 DEF AnswerOK
<1>3. Contribution(AdvanceOf(a.op))' = Contribution(o)'
  BY <1>1 DEF AdvanceOf, OperationId, Contribution
<1> QED
  BY <1>1, <1>2, <1>3, ContributionKept, DoneMembers

LEMMA AnsweredStep ==
  ASSUME IInv, AnswersInv, IInv', AnswersInv', NEW w \in Workers, Act(w)
  PROVE  \/ Answered' = Answered
         \/ ~Seal(w) /\ answers' # answers /\ \E d \in Done : Answered' = Answered \cup {d}
<1>1. ASSUME NEW a \in answers, a.op.kind = "advance"
      PROVE  Contribution(AdvanceOf(a.op))' = Contribution(AdvanceOf(a.op))
  BY <1>1, AnswerKept DEF AnswersInv
<1>2. CASE answers' = answers
  <2>1. ASSUME NEW x PROVE x \in Answered' <=> x \in Answered
    BY <1>1, <1>2, AnsweredMembers, AnsweredMembersNext
  <2> QED
    BY <2>1
<1>3. ASSUME NEW a, answers' = answers \cup {a}, AnswerOK(a), a.op.kind # "advance"
      PROVE  Answered' = Answered
  <2>1. ASSUME NEW x PROVE x \in Answered' <=> x \in Answered
    BY <1>1, <1>3, AnsweredMembers, AnsweredMembersNext
  <2> QED
    BY <2>1
<1>4. ASSUME NEW a, answers' = answers \cup {a}, AnswerOK(a), a.op.kind = "advance"
      PROVE  \E d \in Done : Answered' = Answered \cup {d}
  <2>1. PICK d : d = Contribution(AdvanceOf(a.op))
    OBVIOUS
  <2>2. d \in Done /\ Contribution(AdvanceOf(a.op))' = d
    BY <1>4, <2>1, AnswerKept
  <2>3. ASSUME NEW x PROVE x \in Answered' <=> x \in Answered \/ x = d
    BY <1>1, <1>4, <2>1, <2>2, AnsweredMembers, AnsweredMembersNext
  <2>4. Answered' = Answered \cup {d}
    BY <2>3
  <2> QED
    BY <2>2, <2>4
<1>5. CASE Seal(w) /\ answers' # answers
  <2>1. PICK a : a = [op |-> call[w], handle |-> HandleOf(HeadRow)]
    OBVIOUS
  <2>2. call[w].kind = "complete"
    BY <1>5 DEF AnswersInv, KindOK, Seal
  <2>3. AnswerOK(a) /\ a.op.kind # "advance"
    BY <2>1, <2>2 DEF AnswerOK
  <2>4. answers' = answers \cup {a}
    BY <1>5, <2>1 DEF Seal, Return
  <2> QED
    BY <1>3, <2>3, <2>4
<1>6. CASE ~Seal(w) /\ answers' # answers
  BY <1>3, <1>4, <1>6, NewAnswer
<1> QED
  BY <1>2, <1>5, <1>6

\* Only a seal completes the session.
LEMMA CompletedStep ==
  ASSUME NEW w \in Workers, Act(w)
  PROVE  \/ completed' = completed
         \/ Seal(w) /\ completed' = TRUE
<1>1. CASE Dispatch(w) \/ Disturb(w)
  BY <1>1 DEF Dispatch, RejoinSession, StartCreate, StartAdvance, StartComplete, Begin, Disturb,
              PollCancelled, Fault, Crash, Raise, ledgerVars
<1>2. CASE WriteInitial(w) \/ ReturnCreated(w) \/ ClaimReplayed(w) \/ LoadTrainer(w)
           \/ TrainStep(w) \/ WriteCheckpoint(w) \/ ReadCovered(w) \/ ReturnOutcome(w)
  BY <1>2 DEF WriteInitial, ReturnCreated, ClaimReplayed, LoadTrainer, TrainStep, WriteCheckpoint,
              ReadCovered, ReturnOutcome, ledgerVars
<1>3. CASE RegisterSession(w) \/ GetFence(w)
  BY <1>3 DEF RegisterSession, CreateSession, GetFence, AcquireFence, Raise, ledgerVars
<1>4. CASE Claim(w) \/ RecordRecovery(w)
  BY <1>4 DEF Claim, ClaimAdvance, RecordRecovery, SetRecoveryCheckpoint, Raise, ledgerVars
<1>5. CASE Pause(w) \/ Commit(w)
  BY <1>5 DEF Pause, PauseAdvance, Commit, CommitAdvance, Raise, ledgerVars
<1>6. CASE Seal(w)
  BY <1>6 DEF Seal, CompleteSession, Raise, ledgerVars
<1> QED
  BY <1>1, <1>2, <1>3, <1>4, <1>5, <1>6 DEF Act, Continue

\* The step cursors of the rows, which are the trajectory.
Cursors == [i \in 1..Len(rows) |-> rows[i].step]

LEMMA CursorsStep ==
  ASSUME NEW n \in Nat, NEW s, NEW t, NEW steps,
         Len(s) = n, Len(t) = n + 1, n > 0,
         \A i \in 1..n : s[i].step \in Nat /\ t[i] = s[i],
         steps \in Nat, t[n + 1].step = s[n].step + steps
  PROVE  LET cursors == [i \in 1..Len(s) |-> s[i].step]
         IN  /\ Len(cursors) = n
             /\ [i \in 1..Len(t) |-> t[i].step] = Append(cursors, cursors[Len(cursors)] + steps)
<1> DEFINE cursors == [i \in 1..n |-> s[i].step]
           next == [i \in 1..n + 1 |-> t[i].step]
<1>1. cursors \in Seq(Nat) /\ Len(cursors) = n
  OBVIOUS
<1>2. cursors[n] = s[n].step /\ s[n].step + steps \in Nat
  OBVIOUS
<1>3. next \in Seq(Nat) /\ Len(next) = n + 1
  <2>1. \A i \in 1..n + 1 : t[i].step \in Nat
    BY <1>2
  <2> QED
    BY <2>1
<1>4. next = Append(cursors, s[n].step + steps)
  <2>1. PICK more : more = Append(cursors, s[n].step + steps)
    OBVIOUS
  <2>2. /\ more \in Seq(Nat) /\ Len(more) = n + 1 /\ more[n + 1] = s[n].step + steps
        /\ \A i \in 1..n : more[i] = cursors[i]
    BY <1>1, <1>2, <2>1, AppendProperties
  <2>3. \A i \in 1..n + 1 : next[i] = more[i]
    BY <2>2
  <2> QED
    BY <1>3, <2>1, <2>2, <2>3, SeqEqual
<1> QED
  BY <1>1, <1>2, <1>4

LEMMA DoneKept ==
  ASSUME IInv, AnswersInv, IInv', AnswersInv', NEW w \in Workers, Act(w),
         \A o : IsCommitted(o)' <=> IsCommitted(o)
  PROVE  Done' = Done
<1>1. ASSUME NEW d PROVE d \in Done' <=> d \in Done
  BY DoneMembers, DoneMembersNext, ContributionKept
<1> QED
  BY <1>1

LEMMA DoneByCommit ==
  ASSUME IInv, AnswersInv, IInv', AnswersInv', NEW w \in Workers, Act(w), Committed(w)
  PROVE  Done' = Done \cup {[from |-> Len(rows), steps |-> call[w].steps, note |-> call[w].note,
                             to |-> Len(rows) + 1]}
<1>1. PICK x : x = Operation(w)
  OBVIOUS
<1>2. /\ x \in DOMAIN ops /\ OperationOK(x)
      /\ ops' = [ops EXCEPT ![x].status = "committed", ![x].output = mark[w].resume,
                            ![x].step = Target(w), ![x].seq = journal + 1]
  BY <1>1, FromHead DEF Committed
<1>3. ops'[x].status = "committed" /\ ops'[x].output = mark[w].resume /\ x \in DOMAIN ops'
  BY <1>2 DEF OperationOK, RecordFields
<1>4. ASSUME NEW o PROVE IsCommitted(o)' <=> IsCommitted(o) \/ o = x
  <2>1. CASE o = x
    BY <1>3, <2>1 DEF IsCommitted
  <2>2. CASE o # x
    <3>1. (o \in DOMAIN ops' <=> o \in DOMAIN ops) /\ (o \in DOMAIN ops => ops'[o] = ops[o])
      BY <1>2, <2>2
    <3> QED
      BY <2>2, <3>1 DEF IsCommitted
  <2> QED
    BY <2>1, <2>2
<1>5. PICK n : n = Len(rows)
  OBVIOUS
<1>6. IndexOf(x.input)' = n
  <2>1. n \in 1..Len(rows') /\ rows'[n] = rows[n] /\ rows[n].manifest = x.input
    <3>1. n \in 1..Len(rows)
      BY <1>5, Appended
    <3> QED
      BY <1>1, <1>5, <3>1, Appended, FromHead
  <2> QED
    BY <2>1, IndexOfRowNext DEF IndexOf
<1>7. IndexOf(ops[x].output)' = n + 1
  <2>1. PICK m : m = mark[w].resume
    OBVIOUS
  <2>2. n + 1 \in 1..Len(rows') /\ rows'[n + 1] = NewRow(w)
    BY <1>5, Appended
  <2>3. rows'[n + 1].manifest = m
    BY <2>1, <2>2 DEF NewRow
  <2>4. ops'[x].output = m
    BY <1>3, <2>1
  <2> QED
    BY <2>2, <2>3, <2>4, IndexOfRowNext DEF IndexOf
<1>8. Contribution(x)' = [from |-> n, steps |-> call[w].steps, note |-> call[w].note, to |-> n + 1]
  <2>1. x.steps = call[w].steps /\ x.note = call[w].note
    BY <1>1 DEF Operation, OperationId
  <2> QED
    BY <1>6, <1>7, <2>1 DEF Contribution
<1>9. PICK d : d = [from |-> n, steps |-> call[w].steps, note |-> call[w].note, to |-> n + 1]
  OBVIOUS
<1>10. ASSUME NEW e PROVE e \in Done' <=> e \in Done \/ e = d
  BY <1>4, <1>8, <1>9, DoneMembers, DoneMembersNext, ContributionKept
<1>11. Done' = Done \cup {d}
  BY <1>10
<1> QED
  BY <1>5, <1>9, <1>11

-----------------------------------------------------------------------------
(* The refinement. *)

LEMMA OpenStep ==
  ASSUME IInv, AnswersInv, IInv', AnswersInv', NEW w \in Workers, Act(w), Registered(w)
  PROVE  \E c \in Configs : Trajectory!Open(c)
<1>1. PICK c \in Configs : c = call[w].config
  BY DEF Registered, RegisterSession, IInv, WorkersOK, WorkerOK
<1>2. Done' = Done
  <2>1. \A o : IsCommitted(o)' <=> IsCommitted(o)
    BY DEF Registered, IsCommitted
  <2> QED
    BY <2>1, DoneKept
<1>3. Answered' = Answered /\ completed' = completed
  <2>1. answers' = answers /\ completed' = completed
    BY DEF Registered, RegisterSession, CreateSession, Raise, ledgerVars
  <2> QED
    BY <2>1, AnsweredStep
<1>4. [i \in 1..Len(rows') |-> rows'[i].step] = <<0>>
  <2>1. PICK row : rows' = <<row>> /\ row.step = 0
    BY DEF Registered
  <2>2. Len(rows') = 1 /\ rows'[1].step = 0
    BY <2>1, OneRow
  <2> QED
    BY <2>2
<1> QED
  BY <1>1, <1>2, <1>3, <1>4 DEF Trajectory!Open, Registered

LEMMA AdvanceStep ==
  ASSUME IInv, AnswersInv, IInv', AnswersInv', NEW w \in Workers, Act(w), Committed(w)
  PROVE  \E n \in Requests, note \in Notes : Trajectory!Advance(n, note)
<1>1. PICK n \in Requests, note \in Notes : n = call[w].steps /\ note = call[w].note
  BY DEF Committed, Commit, AnswersInv, KindOK, AdvanceLabels, Claimed
<1>2. /\ n \in Nat /\ n >= 1 /\ ~completed /\ sessionConfig # Nil
      /\ sessionConfig' = sessionConfig /\ completed' = completed /\ answers' = answers
  <2>1. completed' = completed /\ answers' = answers
    BY DEF Committed, Commit, CommitAdvance, Raise, ledgerVars
  <2>2. call[w].steps \in Nat \ {0}
    BY FromHead
  <2>3. n \in Nat /\ n >= 1
    BY <1>1, <2>2
  <2> QED
    BY <2>1, <2>3, FromHead, Appended DEF Committed
<1>3. /\ Len(Cursors) = Len(rows)
      /\ [i \in 1..Len(rows') |-> rows'[i].step] = Append(Cursors, Cursors[Len(Cursors)] + n)
  <2>1. /\ Len(rows) \in Nat /\ Len(rows) > 0 /\ Len(rows') = Len(rows) + 1
        /\ \A i \in 1..Len(rows) : rows[i].step \in Nat /\ rows'[i] = rows[i]
        /\ rows'[Len(rows) + 1].step = rows[Len(rows)].step + n
    <3>1. rows'[Len(rows) + 1] = NewRow(w)
      BY Appended
    <3>2. rows'[Len(rows) + 1].step = Target(w)
      BY <3>1 DEF NewRow
    <3>3. Target(w) = rows[Len(rows)].step + n
      BY <1>1, FromHead
    <3>4. Len(rows) \in Nat /\ Len(rows) > 0 /\ Len(rows') = Len(rows) + 1
      BY Appended
    <3> QED
      BY <3>2, <3>3, <3>4, Appended, FromHead
  <2> QED
    BY <1>2, <2>1, CursorsStep DEF Cursors
<1>4. Done' = Done \cup {[from |-> Len(rows), steps |-> n, note |-> note, to |-> Len(rows) + 1]}
  BY <1>1, DoneByCommit
<1>5. Answered' = Answered
  BY <1>2, AnsweredStep
<1> QED
  BY <1>2, <1>3, <1>4, <1>5 DEF Trajectory!Advance, Cursors

\* Any other step gives an answer, completes the session or is no step of the trajectory.
LEMMA KeptStep ==
  ASSUME IInv, AnswersInv, IInv', AnswersInv', NEW w \in Workers, Act(w), Kept
  PROVE  [Trajectory!Next]_(Trajectory!vars)
<1>1. sessionConfig' = sessionConfig /\ rows' = rows /\ Done' = Done
  BY DoneKept DEF Kept
<1>2. CASE Answered' = Answered /\ completed' = completed
  BY <1>1, <1>2 DEF Trajectory!vars
<1>3. CASE Answered' = Answered /\ Seal(w) /\ completed' = TRUE
  <2>1. sessionConfig # Nil
    BY <1>3 DEF Seal, AnswersInv, KindOK
  <2>2. Trajectory!CompleteSession
    BY <1>1, <1>3, <2>1 DEF Trajectory!CompleteSession
  <2> QED
    BY <2>2 DEF Trajectory!Next
<1>4. CASE ~Seal(w) /\ \E d \in Done : Answered' = Answered \cup {d}
  <2>1. completed' = completed
    BY <1>4, CompletedStep
  <2>2. \E d \in Done : Trajectory!Answer(d)
    BY <1>1, <1>4, <2>1 DEF Trajectory!Answer
  <2> QED
    BY <2>2 DEF Trajectory!Next
<1> QED
  BY <1>2, <1>3, <1>4, AnsweredStep, CompletedStep

\* The service implements the exactly-once trajectory: whatever is killed, faulted, paused
\* or retried, a step of it opens the session, advances it once from its head, answers with
\* an advance that took effect, completes it, or is invisible to its callers.
THEOREM Implements == Spec => ImplementsTrajectory
<1>1. Init => Trajectory!Init
  <2> SUFFICES ASSUME Init PROVE Trajectory!Init
    OBVIOUS
  <2>1. sessionConfig = Nil /\ completed = FALSE /\ Len(rows) = 0
    BY DEF Init, LedgerInit
  <2>2. [i \in 1..Len(rows) |-> rows[i].step] = <<>>
    BY <2>1
  <2>3. Done = {} /\ Answered = {}
    BY DEF Init, LedgerInit, Done, Answered, AdvanceAnswers
  <2> QED
    BY <2>1, <2>2, <2>3 DEF Trajectory!Init
<1>2. IInv /\ AnswersInv /\ IInv' /\ AnswersInv' /\ [Next]_vars => [Trajectory!Next]_(Trajectory!vars)
  <2>1. ASSUME IInv, AnswersInv, IInv', AnswersInv', NEW w \in Workers, Act(w)
        PROVE  [Trajectory!Next]_(Trajectory!vars)
    <3>1. CASE Registered(w)
      BY <2>1, <3>1, OpenStep DEF Trajectory!Next
    <3>2. CASE Committed(w)
      BY <2>1, <3>2, AdvanceStep DEF Trajectory!Next
    <3>3. CASE Kept
      BY <2>1, <3>3, KeptStep
    <3> QED
      BY <2>1, <3>1, <3>2, <3>3, LedgerSteps
  <2>2. ASSUME UNCHANGED vars PROVE [Trajectory!Next]_(Trajectory!vars)
    <3>1. Done' = Done /\ Answered' = Answered
      BY <2>2 DEF Done, Answered, AdvanceAnswers, IndexOf, IsCommitted, vars, ledgerVars
    <3> QED
      BY <2>2, <3>1 DEF Trajectory!vars, vars, ledgerVars
  <2> QED
    BY <2>1, <2>2, NextActs
<1> QED
  BY <1>1, <1>2, AnswersInvariance, PTL DEF Spec, ImplementsTrajectory, Trajectory!Spec

-----------------------------------------------------------------------------
(* What the service inherits from the promise it keeps. *)

Promise == INSTANCE CommittedTrajectory_proofs WITH
  config <- sessionConfig,
  trajectory <- [i \in 1..Len(rows) |-> rows[i].step],
  sealed <- completed,
  done <- Done,
  answered <- Answered

\* Of the calls that compete for a head one commits: each committed checkpoint is the work of one
\* operation, for any number of workers, retries, takeovers and kills.
THEOREM CommitsOnce == Spec => []AdvancesOnce
<1>1. ImplementsTrajectory => Promise!Spec
  BY DEF ImplementsTrajectory, Trajectory!Spec, Trajectory!Init, Trajectory!Next, Trajectory!vars,
         Trajectory!Open, Trajectory!Advance, Trajectory!Answer, Trajectory!CompleteSession,
         Promise!Spec, Promise!Init, Promise!Next, Promise!vars,
         Promise!Open, Promise!Advance, Promise!Answer, Promise!CompleteSession
<1>2. Promise!Spec => []Promise!ExactlyOnce
  BY Promise!OnceEach, ConstantsAssumption
<1>3. Promise!ExactlyOnce => AdvancesOnce
  BY DEF AdvancesOnce, Trajectory!ExactlyOnce, Promise!ExactlyOnce
<1> QED
  BY <1>1, <1>2, <1>3, Implements, PTL
=============================================================================
