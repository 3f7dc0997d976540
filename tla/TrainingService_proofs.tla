------------------------ MODULE TrainingService_proofs ------------------------
(***************************************************************************)
(* The safety of TrainingService for every number of workers, of steps, of  *)
(* kills, pauses and faults.  One inductive invariant carries it: what each *)
(* worker holds between two of its steps (WorkerOK), what each claimed      *)
(* operation records (OperationOK) and what the committed rows are (RowOK). *)
(* A second one (FenceInv) adds what only the holder of the fence may know. *)
(***************************************************************************)
EXTENDS TrainingService, TLAPS

-----------------------------------------------------------------------------
(* The inductive invariant. *)

Faithful(m) == m.step \in Nat /\ Uninterrupted(Restored(m), m.step)

\* A stored checkpoint a worker may publish for operation o.
OnPath(m, o) ==
  /\ m \in files
  /\ m.parent = o.input
  /\ m.config = o.input.config
  /\ m.step \in o.input.step .. (o.input.step + o.steps)
  /\ Faithful(m)

RowOK(i) ==
  /\ rows[i].manifest \in files
  /\ rows[i].step \in 0..MaxStep
  /\ rows[i].manifest.step = rows[i].step
  /\ Faithful(rows[i].manifest)
  /\ i = 1 => rows[i].manifest.parent = Nil
  /\ i > 1 => /\ rows[i].manifest.parent = rows[i - 1].manifest
              /\ rows[i].step > rows[i - 1].step

RowsOK ==
  /\ \E S : rows \in Seq(S)
  /\ sessionConfig # Nil => Len(rows) >= 1
  /\ \A i \in 1..Len(rows) : RowOK(i)

RecordFields == {"status", "fence", "recovery", "output", "step", "seq"}

OperationOK(o) ==
  /\ DOMAIN ops[o] = RecordFields
  /\ ops[o].status \in {"started", "paused", "committed"}
  /\ o.input.step \in Nat /\ o.steps \in Nat \ {0}
  /\ ops[o].recovery # Nil => OnPath(ops[o].recovery, o)
  /\ ops[o].status = "committed" =>
       /\ OnPath(ops[o].output, o)
       /\ ops[o].output.step = o.input.step + o.steps
       /\ ops[o].step = ops[o].output.step

OperationsOK == \A o \in DOMAIN ops : OperationOK(o)

Claimed == {"load", "poll", "write", "record", "pauseWrite", "pauseRecord", "pause",
            "cover", "commit"}
Loaded == Claimed \ {"load", "pause"}

\* The call is an advance, from a committed checkpoint of the session.
CallOK(w) ==
  /\ sessionConfig # Nil
  /\ call[w].steps \in Nat \ {0}
  /\ call[w].handle.step \in Nat
  /\ Target(w) <= MaxStep
  /\ call[w].handle.manifest \in files
  /\ call[w].handle.manifest.step = call[w].handle.step
  /\ call[w].handle.manifest.config = call[w].handle.config
  /\ Faithful(call[w].handle.manifest)

WorkerOK(w) ==
  /\ pc[w] # "conflict"
  /\ pc[w] \in {"build", "register"} => call[w].config \in Configs
  /\ pc[w] = "register" => RootManifest(call[w].config) \in files
  /\ pc[w] \in Claimed \cup {"claim", "answer"} => CallOK(w)
  /\ pc[w] = "fence" /\ call[w].kind = "advance" => CallOK(w)
  /\ pc[w] \in Claimed => Operation(w) \in DOMAIN ops
  /\ pc[w] \in Claimed =>
       mark[w].resume = call[w].handle.manifest \/ OnPath(mark[w].resume, Operation(w))
  /\ pc[w] \in Loaded =>
       /\ trainer[w].step \in call[w].handle.step .. Target(w)
       /\ Uninterrupted(trainer[w], trainer[w].step)
  /\ pc[w] \in {"record", "pauseRecord"} =>
       OnPath(mark[w].resume, Operation(w)) /\ mark[w].resume.step = trainer[w].step
  /\ pc[w] \in {"poll", "cover", "commit"} /\ trainer[w].step = Target(w) =>
       OnPath(mark[w].resume, Operation(w)) /\ mark[w].resume.step = Target(w)
  /\ pc[w] = "commit" => trainer[w].step = Target(w)
  /\ pc[w] = "answer" => IsCommitted(Operation(w))

WorkersOK == \A w \in Workers : WorkerOK(w)

\* Operations are never forgotten, and a committed one stays committed.
LedgerGrows ==
  /\ DOMAIN ops \subseteq DOMAIN ops'
  /\ \A o : IsCommitted(o) => IsCommitted(o)'

MarkFields == {"resume", "step", "published", "covered"}

\* The variables are functions over the workers; numbers are in their ranges.
ShapeOK ==
  /\ DOMAIN call = Workers /\ DOMAIN trainer = Workers /\ DOMAIN mark = Workers
  /\ \A w \in Workers : DOMAIN mark[w] = MarkFields

IInv == TypeOK /\ ShapeOK /\ RowsOK /\ OperationsOK /\ WorkersOK

-----------------------------------------------------------------------------
(* Lemmas about trainer states and manifests. *)

\* The root checkpoint is a faithful state: no update absorbed.
LEMMA RootFaithful ==
  ASSUME NEW c
  PROVE  /\ Faithful(RootManifest(c))
         /\ RootManifest(c).step = 0
         /\ RootManifest(c).parent = Nil
         /\ RootManifest(c).config = c
BY ConstantsAssumption DEF Faithful, Uninterrupted, Restored, RootManifest, ManifestOf, FreshTrainer

\* An optimizer step takes an uninterrupted state to the next one.
LEMMA TrainedFaithful ==
  ASSUME NEW t, t.step \in Nat, Uninterrupted(t, t.step)
  PROVE  /\ Trained(t).step = t.step + 1
         /\ Uninterrupted(Trained(t), t.step + 1)
<1>1. (t.step + 1) * Accumulation = t.step * Accumulation + Accumulation
  BY ConstantsAssumption
<1> QED
  BY <1>1, ConstantsAssumption DEF Trained, Uninterrupted

\* A sequence of one row, and a row appended to a sequence.
LEMMA OneRow ==
  ASSUME NEW row
  PROVE  Len(<<row>>) = 1 /\ \E S : <<row>> \in Seq(S)
<1>1. <<row>> \in Seq({row})
  OBVIOUS
<1> QED
  BY <1>1

LEMMA AppendRow ==
  ASSUME NEW s, NEW row, \E S : s \in Seq(S)
  PROVE  /\ \E S : Append(s, row) \in Seq(S)
         /\ Len(s) \in Nat
         /\ Len(Append(s, row)) = Len(s) + 1
         /\ Append(s, row)[Len(s) + 1] = row
         /\ \A i \in 1..Len(s) : Append(s, row)[i] = s[i]
<1>1. PICK S : s \in Seq(S)
  OBVIOUS
<1>2. s \in Seq(S \cup {row})
  BY <1>1
<1>3. Append(s, row) \in Seq(S \cup {row})
  BY <1>2
<1> QED
  BY <1>2, <1>3

\* What a worker writes is a faithful child of its input checkpoint.
LEMMA PublishedOnPath ==
  ASSUME NEW w, CallOK(w),
         trainer[w].step \in call[w].handle.step .. Target(w),
         Uninterrupted(trainer[w], trainer[w].step)
  PROVE  LET m == PublishedManifest(w) IN
           /\ m.parent = Operation(w).input
           /\ m.config = Operation(w).input.config
           /\ m.step = trainer[w].step
           /\ m.step \in Operation(w).input.step .. (Operation(w).input.step + Operation(w).steps)
           /\ Faithful(m)
BY ConstantsAssumption DEF CallOK, Target, Operation, OperationId, PublishedManifest, ManifestOf,
   Faithful, Uninterrupted, Restored

-----------------------------------------------------------------------------
(* Frame lemmas: what a step that leaves a part alone preserves. *)

\* The ledger's part of the invariant survives writes to the store.
LEMMA LedgerFrame ==
  ASSUME RowsOK, OperationsOK, UNCHANGED ledgerVars, files \subseteq files'
  PROVE  /\ RowsOK' /\ OperationsOK'
         /\ LedgerGrows
<1>1. RowsOK'
  BY DEF RowsOK, RowOK, ledgerVars, Faithful, Uninterrupted, Restored
<1>2. OperationsOK'
  BY DEF OperationsOK, OperationOK, OnPath, ledgerVars, Faithful, Uninterrupted, Restored
<1> QED
  BY <1>1, <1>2 DEF IsCommitted, LedgerGrows, ledgerVars

\* A step of one worker leaves the others as they were.
LEMMA OthersFrame ==
  ASSUME WorkersOK, NEW w \in Workers,
         files \subseteq files',
         sessionConfig # Nil => sessionConfig' # Nil,
         LedgerGrows,
         \A v \in Workers \ {w} : /\ pc'[v] = pc[v] /\ call'[v] = call[v]
                                  /\ trainer'[v] = trainer[v] /\ mark'[v] = mark[v],
         WorkerOK(w)'
  PROVE  WorkersOK'
<1> SUFFICES ASSUME NEW v \in Workers \ {w} PROVE WorkerOK(v)'
  BY DEF WorkersOK
<1>1. WorkerOK(v)
  BY DEF WorkersOK
<1>2. Operation(v)' = Operation(v) /\ Target(v)' = Target(v)
  BY DEF Operation, OperationId, Target
<1>3. CallOK(v) => CallOK(v)'
  BY <1>2 DEF CallOK, Faithful, Uninterrupted, Restored
<1>4. \A m : OnPath(m, Operation(v)) => OnPath(m, Operation(v))'
  BY <1>2 DEF OnPath, Faithful, Uninterrupted, Restored
<1>5. /\ IsCommitted(Operation(v)) => IsCommitted(Operation(v))'
      /\ Operation(v) \in DOMAIN ops => (Operation(v) \in DOMAIN ops)'
  BY <1>2 DEF IsCommitted, LedgerGrows
<1> QED
  BY <1>1, <1>2, <1>3, <1>4, <1>5 DEF WorkerOK, Uninterrupted, RootManifest, Claimed, Loaded

\* A call that ends leaves nothing of its locals behind.
LEMMA LeaveStep ==
  ASSUME TypeOK, ShapeOK, NEW w \in Workers, Leave(w, "idle"), journal' \in Nat,
         journal' >= journal
  PROVE  /\ WorkerOK(w)' /\ ShapeOK'
         /\ pc' \in [Workers -> Labels]
         /\ \A v \in Workers : /\ trainer'[v] # Nil => trainer'[v].step \in 0..MaxStep
                               /\ mark'[v].covered \in 0..journal'
                               /\ mark'[v].step \in 0..MaxStep
         /\ \A v \in Workers \ {w} : /\ pc'[v] = pc[v] /\ call'[v] = call[v]
                                     /\ trainer'[v] = trainer[v] /\ mark'[v] = mark[v]
<1>1. pc'[w] = "idle" /\ trainer'[w] = Nil /\ mark'[w] = NoMark
  BY DEF Leave, Goto, TypeOK, ShapeOK
<1>2. WorkerOK(w)'
  BY <1>1 DEF WorkerOK, Claimed, Loaded
<1>3. ShapeOK'
  BY <1>1 DEF Leave, ShapeOK, NoMark, MarkFields
<1>4. pc' \in [Workers -> Labels]
  BY DEF Leave, Goto, TypeOK, Labels
<1>5. \A v \in Workers \ {w} : /\ pc'[v] = pc[v] /\ call'[v] = call[v]
                               /\ trainer'[v] = trainer[v] /\ mark'[v] = mark[v]
  BY DEF Leave, Goto, TypeOK, ShapeOK
<1>6. \A v \in Workers : /\ trainer'[v] # Nil => trainer'[v].step \in 0..MaxStep
                         /\ mark'[v].covered \in 0..journal'
                         /\ mark'[v].step \in 0..MaxStep
  BY <1>1, <1>5, ConstantsAssumption DEF TypeOK, NoMark
<1> QED
  BY <1>2, <1>3, <1>4, <1>5, <1>6

\* An exception or an early end of a call that changes nothing durable.
LEMMA RaiseStep ==
  ASSUME IInv, NEW w \in Workers, Leave(w, "idle"), UNCHANGED ledgerVars,
         files' = files, fence' = fence,
         crashes' \in 0..MaxCrashes, cancels' \in 0..MaxCancels, faults' \in 0..MaxFaults
  PROVE  IInv'
<1>1. RowsOK' /\ OperationsOK' /\ LedgerGrows
  BY LedgerFrame DEF IInv
<1>2. journal' \in Nat /\ journal' >= journal /\ sessionConfig' = sessionConfig
  BY DEF IInv, TypeOK, ledgerVars
<1>3. WorkersOK'
  BY <1>1, <1>2, LeaveStep, OthersFrame DEF IInv
<1>4. TypeOK' /\ ShapeOK'
  BY <1>2, LeaveStep DEF IInv, TypeOK, ledgerVars
<1> QED
  BY <1>1, <1>3, <1>4 DEF IInv

\* A step inside one call: the ledger, the fence and the budgets are left
\* alone, the store may grow.
LEMMA InsideStep ==
  ASSUME IInv, NEW w \in Workers, UNCHANGED ledgerVars, UNCHANGED budgetVars,
         files \subseteq files', fence' = fence,
         ShapeOK', pc' \in [Workers -> Labels], WorkerOK(w)',
         trainer'[w] # Nil => trainer'[w].step \in 0..MaxStep,
         mark'[w].covered \in 0..journal, mark'[w].step \in 0..MaxStep,
         \A v \in Workers \ {w} : /\ pc'[v] = pc[v] /\ call'[v] = call[v]
                                  /\ trainer'[v] = trainer[v] /\ mark'[v] = mark[v]
  PROVE  IInv'
<1>1. RowsOK' /\ OperationsOK' /\ LedgerGrows
  BY LedgerFrame DEF IInv
<1>2. sessionConfig' = sessionConfig
  BY DEF ledgerVars
<1>3. WorkersOK'
  BY <1>1, <1>2, OthersFrame DEF IInv
<1>4. TypeOK'
  BY DEF IInv, TypeOK, ledgerVars, budgetVars
<1> QED
  BY <1>1, <1>3, <1>4 DEF IInv

-----------------------------------------------------------------------------
(* create *)

LEMMA BeginStep ==
  ASSUME IInv, NEW w \in Workers, NEW c, NEW label \in Labels, Begin(w, c, label),
         WorkerOK(w)'
  PROVE  IInv'
<1>1. ShapeOK' /\ pc' \in [Workers -> Labels]
  BY DEF IInv, Begin, Goto, ShapeOK, TypeOK
<1>2. /\ trainer'[w] # Nil => trainer'[w].step \in 0..MaxStep
      /\ mark'[w].covered \in 0..journal /\ mark'[w].step \in 0..MaxStep
      /\ \A v \in Workers \ {w} : /\ pc'[v] = pc[v] /\ call'[v] = call[v]
                                  /\ trainer'[v] = trainer[v] /\ mark'[v] = mark[v]
  BY DEF IInv, Begin, Goto, ShapeOK, TypeOK
<1> QED
  BY <1>1, <1>2, InsideStep DEF Begin

LEMMA RejoinSessionStep ==
  ASSUME IInv, NEW w \in Workers, NEW c \in Configs, RejoinSession(w, c)
  PROVE  IInv'
BY RaiseStep DEF IInv, TypeOK, RejoinSession, Return, budgetVars

LEMMA StartCreateStep ==
  ASSUME IInv, NEW w \in Workers, NEW c \in Configs, StartCreate(w, c)
  PROVE  IInv'
<1>1. pc'[w] = "build" /\ call'[w].config = c
  BY DEF StartCreate, Begin, Goto, IInv, TypeOK, ShapeOK
<1>2. WorkerOK(w)'
  BY <1>1 DEF WorkerOK, Claimed, Loaded
<1> QED
  BY <1>2, BeginStep DEF StartCreate, Labels

LEMMA WriteInitialStep ==
  ASSUME IInv, NEW w \in Workers, WriteInitial(w)
  PROVE  IInv'
<1>1. /\ pc'[w] = "register" /\ call'[w].config \in Configs
      /\ RootManifest(call'[w].config) \in files'
  BY DEF WriteInitial, Goto, IInv, TypeOK, WorkersOK, WorkerOK
<1>2. WorkerOK(w)'
  BY <1>1 DEF WorkerOK, Claimed, Loaded
<1>3. ShapeOK' /\ pc' \in [Workers -> Labels]
  BY DEF WriteInitial, Goto, IInv, TypeOK, ShapeOK, Labels
<1>4. /\ trainer'[w] # Nil => trainer'[w].step \in 0..MaxStep
      /\ mark'[w].covered \in 0..journal /\ mark'[w].step \in 0..MaxStep
      /\ \A v \in Workers \ {w} : /\ pc'[v] = pc[v] /\ call'[v] = call[v]
                                  /\ trainer'[v] = trainer[v] /\ mark'[v] = mark[v]
  BY DEF WriteInitial, Goto, IInv, TypeOK
<1> QED
  BY <1>2, <1>3, <1>4, InsideStep DEF WriteInitial, budgetVars

\* The first row of a session is the root checkpoint its creator has written.
LEMMA RegisterSessionStep ==
  ASSUME IInv, NEW w \in Workers, RegisterSession(w)
  PROVE  IInv'
<1> DEFINE c == call[w].config
<1>1. c \in Configs /\ RootManifest(c) \in files /\ pc[w] = "register"
  BY DEF RegisterSession, IInv, WorkersOK, WorkerOK
<1>2. CASE ~CreateAccepted(c)
  BY <1>2, RaiseStep DEF RegisterSession, IInv, TypeOK, Raise, budgetVars
<1>3. CASE CreateAccepted(c)
  <2>1. /\ CreateSession(c, RootManifest(c)) /\ Goto(w, "created")
        /\ UNCHANGED <<call, trainer, mark, files, fence, answers, budgetVars>>
    BY <1>3 DEF RegisterSession
  <2>2. sessionConfig' # Nil
    BY <1>1, <2>1, <1>3, ConstantsAssumption DEF CreateSession, CreateAccepted
  <2>3. RowsOK'
    <3>1. CASE sessionConfig = Nil
      <4>1. rows' = <<[manifest |-> RootManifest(c), step |-> 0,
                       seq |-> journal + 1, covered |-> journal]>>
        BY <2>1, <3>1 DEF CreateSession
      <4>2. RowOK(1)'
        BY <1>1, <2>1, <4>1, RootFaithful, ConstantsAssumption DEF RowOK, Faithful, Uninterrupted, Restored
      <4>3. Len(rows') = 1 /\ \E S : rows' \in Seq(S)
        BY <4>1, OneRow
      <4> QED
        BY <4>2, <4>3 DEF RowsOK
    <3>2. CASE sessionConfig # Nil
      BY <2>1, <3>2 DEF CreateSession, RowsOK, RowOK, IInv, Faithful, Uninterrupted, Restored
    <3> QED
      BY <3>1, <3>2
  <2>4. OperationsOK' /\ LedgerGrows
    BY <2>1 DEF CreateSession, OperationsOK, OperationOK, OnPath, IsCommitted, LedgerGrows, IInv,
                Faithful, Uninterrupted, Restored
  <2>5. /\ pc'[w] = "created" /\ pc' \in [Workers -> Labels] /\ ShapeOK'
        /\ \A v \in Workers \ {w} : /\ pc'[v] = pc[v] /\ call'[v] = call[v]
                                    /\ trainer'[v] = trainer[v] /\ mark'[v] = mark[v]
    BY <2>1 DEF Goto, IInv, TypeOK, ShapeOK, Labels
  <2>6. WorkersOK'
    <3>1. WorkerOK(w)'
      BY <2>5 DEF WorkerOK, Claimed, Loaded
    <3> QED
      BY <2>1, <2>2, <2>4, <2>5, <3>1, OthersFrame DEF IInv
  <2>7. TypeOK'
    <3>1. sessionConfig' \in Configs \cup {Nil} /\ journal' \in Nat /\ journal' >= journal
      BY <1>1, <2>1 DEF CreateSession, IInv, TypeOK
    <3>2. \A i \in 1..Len(rows') : rows'[i].step \in 0..MaxStep
      BY <2>3 DEF RowsOK, RowOK
    <3> QED
      BY <2>1, <2>5, <3>1, <3>2 DEF CreateSession, IInv, TypeOK, budgetVars
  <2> QED
    BY <2>3, <2>4, <2>5, <2>6, <2>7 DEF IInv
<1> QED
  BY <1>2, <1>3

LEMMA ReturnCreatedStep ==
  ASSUME IInv, NEW w \in Workers, ReturnCreated(w)
  PROVE  IInv'
BY RaiseStep DEF IInv, TypeOK, ReturnCreated, Return, budgetVars

-----------------------------------------------------------------------------
(* advance *)

\* A verified handle names a committed row, and so a faithful checkpoint.
LEMMA VerifiedHandle ==
  ASSUME IInv, NEW h, VerifyHandle(h)
  PROVE  /\ sessionConfig # Nil
         /\ h.step \in 0..MaxStep
         /\ h.manifest \in files
         /\ h.manifest.step = h.step
         /\ h.manifest.config = h.config
         /\ Faithful(h.manifest)
BY DEF IInv, VerifyHandle, RowsOK, RowOK

LEMMA StartAdvanceStep ==
  ASSUME IInv, NEW w \in Workers, NEW h, NEW n \in Requests, NEW note \in Notes,
         StartAdvance(w, h, n, note)
  PROVE  IInv'
<1> DEFINE c == [kind |-> "advance", handle |-> h, steps |-> n, note |-> note]
           label == IF fence[w] = 0 THEN "fence" ELSE "claim"
<1>1. Begin(w, c, label)
  BY DEF StartAdvance
<1>2. /\ call'[w] = c /\ pc'[w] = label
      /\ sessionConfig' = sessionConfig /\ files' = files
  BY <1>1 DEF Begin, Goto, IInv, TypeOK, ShapeOK, ledgerVars
<1>3. CallOK(w)'
  <2>1. n \in Nat \ {0} /\ h.step + n <= MaxStep /\ VerifyHandle(h)
    BY ConstantsAssumption DEF StartAdvance
  <2>2. Target(w)' = h.step + n
    BY <1>2 DEF Target
  <2> QED
    BY <1>2, <2>1, <2>2, VerifiedHandle, ConstantsAssumption DEF CallOK
<1>4. WorkerOK(w)'
  BY <1>2, <1>3 DEF WorkerOK, Claimed, Loaded
<1>5. label \in Labels
  BY DEF Labels
<1> HIDE DEF c, label
<1> QED
  BY <1>1, <1>4, <1>5, BeginStep

LEMMA GetFenceStep ==
  ASSUME IInv, NEW w \in Workers, GetFence(w)
  PROVE  IInv'
<1>1. /\ UNCHANGED <<sessionConfig, rows, completed, ops, journal>>
      /\ UNCHANGED <<files, call, trainer, mark, answers, budgetVars>>
      /\ epoch' = epoch + 1 /\ fence' = [fence EXCEPT ![w] = epoch']
      /\ pc' = [pc EXCEPT ![w] = IF call[w].kind = "advance" THEN "claim" ELSE "seal"]
      /\ pc[w] = "fence"
  BY DEF GetFence, AcquireFence, Goto
<1>2. RowsOK' /\ OperationsOK' /\ LedgerGrows
  BY <1>1 DEF IInv, RowsOK, RowOK, OperationsOK, OperationOK, OnPath, IsCommitted, LedgerGrows,
              Faithful, Uninterrupted, Restored
<1>3. WorkerOK(w)'
  <2>1. call[w].kind = "advance" => CallOK(w)'
    BY <1>1 DEF IInv, WorkersOK, WorkerOK, CallOK, Target, Faithful, Uninterrupted, Restored
  <2>2. pc'[w] = IF call[w].kind = "advance" THEN "claim" ELSE "seal"
    BY <1>1 DEF IInv, TypeOK
  <2> QED
    BY <2>1, <2>2 DEF WorkerOK, Claimed, Loaded
<1>4. WorkersOK'
  <2>1. \A v \in Workers \ {w} : pc'[v] = pc[v]
    BY <1>1 DEF IInv, TypeOK
  <2> QED
    BY <1>1, <1>2, <1>3, <2>1, OthersFrame DEF IInv
<1>5. TypeOK' /\ ShapeOK'
  BY <1>1 DEF IInv, TypeOK, ShapeOK, Labels, budgetVars
<1> QED
  BY <1>2, <1>4, <1>5 DEF IInv

LEMMA ClaimReplayedStep ==
  ASSUME IInv, NEW w \in Workers, ClaimReplayed(w)
  PROVE  IInv'
<1>1. /\ UNCHANGED <<ledgerVars, files, fence, call, trainer, mark, answers, budgetVars>>
      /\ pc' = [pc EXCEPT ![w] = "answer"]
      /\ pc[w] = "claim" /\ IsCommitted(Operation(w))
  BY DEF ClaimReplayed, Goto
<1>2. WorkerOK(w)'
  <2>1. CallOK(w)'
    BY <1>1 DEF IInv, WorkersOK, WorkerOK, CallOK, Target, Faithful, Uninterrupted, Restored,
                ledgerVars
  <2>2. IsCommitted(Operation(w))'
    BY <1>1 DEF IsCommitted, Operation, OperationId, ledgerVars
  <2>3. pc'[w] = "answer"
    BY <1>1 DEF IInv, TypeOK
  <2> QED
    BY <2>1, <2>2, <2>3 DEF WorkerOK, Claimed, Loaded
<1>3. ShapeOK' /\ pc' \in [Workers -> Labels] /\ \A v \in Workers \ {w} : pc'[v] = pc[v]
  BY <1>1 DEF IInv, TypeOK, ShapeOK, Labels
<1>4. /\ trainer[w] # Nil => trainer[w].step \in 0..MaxStep
      /\ mark[w].covered \in 0..journal /\ mark[w].step \in 0..MaxStep
  BY DEF IInv, TypeOK
<1> QED
  BY <1>1, <1>2, <1>3, <1>4, InsideStep

\* A write about one uncommitted operation leaves the others, and every
\* committed one, as they were.
LEMMA OperationFrame ==
  ASSUME OperationsOK, NEW o, ~IsCommitted(o), files \subseteq files',
         DOMAIN ops \subseteq DOMAIN ops', DOMAIN ops' \subseteq DOMAIN ops \cup {o},
         \A x \in DOMAIN ops' \ {o} : ops'[x] = ops[x],
         o \in DOMAIN ops' => OperationOK(o)'
  PROVE  OperationsOK' /\ LedgerGrows
<1>1. ASSUME NEW x \in DOMAIN ops' \ {o} PROVE OperationOK(x)'
  BY <1>1 DEF OperationsOK, OperationOK, OnPath, Faithful, Uninterrupted, Restored
<1>2. OperationsOK'
  BY <1>1 DEF OperationsOK
<1>3. LedgerGrows
  BY DEF IsCommitted, LedgerGrows
<1> QED
  BY <1>2, <1>3

\* A step that writes one operation of the ledger and its journal, and nothing
\* else that is shared.
LEMMA OperationStep ==
  ASSUME IInv, NEW w \in Workers, NEW o, ~IsCommitted(o),
         UNCHANGED <<sessionConfig, rows, completed, epoch, files, fence, budgetVars>>,
         journal' \in Nat, journal' >= journal,
         DOMAIN ops \subseteq DOMAIN ops', DOMAIN ops' \subseteq DOMAIN ops \cup {o},
         \A x \in DOMAIN ops' \ {o} : ops'[x] = ops[x],
         o \in DOMAIN ops' => OperationOK(o)',
         ShapeOK', pc' \in [Workers -> Labels], WorkerOK(w)',
         trainer'[w] # Nil => trainer'[w].step \in 0..MaxStep,
         mark'[w].covered \in 0..journal', mark'[w].step \in 0..MaxStep,
         \A v \in Workers \ {w} : /\ pc'[v] = pc[v] /\ call'[v] = call[v]
                                  /\ trainer'[v] = trainer[v] /\ mark'[v] = mark[v]
  PROVE  IInv'
<1>1. OperationsOK' /\ LedgerGrows
  BY OperationFrame DEF IInv
<1>2. RowsOK'
  BY DEF IInv, RowsOK, RowOK, Faithful, Uninterrupted, Restored
<1>3. WorkersOK'
  BY <1>1, OthersFrame DEF IInv
<1>4. \A v \in Workers : /\ trainer'[v] # Nil => trainer'[v].step \in 0..MaxStep
                         /\ mark'[v].covered \in 0..journal'
                         /\ mark'[v].step \in 0..MaxStep
  <2>1. ASSUME NEW v \in Workers \ {w}
        PROVE  /\ trainer[v] # Nil => trainer[v].step \in 0..MaxStep
               /\ mark[v].covered \in 0..journal'
               /\ mark[v].step \in 0..MaxStep
    <3>1. mark[v].covered \in 0..journal /\ journal \in Nat
      BY DEF IInv, TypeOK
    <3> QED
      BY <3>1 DEF IInv, TypeOK
  <2> QED
    BY <2>1
<1>5. \A x \in DOMAIN ops' : ops'[x].status \in {"started", "paused", "committed"}
  BY <1>1 DEF OperationsOK, OperationOK
<1>6. TypeOK'
  BY <1>4, <1>5 DEF IInv, TypeOK, budgetVars
<1> QED
  BY <1>1, <1>2, <1>3, <1>6 DEF IInv

LEMMA ClaimStep ==
  ASSUME IInv, NEW w \in Workers, Claim(w)
  PROVE  IInv'
<1>0. PICK o : o = Operation(w)
  OBVIOUS
<1>1. pc[w] = "claim" /\ ~IsCommitted(o) /\ CallOK(w)
  BY <1>0 DEF Claim, IInv, WorkersOK, WorkerOK
<1>2. CASE ~ClaimAccepted(o, fence[w])
  BY <1>0, <1>2, RaiseStep DEF Claim, Raise, IInv, TypeOK, budgetVars
<1>3. CASE ClaimAccepted(o, fence[w])
  <2>1. /\ ClaimAdvance(o, fence[w])
        /\ mark' = [mark EXCEPT ![w].resume = ResumeFrom(ops'[o], call[w].handle),
                                ![w].published = ops'[o].recovery # Nil]
        /\ Goto(w, "load")
        /\ UNCHANGED <<call, trainer, files, fence, answers, budgetVars>>
    BY <1>0, <1>3 DEF Claim
  <2>2. /\ DOMAIN ops' = DOMAIN ops \cup {o}
        /\ ops'[o] = ClaimedRecord(o, fence[w])
        /\ \A x \in DOMAIN ops' \ {o} : ops'[x] = ops[x]
        /\ journal' \in Nat /\ journal' >= journal
        /\ UNCHANGED <<sessionConfig, rows, completed, epoch>>
    BY <2>1 DEF ClaimAdvance, IInv, TypeOK
  <2>3. OperationOK(o)'
    <3>1. o.input.step \in Nat /\ o.steps \in Nat \ {0}
      BY <1>0, <1>1 DEF CallOK, Operation, OperationId
    <3>2. CASE o \in DOMAIN ops
      <4>1. OperationOK(o)
        BY <3>2 DEF IInv, OperationsOK
      <4>2. /\ DOMAIN ops'[o] = RecordFields /\ ops'[o].status = "started"
            /\ ops'[o].recovery = ops[o].recovery
        BY <2>2, <3>2, <4>1 DEF ClaimedRecord, OperationOK, RecordFields
      <4> QED
        BY <2>1, <3>1, <4>1, <4>2 DEF OperationOK, OnPath, Faithful, Uninterrupted, Restored
    <3>3. CASE o \notin DOMAIN ops
      <4>1. /\ DOMAIN ops'[o] = RecordFields /\ ops'[o].status = "started"
            /\ ops'[o].recovery = Nil
        BY <2>2, <3>3 DEF ClaimedRecord, RecordFields
      <4> QED
        BY <3>1, <4>1 DEF OperationOK
    <3> QED
      BY <3>2, <3>3
  <2>4. /\ pc'[w] = "load" /\ pc' \in [Workers -> Labels] /\ ShapeOK'
        /\ mark'[w].resume = ResumeFrom(ops'[o], call[w].handle)
        /\ mark'[w].covered = mark[w].covered /\ mark'[w].step = mark[w].step
        /\ \A v \in Workers \ {w} : /\ pc'[v] = pc[v] /\ call'[v] = call[v]
                                    /\ trainer'[v] = trainer[v] /\ mark'[v] = mark[v]
    BY <2>1 DEF Goto, IInv, TypeOK, ShapeOK, MarkFields, Labels
  <2>5. CallOK(w)' /\ Operation(w)' = o
    BY <1>0, <1>1, <2>1, <2>2 DEF CallOK, Target, Operation, OperationId, Faithful, Uninterrupted, Restored
  <2>6. (mark[w].resume = call[w].handle.manifest \/ OnPath(mark[w].resume, o))'
    BY <2>1, <2>2, <2>3, <2>4 DEF ResumeFrom, OperationOK
  <2>7. WorkerOK(w)'
    BY <2>2, <2>4, <2>5, <2>6 DEF WorkerOK, Claimed, Loaded
  <2>8. /\ trainer'[w] # Nil => trainer'[w].step \in 0..MaxStep
        /\ mark'[w].covered \in 0..journal' /\ mark'[w].step \in 0..MaxStep
    BY <2>1, <2>2, <2>4 DEF IInv, TypeOK
  <2> QED
    BY <1>1, <2>1, <2>2, <2>3, <2>4, <2>7, <2>8, OperationStep
<1> QED
  BY <1>2, <1>3

\* What a worker knows of its call survives a step that keeps the call.
LEMMA CallFrame ==
  ASSUME NEW w \in Workers, call'[w] = call[w], files \subseteq files',
         sessionConfig # Nil => sessionConfig' # Nil,
         DOMAIN ops \subseteq DOMAIN ops'
  PROVE  /\ CallOK(w) => CallOK(w)'
         /\ Operation(w)' = Operation(w) /\ Target(w)' = Target(w)
         /\ Operation(w) \in DOMAIN ops => (Operation(w) \in DOMAIN ops)'
         /\ \A m : OnPath(m, Operation(w)) => OnPath(m, Operation(w))'
<1>1. Operation(w)' = Operation(w) /\ Target(w)' = Target(w)
  BY DEF Operation, OperationId, Target
<1>2. CallOK(w) => CallOK(w)'
  BY <1>1 DEF CallOK, Faithful, Uninterrupted, Restored
<1>3. \A m : OnPath(m, Operation(w)) => OnPath(m, Operation(w))'
  BY <1>1 DEF OnPath, Faithful, Uninterrupted, Restored
<1> QED
  BY <1>1, <1>2, <1>3

\* The resumed state lies inside the advance: the range check never fails, and
\* where there is nothing left to run the checkpoint to commit is at hand.
LEMMA LoadTrainerStep ==
  ASSUME IInv, NEW w \in Workers, LoadTrainer(w)
  PROVE  IInv'
<1> DEFINE t == Restored(mark[w].resume)
<1>1. /\ pc[w] = "load" /\ CallOK(w) /\ Operation(w) \in DOMAIN ops
      /\ mark[w].resume = call[w].handle.manifest \/ OnPath(mark[w].resume, Operation(w))
  BY DEF LoadTrainer, IInv, WorkersOK, WorkerOK, Claimed
<1>2. /\ t.step \in call[w].handle.step .. Target(w)
      /\ Uninterrupted(t, t.step)
      /\ t.step = mark[w].resume.step
      /\ t.step = Target(w) => OnPath(mark[w].resume, Operation(w))
  BY <1>1 DEF CallOK, OnPath, Operation, OperationId, Target, Faithful, Uninterrupted, Restored
<1>3. InAdvance(w, t.step)
  BY <1>1, <1>2 DEF InAdvance, CallOK, Target
<1>4. /\ trainer' = [trainer EXCEPT ![w] = t]
      /\ mark' = [mark EXCEPT ![w].step = t.step]
      /\ pc' = [pc EXCEPT ![w] = IF t.step < Target(w) THEN "poll" ELSE "cover"]
      /\ UNCHANGED <<call, ledgerVars, files, fence, answers, budgetVars>>
  BY <1>3 DEF LoadTrainer, Goto
<1> HIDE DEF t
<1>5. /\ trainer'[w] = t /\ mark'[w].step = t.step
      /\ mark'[w].resume = mark[w].resume /\ mark'[w].covered = mark[w].covered
      /\ pc'[w] \in {"poll", "cover"} /\ pc' \in [Workers -> Labels] /\ ShapeOK'
      /\ \A v \in Workers \ {w} : /\ pc'[v] = pc[v] /\ call'[v] = call[v]
                                  /\ trainer'[v] = trainer[v] /\ mark'[v] = mark[v]
  BY <1>4 DEF IInv, TypeOK, ShapeOK, MarkFields, Labels
<1>6. t.step \in 0..MaxStep
  BY <1>1, <1>2, ConstantsAssumption DEF CallOK, Target
<1>7. WorkerOK(w)'
  <2>1. /\ CallOK(w)' /\ (Operation(w) \in DOMAIN ops)' /\ Target(w)' = Target(w)
        /\ \A m : OnPath(m, Operation(w)) => OnPath(m, Operation(w))'
    BY <1>1, <1>4, CallFrame DEF ledgerVars
  <2>2. /\ trainer'[w].step \in call'[w].handle.step .. Target(w)'
        /\ Uninterrupted(trainer[w], trainer[w].step)'
    BY <1>2, <1>4, <1>5, <2>1 DEF Uninterrupted
  <2>3. (mark[w].resume = call[w].handle.manifest \/ OnPath(mark[w].resume, Operation(w)))'
    BY <1>1, <1>4, <1>5, <2>1
  <2>4. (trainer[w].step = Target(w) =>
           OnPath(mark[w].resume, Operation(w)) /\ mark[w].resume.step = Target(w))'
    BY <1>2, <1>5, <2>1
  <2> QED
    BY <1>5, <2>1, <2>2, <2>3, <2>4 DEF WorkerOK, Claimed, Loaded
<1>8. mark'[w].covered \in 0..journal
  BY <1>5 DEF IInv, TypeOK
<1> QED
  BY <1>4, <1>5, <1>6, <1>7, <1>8, InsideStep

LEMMA PollCancelledStep ==
  ASSUME IInv, NEW w \in Workers, PollCancelled(w)
  PROVE  IInv'
<1>1. /\ pc[w] = "poll"
      /\ pc' = [pc EXCEPT ![w] = IF MustPublish(w) THEN "pauseWrite" ELSE "pause"]
      /\ UNCHANGED <<ledgerVars, files, fence, call, trainer, mark, answers, crashes, faults>>
      /\ cancels < MaxCancels /\ cancels' = cancels + 1
  BY DEF PollCancelled, Goto
<1>2. /\ pc'[w] \in {"pauseWrite", "pause"} /\ pc' \in [Workers -> Labels] /\ ShapeOK'
      /\ \A v \in Workers \ {w} : pc'[v] = pc[v]
  BY <1>1 DEF IInv, TypeOK, ShapeOK, Labels
<1>3. WorkerOK(w)'
  <2>1. /\ CallOK(w)' /\ (Operation(w) \in DOMAIN ops)' /\ Target(w)' = Target(w)
        /\ \A m : OnPath(m, Operation(w)) => OnPath(m, Operation(w))'
    BY <1>1, CallFrame DEF ledgerVars, IInv, WorkersOK, WorkerOK, Claimed
  <2>2. (mark[w].resume = call[w].handle.manifest \/ OnPath(mark[w].resume, Operation(w)))'
    BY <1>1, <2>1 DEF IInv, WorkersOK, WorkerOK, Claimed
  <2>3. /\ trainer'[w].step \in call'[w].handle.step .. Target(w)'
        /\ Uninterrupted(trainer[w], trainer[w].step)'
    BY <1>1, <2>1 DEF IInv, WorkersOK, WorkerOK, Claimed, Loaded, Uninterrupted
  <2> QED
    BY <1>2, <2>1, <2>2, <2>3 DEF WorkerOK, Claimed, Loaded
<1>4. RowsOK' /\ OperationsOK' /\ LedgerGrows
  BY <1>1, LedgerFrame DEF IInv
<1>5. WorkersOK'
  BY <1>1, <1>2, <1>3, <1>4, OthersFrame DEF IInv, ledgerVars
<1>6. TypeOK'
  BY <1>1, <1>2, ConstantsAssumption DEF IInv, TypeOK, ledgerVars
<1> QED
  BY <1>2, <1>4, <1>5, <1>6 DEF IInv

LEMMA TrainStepStep ==
  ASSUME IInv, NEW w \in Workers, TrainStep(w)
  PROVE  IInv'
<1> DEFINE t == Trained(trainer[w])
<1>1. /\ pc[w] = "poll" /\ CallOK(w) /\ Operation(w) \in DOMAIN ops /\ trainer[w].step < Target(w)
      /\ trainer[w].step \in call[w].handle.step .. Target(w)
      /\ Uninterrupted(trainer[w], trainer[w].step)
      /\ mark[w].resume = call[w].handle.manifest \/ OnPath(mark[w].resume, Operation(w))
  BY DEF TrainStep, IInv, WorkersOK, WorkerOK, Claimed, Loaded
<1>2. Target(w) \in Nat /\ trainer[w].step \in Nat /\ Target(w) <= MaxStep
  BY <1>1 DEF CallOK, Target
<1>3. t.step = trainer[w].step + 1 /\ Uninterrupted(t, t.step)
  BY <1>1, <1>2, TrainedFaithful
<1>4. /\ trainer' = [trainer EXCEPT ![w] = t]
      /\ pc' = [pc EXCEPT ![w] = IF PublishDue(w, t.step) THEN "write" ELSE "poll"]
      /\ UNCHANGED <<ledgerVars, files, fence, call, mark, answers, budgetVars>>
  BY DEF TrainStep, Goto
<1> HIDE DEF t
<1>5. /\ trainer'[w] = t
      /\ pc'[w] = IF PublishDue(w, t.step) THEN "write" ELSE "poll"
      /\ pc' \in [Workers -> Labels] /\ ShapeOK'
      /\ \A v \in Workers \ {w} : pc'[v] = pc[v] /\ trainer'[v] = trainer[v]
  BY <1>4 DEF IInv, TypeOK, ShapeOK, Labels
<1>6. t.step \in 0..MaxStep
  BY <1>1, <1>2, <1>3, ConstantsAssumption
<1>7. WorkerOK(w)'
  <2>1. /\ CallOK(w)' /\ (Operation(w) \in DOMAIN ops)' /\ Target(w)' = Target(w)
        /\ \A m : OnPath(m, Operation(w)) => OnPath(m, Operation(w))'
    BY <1>1, <1>4, CallFrame DEF ledgerVars
  <2>2. /\ trainer'[w].step \in call'[w].handle.step .. Target(w)'
        /\ Uninterrupted(trainer[w], trainer[w].step)'
    BY <1>1, <1>2, <1>3, <1>4, <1>5, <2>1 DEF Uninterrupted, CallOK
  <2>3. (mark[w].resume = call[w].handle.manifest \/ OnPath(mark[w].resume, Operation(w)))'
    BY <1>1, <1>4, <2>1
  <2>4. pc'[w] = "poll" => trainer'[w].step # Target(w)'
    BY <1>5, <2>1 DEF PublishDue
  <2> QED
    BY <1>5, <2>1, <2>2, <2>3, <2>4 DEF WorkerOK, Claimed, Loaded
<1>8. mark[w].covered \in 0..journal /\ mark[w].step \in 0..MaxStep
  BY DEF IInv, TypeOK
<1> QED
  BY <1>4, <1>5, <1>6, <1>7, <1>8, InsideStep

LEMMA WriteCheckpointStep ==
  ASSUME IInv, NEW w \in Workers, WriteCheckpoint(w)
  PROVE  IInv'
<1>0. PICK m : m = PublishedManifest(w)
  OBVIOUS
<1>1. /\ pc[w] \in {"write", "pauseWrite"} /\ CallOK(w) /\ Operation(w) \in DOMAIN ops
      /\ trainer[w].step \in call[w].handle.step .. Target(w)
      /\ Uninterrupted(trainer[w], trainer[w].step)
  BY DEF WriteCheckpoint, IInv, WorkersOK, WorkerOK, Claimed, Loaded
<1>2. /\ files' = files \cup {m}
      /\ mark' = [mark EXCEPT ![w].resume = m]
      /\ pc' = [pc EXCEPT ![w] = IF pc[w] = "write" THEN "record" ELSE "pauseRecord"]
      /\ UNCHANGED <<ledgerVars, fence, call, trainer, answers, budgetVars>>
  BY <1>0 DEF WriteCheckpoint, Goto
<1>3. /\ m.step = trainer[w].step
      /\ m.parent = Operation(w).input
      /\ m.config = Operation(w).input.config
      /\ m.step \in Operation(w).input.step .. (Operation(w).input.step + Operation(w).steps)
      /\ Faithful(m)
  BY <1>0, <1>1, PublishedOnPath
<1>4. /\ mark'[w].resume = m /\ mark'[w].step = mark[w].step
      /\ mark'[w].covered = mark[w].covered
      /\ pc'[w] \in {"record", "pauseRecord"} /\ pc' \in [Workers -> Labels] /\ ShapeOK'
      /\ \A v \in Workers \ {w} : pc'[v] = pc[v] /\ mark'[v] = mark[v]
  BY <1>2 DEF IInv, TypeOK, ShapeOK, MarkFields, Labels
<1>5. WorkerOK(w)'
  <2>1. /\ CallOK(w)' /\ (Operation(w) \in DOMAIN ops)'
        /\ Target(w)' = Target(w) /\ Operation(w)' = Operation(w)
    BY <1>1, <1>2, CallFrame DEF ledgerVars
  <2>2. (OnPath(mark[w].resume, Operation(w)) /\ mark[w].resume.step = trainer[w].step)'
    BY <1>2, <1>3, <1>4, <2>1 DEF OnPath, Faithful, Uninterrupted, Restored
  <2>3. /\ trainer'[w].step \in call'[w].handle.step .. Target(w)'
        /\ Uninterrupted(trainer[w], trainer[w].step)'
    BY <1>1, <1>2, <2>1 DEF Uninterrupted
  <2> QED
    BY <1>4, <2>1, <2>2, <2>3 DEF WorkerOK, Claimed, Loaded
<1>6. /\ trainer[w] # Nil => trainer[w].step \in 0..MaxStep
      /\ mark[w].covered \in 0..journal /\ mark[w].step \in 0..MaxStep
  BY DEF IInv, TypeOK
<1> QED
  BY <1>2, <1>4, <1>5, <1>6, InsideStep

LEMMA RecordRecoveryStep ==
  ASSUME IInv, NEW w \in Workers, RecordRecovery(w)
  PROVE  IInv'
<1>0. PICK o : o = Operation(w)
  OBVIOUS
<1>1. /\ pc[w] \in {"record", "pauseRecord"} /\ CallOK(w) /\ Operation(w) \in DOMAIN ops
      /\ trainer[w].step \in call[w].handle.step .. Target(w)
      /\ Uninterrupted(trainer[w], trainer[w].step)
      /\ OnPath(mark[w].resume, o) /\ mark[w].resume.step = trainer[w].step
  BY <1>0 DEF RecordRecovery, IInv, WorkersOK, WorkerOK, Claimed, Loaded
<1>2. CASE ~WriteAccepted(o, fence[w])
  BY <1>0, <1>2, RaiseStep DEF RecordRecovery, Raise, IInv, TypeOK, budgetVars
<1>3. CASE WriteAccepted(o, fence[w])
  <2>1. /\ SetRecoveryCheckpoint(o, mark[w].resume)
        /\ mark' = [mark EXCEPT ![w].published = TRUE, ![w].step = trainer[w].step]
        /\ pc' = [pc EXCEPT ![w] = IF pc[w] = "record" THEN "poll" ELSE "pause"]
        /\ UNCHANGED <<call, trainer, files, fence, answers, budgetVars>>
    BY <1>0, <1>3 DEF RecordRecovery, Goto
  <2>2. /\ DOMAIN ops' = DOMAIN ops
        /\ \A x \in DOMAIN ops' \ {o} : ops'[x] = ops[x]
        /\ journal' = journal + 1
        /\ UNCHANGED <<sessionConfig, rows, completed, epoch>>
    BY <2>1 DEF SetRecoveryCheckpoint
  <2>3. ~IsCommitted(o)
    BY <1>3 DEF WriteAccepted
  <2>4. ASSUME o \in DOMAIN ops' PROVE OperationOK(o)'
    <3>1. OperationOK(o)
      BY <2>2, <2>4 DEF IInv, OperationsOK
    <3>2. /\ DOMAIN ops'[o] = RecordFields /\ ops'[o].status = ops[o].status
          /\ ops'[o].recovery = mark[w].resume
      BY <2>1, <2>2, <2>4, <3>1 DEF SetRecoveryCheckpoint, OperationOK, RecordFields
    <3>3. ops[o].status # "committed"
      BY <2>2, <2>3, <2>4 DEF IsCommitted
    <3>4. OnPath(mark[w].resume, o) => OnPath(ops[o].recovery, o)'
      BY <2>1, <3>2 DEF OnPath, Faithful, Uninterrupted, Restored
    <3> QED
      BY <1>1, <3>1, <3>2, <3>3, <3>4 DEF OperationOK
  <2>5. /\ mark'[w].resume = mark[w].resume /\ mark'[w].step = trainer[w].step
        /\ mark'[w].covered = mark[w].covered
        /\ pc'[w] \in {"poll", "pause"} /\ pc' \in [Workers -> Labels] /\ ShapeOK'
        /\ \A v \in Workers \ {w} : pc'[v] = pc[v] /\ mark'[v] = mark[v]
    BY <2>1 DEF IInv, TypeOK, ShapeOK, MarkFields, Labels
  <2>6. WorkerOK(w)'
    <3>1. /\ CallOK(w)' /\ (Operation(w) \in DOMAIN ops)' /\ Target(w)' = Target(w)
          /\ \A m : OnPath(m, Operation(w)) => OnPath(m, Operation(w))'
      BY <1>1, <2>1, <2>2, CallFrame
    <3>2. (OnPath(mark[w].resume, Operation(w)) /\ mark[w].resume.step = trainer[w].step)'
      BY <1>0, <1>1, <2>1, <2>5, <3>1
    <3>3. /\ trainer'[w].step \in call'[w].handle.step .. Target(w)'
          /\ Uninterrupted(trainer[w], trainer[w].step)'
      BY <1>1, <2>1, <3>1 DEF Uninterrupted
    <3> QED
      BY <2>5, <3>1, <3>2, <3>3 DEF WorkerOK, Claimed, Loaded
  <2>7. /\ trainer'[w] # Nil => trainer'[w].step \in 0..MaxStep
        /\ mark'[w].covered \in 0..journal' /\ mark'[w].step \in 0..MaxStep
    <3>1. trainer[w].step \in 0..MaxStep
      BY <1>1, ConstantsAssumption DEF CallOK, Target
    <3>2. mark[w].covered \in 0..journal /\ journal \in Nat
      BY DEF IInv, TypeOK
    <3> QED
      BY <2>1, <2>2, <2>5, <3>1, <3>2
  <2>8. journal' \in Nat /\ journal' >= journal
    BY <2>2 DEF IInv, TypeOK
  <2> QED
    BY <2>1, <2>2, <2>3, <2>4, <2>5, <2>6, <2>7, <2>8, OperationStep
<1> QED
  BY <1>2, <1>3

LEMMA PauseStep ==
  ASSUME IInv, NEW w \in Workers, Pause(w)
  PROVE  IInv'
<1>0. PICK o : o = Operation(w)
  OBVIOUS
<1>1. Leave(w, "idle") /\ UNCHANGED <<files, fence, answers, budgetVars>>
  BY DEF Pause
<1>2. CASE ~WriteAccepted(o, fence[w])
  BY <1>0, <1>1, <1>2, RaiseStep DEF Pause, IInv, TypeOK, budgetVars
<1>3. CASE WriteAccepted(o, fence[w])
  <2>1. /\ DOMAIN ops' = DOMAIN ops
        /\ ops' = [ops EXCEPT ![o].status = "paused"]
        /\ \A x \in DOMAIN ops' \ {o} : ops'[x] = ops[x]
        /\ journal' = journal + 1
        /\ UNCHANGED <<sessionConfig, rows, completed, epoch>>
    BY <1>0, <1>3 DEF Pause, PauseAdvance
  <2>2. journal' \in Nat /\ journal' >= journal /\ ~IsCommitted(o)
    BY <1>3, <2>1 DEF IInv, TypeOK, WriteAccepted
  <2>3. ASSUME o \in DOMAIN ops' PROVE OperationOK(o)'
    <3>1. OperationOK(o)
      BY <2>1, <2>3 DEF IInv, OperationsOK
    <3>2. /\ DOMAIN ops'[o] = RecordFields /\ ops'[o].status = "paused"
          /\ ops'[o].recovery = ops[o].recovery
      BY <2>1, <2>3, <3>1 DEF OperationOK, RecordFields
    <3> QED
      BY <1>1, <3>1, <3>2 DEF OperationOK, OnPath, Faithful, Uninterrupted, Restored
  <2> QED
    BY <1>1, <2>1, <2>2, <2>3, LeaveStep, OperationStep DEF IInv
<1> QED
  BY <1>2, <1>3

LEMMA ReadCoveredStep ==
  ASSUME IInv, NEW w \in Workers, ReadCovered(w)
  PROVE  IInv'
<1>1. /\ pc[w] \in {"poll", "cover"} /\ CallOK(w) /\ Operation(w) \in DOMAIN ops /\ trainer[w].step = Target(w)
      /\ trainer[w].step \in call[w].handle.step .. Target(w)
      /\ Uninterrupted(trainer[w], trainer[w].step)
      /\ OnPath(mark[w].resume, Operation(w)) /\ mark[w].resume.step = Target(w)
  BY DEF ReadCovered, IInv, WorkersOK, WorkerOK, Claimed, Loaded
<1>2. /\ mark' = [mark EXCEPT ![w].covered = journal]
      /\ pc' = [pc EXCEPT ![w] = "commit"]
      /\ UNCHANGED <<ledgerVars, files, fence, call, trainer, answers, budgetVars>>
  BY DEF ReadCovered, Goto
<1>3. /\ mark'[w].resume = mark[w].resume /\ mark'[w].step = mark[w].step
      /\ mark'[w].covered = journal
      /\ pc'[w] = "commit" /\ pc' \in [Workers -> Labels] /\ ShapeOK'
      /\ \A v \in Workers \ {w} : pc'[v] = pc[v] /\ mark'[v] = mark[v]
  BY <1>2 DEF IInv, TypeOK, ShapeOK, MarkFields, Labels
<1>4. WorkerOK(w)'
  <2>1. /\ CallOK(w)' /\ (Operation(w) \in DOMAIN ops)' /\ Target(w)' = Target(w)
        /\ \A m : OnPath(m, Operation(w)) => OnPath(m, Operation(w))'
    BY <1>1, <1>2, CallFrame DEF ledgerVars
  <2>2. (OnPath(mark[w].resume, Operation(w)) /\ mark[w].resume.step = Target(w))'
    BY <1>1, <1>2, <1>3, <2>1
  <2>3. /\ trainer'[w].step \in call'[w].handle.step .. Target(w)'
        /\ trainer'[w].step = Target(w)'
        /\ Uninterrupted(trainer[w], trainer[w].step)'
    BY <1>1, <1>2, <2>1 DEF Uninterrupted
  <2> QED
    BY <1>3, <2>1, <2>2, <2>3 DEF WorkerOK, Claimed, Loaded
<1>5. /\ trainer[w] # Nil => trainer[w].step \in 0..MaxStep
      /\ journal \in 0..journal /\ mark[w].step \in 0..MaxStep
  BY DEF IInv, TypeOK
<1> QED
  BY <1>2, <1>3, <1>4, <1>5, InsideStep

\* The commit extends the chain by a faithful child of the head.
LEMMA CommitStep ==
  ASSUME IInv, NEW w \in Workers, Commit(w)
  PROVE  IInv'
<1>0. PICK o : o = Operation(w)
  OBVIOUS
<1>1. /\ pc[w] = "commit" /\ CallOK(w) /\ Operation(w) \in DOMAIN ops
      /\ OnPath(mark[w].resume, o) /\ mark[w].resume.step = Target(w)
  BY <1>0 DEF Commit, IInv, WorkersOK, WorkerOK, Claimed, Loaded
<1>2. CASE ~CommitAccepted(o, fence[w])
  BY <1>0, <1>2, RaiseStep DEF Commit, Raise, IInv, TypeOK, budgetVars
<1>3. CASE CommitAccepted(o, fence[w])
  <2>0. PICK row : row = [manifest |-> mark[w].resume, step |-> Target(w),
                          seq |-> journal + 1, covered |-> mark[w].covered]
    OBVIOUS
  <2>1. /\ rows' = Append(rows, row)
        /\ ops' = [ops EXCEPT ![o].status = "committed", ![o].output = mark[w].resume,
                              ![o].step = Target(w), ![o].seq = journal + 1]
        /\ journal' = journal + 2
        /\ pc' = [pc EXCEPT ![w] = "answer"]
        /\ UNCHANGED <<sessionConfig, completed, epoch, call, trainer, mark, files, fence,
                       answers, budgetVars>>
    BY <1>0, <1>3, <2>0 DEF Commit, CommitAdvance, Goto
  <2>2. /\ Len(rows) \in Nat /\ Len(rows) >= 1
        /\ \E S : rows' \in Seq(S)
        /\ Len(rows') = Len(rows) + 1 /\ rows'[Len(rows) + 1] = row
        /\ \A i \in 1..Len(rows) : rows'[i] = rows[i]
    <3>1. \E S : rows \in Seq(S)
      BY DEF IInv, RowsOK
    <3>2. Len(rows) >= 1
      BY <1>1 DEF IInv, RowsOK, CallOK
    <3>3. /\ \E S : Append(rows, row) \in Seq(S)
          /\ Len(rows) \in Nat /\ Len(Append(rows, row)) = Len(rows) + 1
          /\ Append(rows, row)[Len(rows) + 1] = row
          /\ \A i \in 1..Len(rows) : Append(rows, row)[i] = rows[i]
      BY <3>1, AppendRow
    <3> QED
      BY <2>1, <3>2, <3>3
  <2>3. RowsOK'
    <3>0. PICK n : n = Len(rows)
      OBVIOUS
    <3>1. ASSUME NEW i \in 1..n PROVE RowOK(i)'
      <4>1. RowOK(i)
        BY <3>0 DEF IInv, RowsOK
      <4>2. rows'[i] = rows[i] /\ (i > 1 => rows'[i - 1] = rows[i - 1])
        BY <2>2, <3>0
      <4> QED
        BY <2>1, <4>1, <4>2 DEF RowOK, Faithful, Uninterrupted, Restored
    <3>2. RowOK(n + 1)'
      <4>1. /\ row.manifest \in files' /\ row.manifest.step = row.step
            /\ row.manifest.parent = rows[n].manifest
            /\ Faithful(row.manifest)
        BY <1>1, <1>3, <2>0, <2>1, <3>0 DEF OnPath, CommitAccepted, HeadRow
      <4>2. row.step \in 0..MaxStep /\ row.step > rows[n].step
        <5>1. RowOK(n)
          BY <2>2, <3>0 DEF IInv, RowsOK
        <5>2. rows[n].manifest = call[w].handle.manifest
          BY <1>0, <1>3, <3>0 DEF CommitAccepted, HeadRow, Operation, OperationId
        <5> QED
          BY <1>1, <2>0, <5>1, <5>2, ConstantsAssumption DEF RowOK, CallOK, Target
      <4>3. (n + 1) - 1 = n /\ rows'[n] = rows[n]
        BY <2>2, <3>0
      <4> QED
        BY <2>2, <3>0, <4>1, <4>2, <4>3 DEF RowOK, Faithful, Uninterrupted, Restored
    <3>3. \A i \in 1..Len(rows') : i \in 1..n \/ i = n + 1
      BY <2>2, <3>0
    <3> QED
      BY <2>2, <3>1, <3>2, <3>3 DEF RowsOK
  <2>4. OperationsOK' /\ LedgerGrows
    <3>1. ASSUME o \in DOMAIN ops' PROVE OperationOK(o)'
      <4>1. OperationOK(o)
        BY <2>1, <3>1 DEF IInv, OperationsOK
      <4>2. /\ DOMAIN ops'[o] = RecordFields /\ ops'[o].status = "committed"
            /\ ops'[o].recovery = ops[o].recovery
            /\ ops'[o].output = mark[w].resume /\ ops'[o].step = Target(w)
        BY <2>1, <3>1, <4>1 DEF OperationOK, RecordFields
      <4>3. Target(w) = o.input.step + o.steps
        BY <1>0, <1>1 DEF CallOK, Target, Operation, OperationId
      <4> QED
        BY <1>1, <2>1, <4>1, <4>2, <4>3 DEF OperationOK, OnPath, Faithful, Uninterrupted, Restored
    <3>2. ~IsCommitted(o)
      BY <1>3 DEF CommitAccepted, WriteAccepted
    <3> QED
      BY <2>1, <3>1, <3>2, OperationFrame DEF IInv
  <2>5. /\ pc'[w] = "answer" /\ pc' \in [Workers -> Labels] /\ ShapeOK'
        /\ \A v \in Workers \ {w} : pc'[v] = pc[v]
    BY <2>1 DEF IInv, TypeOK, ShapeOK, Labels
  <2>6. WorkerOK(w)'
    <3>1. CallOK(w)'
      BY <1>1, <2>1, CallFrame
    <3>2. IsCommitted(Operation(w))'
      <4>1. OperationOK(o)
        BY <1>0, <1>1 DEF IInv, OperationsOK
      <4>2. o \in DOMAIN ops' /\ ops'[o].status = "committed"
        BY <1>0, <1>1, <2>1, <4>1 DEF OperationOK, RecordFields
      <4> QED
        BY <1>0, <2>1, <4>2 DEF IsCommitted, Operation, OperationId
    <3> QED
      BY <2>5, <3>1, <3>2 DEF WorkerOK, Claimed, Loaded
  <2>7. WorkersOK'
    BY <2>1, <2>4, <2>5, <2>6, OthersFrame DEF IInv
  <2>8. TypeOK'
    <3>1. \A x \in DOMAIN ops' : ops'[x].status \in {"started", "paused", "committed"}
      BY <2>4 DEF OperationsOK, OperationOK
    <3>2. \A i \in 1..Len(rows') : rows'[i].step \in 0..MaxStep
      BY <2>3 DEF RowsOK, RowOK
    <3>3. \A v \in Workers : mark'[v].covered \in 0..journal'
      BY <2>1 DEF IInv, TypeOK
    <3> QED
      BY <2>1, <2>5, <3>1, <3>2, <3>3 DEF IInv, TypeOK, budgetVars
  <2> QED
    BY <2>3, <2>4, <2>5, <2>7, <2>8 DEF IInv
<1> QED
  BY <1>2, <1>3

\* The committed checkpoint passes every check of _committed_outcome.
LEMMA ReturnOutcomeStep ==
  ASSUME IInv, NEW w \in Workers, ReturnOutcome(w)
  PROVE  IInv'
<1> DEFINE o == Operation(w)
           h == call[w].handle
<1>1. CallOK(w) /\ IsCommitted(o) /\ pc[w] = "answer"
  BY DEF ReturnOutcome, IInv, WorkersOK, WorkerOK
<1>2. OperationOK(o) /\ ops[o].status = "committed"
  BY <1>1 DEF IsCommitted, IInv, OperationsOK
<1>3. o.input = h.manifest /\ o.steps \in Nat \ {0} /\ o.input.step \in Nat
  BY <1>1, <1>2 DEF CallOK, Operation, OperationId
<1>4. OutcomeMatches(ops[o].output, h, ops[o])
  <2>1. OnPath(ops[o].output, o) /\ ops[o].step = ops[o].output.step
    BY <1>2 DEF OperationOK
  <2>2. ops[o].output.loss = ops[o].output.step /\ ops[o].output.step >= 1
    BY <1>2, <1>3, <2>1 DEF OperationOK, OnPath, Faithful, Uninterrupted, Restored
  <2>3. ops[o].output.config = h.config
    BY <1>1, <1>3, <2>1 DEF OnPath, CallOK
  <2> QED
    BY <1>3, <2>1, <2>2, <2>3 DEF OutcomeMatches, OnPath
<1>5. /\ Leave(w, "idle")
      /\ UNCHANGED <<ledgerVars, files, fence, budgetVars>>
  BY <1>4 DEF ReturnOutcome, Return
<1> QED
  BY <1>5, RaiseStep DEF IInv, TypeOK, budgetVars

-----------------------------------------------------------------------------
(* complete, errors and kills *)

LEMMA StartCompleteStep ==
  ASSUME IInv, NEW w \in Workers, NEW h, StartComplete(w, h)
  PROVE  IInv'
<1> DEFINE c == [kind |-> "complete", handle |-> h]
           label == IF fence[w] = 0 THEN "fence" ELSE "seal"
<1>1. Begin(w, c, label)
  BY DEF StartComplete
<1>2. call'[w] = c /\ pc'[w] = label
  BY <1>1 DEF Begin, Goto, IInv, TypeOK, ShapeOK
<1>3. WorkerOK(w)'
  BY <1>2 DEF WorkerOK, Claimed, Loaded
<1>4. label \in Labels
  BY DEF Labels
<1> HIDE DEF c, label
<1> QED
  BY <1>1, <1>3, <1>4, BeginStep

LEMMA SealStep ==
  ASSUME IInv, NEW w \in Workers, Seal(w)
  PROVE  IInv'
<1>1. Leave(w, "idle") /\ UNCHANGED <<files, fence, budgetVars>>
  BY DEF Seal, Return, Raise
<1>2. CASE fence[w] # epoch
  BY <1>1, <1>2, RaiseStep DEF Seal, Raise, IInv, TypeOK, budgetVars
<1>3. CASE fence[w] = epoch
  <2>1. /\ completed' = TRUE /\ UNCHANGED <<sessionConfig, rows, epoch, ops>>
        /\ journal' = IF completed THEN journal ELSE journal + 1
    BY <1>3 DEF Seal, CompleteSession
  <2>2. journal' \in Nat /\ journal' >= journal
    BY <2>1 DEF IInv, TypeOK
  <2>3. RowsOK' /\ OperationsOK' /\ LedgerGrows
    BY <1>1, <2>1 DEF IInv, RowsOK, RowOK, OperationsOK, OperationOK, OnPath, IsCommitted,
                      LedgerGrows, Faithful, Uninterrupted, Restored
  <2>4. WorkersOK'
    BY <1>1, <2>1, <2>2, <2>3, LeaveStep, OthersFrame DEF IInv
  <2>5. TypeOK' /\ ShapeOK'
    BY <1>1, <2>1, <2>2, LeaveStep DEF IInv, TypeOK, budgetVars
  <2> QED
    BY <2>3, <2>4, <2>5 DEF IInv
<1> QED
  BY <1>2, <1>3

LEMMA FaultStep ==
  ASSUME IInv, NEW w \in Workers, Fault(w)
  PROVE  IInv'
<1>1. faults' \in 0..MaxFaults
  BY ConstantsAssumption DEF Fault, IInv, TypeOK
<1> QED
  BY <1>1, RaiseStep DEF Fault, Raise, IInv, TypeOK

LEMMA CrashStep ==
  ASSUME IInv, NEW w \in Workers, Crash(w)
  PROVE  IInv'
<1>1. /\ Leave(w, "idle")
      /\ UNCHANGED <<ledgerVars, files, answers, cancels, faults>>
      /\ fence' = [fence EXCEPT ![w] = 0]
      /\ crashes' \in 0..MaxCrashes
  BY ConstantsAssumption DEF Crash, IInv, TypeOK
<1>2. RowsOK' /\ OperationsOK' /\ LedgerGrows
  BY <1>1, LedgerFrame DEF IInv
<1>3. journal' \in Nat /\ journal' >= journal /\ sessionConfig' = sessionConfig
  BY <1>1 DEF IInv, TypeOK, ledgerVars
<1>4. WorkersOK'
  BY <1>1, <1>2, <1>3, LeaveStep, OthersFrame DEF IInv
<1>5. TypeOK' /\ ShapeOK'
  BY <1>1, <1>3, LeaveStep DEF IInv, TypeOK, ledgerVars
<1> QED
  BY <1>2, <1>4, <1>5 DEF IInv

-----------------------------------------------------------------------------
(* The theorems. *)

LEMMA InitIInv == Init => IInv
<1> SUFFICES ASSUME Init PROVE IInv
  OBVIOUS
<1>1. TypeOK
  <2>1. /\ sessionConfig \in Configs \cup {Nil}
        /\ epoch \in Nat /\ journal \in Nat /\ completed \in BOOLEAN
        /\ \A i \in 1..Len(rows) : rows[i].step \in 0..MaxStep
        /\ \A o \in DOMAIN ops : ops[o].status \in {"started", "paused", "committed"}
    <3>1. Len(rows) = 0 /\ DOMAIN ops = {}
      BY DEF Init, LedgerInit
    <3>2. /\ sessionConfig \in Configs \cup {Nil}
          /\ epoch \in Nat /\ journal \in Nat /\ completed \in BOOLEAN
      BY DEF Init, LedgerInit
    <3> QED
      BY <3>1, <3>2
  <2>2. pc \in [Workers -> Labels] /\ fence \in [Workers -> 0..epoch]
    BY DEF Init, LedgerInit, Labels
  <2>3. \A w \in Workers : /\ trainer[w] # Nil => trainer[w].step \in 0..MaxStep
                           /\ mark[w].covered \in 0..journal
                           /\ mark[w].step \in 0..MaxStep
    BY ConstantsAssumption DEF Init, LedgerInit, NoMark
  <2>4. crashes \in 0..MaxCrashes /\ cancels \in 0..MaxCancels /\ faults \in 0..MaxFaults
    BY ConstantsAssumption DEF Init
  <2> QED
    BY <2>1, <2>2, <2>3, <2>4 DEF TypeOK
<1>2. ShapeOK
  BY DEF Init, ShapeOK, NoMark, MarkFields
<1>3. RowsOK
  <2>1. rows \in Seq({}) /\ Len(rows) = 0
    BY DEF Init, LedgerInit
  <2> QED
    BY <2>1 DEF Init, LedgerInit, RowsOK
<1>4. OperationsOK
  BY DEF Init, LedgerInit, OperationsOK
<1>5. WorkersOK
  BY DEF Init, WorkersOK, WorkerOK, Claimed, Loaded
<1> QED
  BY <1>1, <1>2, <1>3, <1>4, <1>5 DEF IInv

LEMMA NextIInv == IInv /\ [Next]_vars => IInv'
<1> SUFFICES ASSUME IInv, [Next]_vars PROVE IInv'
  OBVIOUS
<1>1. CASE UNCHANGED vars
  <2>1. UNCHANGED <<ledgerVars, files, workerVars, budgetVars>>
    BY <1>1 DEF vars
  <2>2. RowsOK' /\ OperationsOK' /\ LedgerGrows
    BY <2>1, LedgerFrame DEF IInv
  <2>3. TypeOK' /\ ShapeOK'
    BY <2>1 DEF IInv, TypeOK, ShapeOK, ledgerVars, workerVars, budgetVars
  <2>4. ASSUME NEW w \in Workers PROVE WorkerOK(w)'
    <3>1. /\ CallOK(w) => CallOK(w)'
          /\ Operation(w)' = Operation(w) /\ Target(w)' = Target(w)
          /\ \A m : OnPath(m, Operation(w)) => OnPath(m, Operation(w))'
          /\ Operation(w) \in DOMAIN ops => (Operation(w) \in DOMAIN ops)'
      BY <2>1, CallFrame DEF ledgerVars, workerVars
    <3>2. IsCommitted(Operation(w)) => IsCommitted(Operation(w))'
      BY <2>1, <3>1 DEF IsCommitted, ledgerVars
    <3> QED
      BY <2>1, <3>1, <3>2 DEF IInv, WorkersOK, WorkerOK, Uninterrupted, RootManifest, Claimed,
                              Loaded, workerVars
  <2> QED
    BY <2>2, <2>3, <2>4 DEF IInv, WorkersOK
<1>2. ASSUME NEW w \in Workers, Dispatch(w) PROVE IInv'
  BY <1>2, RejoinSessionStep, StartCreateStep, StartAdvanceStep, StartCompleteStep DEF Dispatch
<1>3. ASSUME NEW w \in Workers, Continue(w) PROVE IInv'
  BY <1>3, WriteInitialStep, RegisterSessionStep, ReturnCreatedStep, GetFenceStep,
     ClaimReplayedStep, ClaimStep, LoadTrainerStep, TrainStepStep, WriteCheckpointStep,
     RecordRecoveryStep, PauseStep, ReadCoveredStep, CommitStep, ReturnOutcomeStep, SealStep
     DEF Continue
<1>4. ASSUME NEW w \in Workers, Disturb(w) PROVE IInv'
  BY <1>4, PollCancelledStep, FaultStep, CrashStep DEF Disturb
<1> QED
  BY <1>1, <1>2, <1>3, <1>4 DEF Next

\* Between any two steps, of whichever workers, every worker, operation and row is as IInv says.
THEOREM Invariance == Spec => []IInv
BY InitIInv, NextIInv, PTL DEF Spec

\* Every variable keeps its type and no cursor passes the bound on requests.
THEOREM TypeCorrect == Spec => []TypeOK
<1>1. IInv => TypeOK
  BY DEF IInv
<1> QED
  BY <1>1, Invariance, PTL

\* The session never forks: the committed checkpoints are one chain, for any
\* number of workers, retries, kills, pauses and faults.
THEOREM NeverForks == Spec => []CommittedChain
<1>1. IInv => CommittedChain
  BY DEF IInv, RowsOK, RowOK, CommittedChain
<1> QED
  BY <1>1, Invariance, PTL

\* Every committed checkpoint is the state of an uninterrupted run.
THEOREM TrajectoryFaithful == Spec => []TrajectoryIntact
<1>1. IInv => TrajectoryIntact
  BY DEF IInv, RowsOK, RowOK, TrajectoryIntact, Faithful
<1> QED
  BY <1>1, Invariance, PTL

\* What a takeover resumes from lies on the path of its operation.
THEOREM RecoverySound == Spec => []RecoveryOnPath
<1>1. IInv => RecoveryOnPath
  BY DEF IInv, OperationsOK, OperationOK, OnPath, RecoveryOnPath, Faithful
<1> QED
  BY <1>1, Invariance, PTL

\* The ledger names only checkpoints that are in the store.
THEOREM NamesStored == Spec => []LedgerNamesStored
<1>1. IInv => LedgerNamesStored
  BY DEF IInv, RowsOK, RowOK, OperationsOK, OperationOK, OnPath, LedgerNamesStored
<1> QED
  BY <1>1, Invariance, PTL

\* No legal history makes the service find its own ledger or store inconsistent.
THEOREM NoConflict == Spec => []NoInternalConflict
<1>1. IInv => NoInternalConflict
  BY DEF IInv, WorkersOK, WorkerOK, NoInternalConflict
<1> QED
  BY <1>1, Invariance, PTL

-----------------------------------------------------------------------------
(* What the fence adds: at most one worker holds the newest epoch, and while *)
(* it does nobody else writes to the ledger.  So what a worker has read of   *)
(* its operation and of the journal is still true when it writes.            *)

Act(w) == Dispatch(w) \/ Continue(w) \/ Disturb(w)

-----------------------------------------------------------------------------
(* The invariant of the fence. *)

\* No two workers hold one epoch, and a call that has passed _fence has one.
FencesOK ==
  /\ \A v, w \in Workers : v # w /\ fence[v] = fence[w] => fence[w] = 0
  /\ \A w \in Workers : pc[w] \in Claimed \cup {"claim", "seal"} => fence[w] # 0

\* The trainer is a trainer state, and a pausing worker's is uninterrupted too.
TrainerOK(w) ==
  pc[w] \in Loaded \cup {"pause"} =>
    /\ Restored(trainer[w]) = trainer[w]
    /\ trainer[w].step \in Nat
    /\ Uninterrupted(trainer[w], trainer[w].step)

\* What the holder of the newest epoch knows of its operation's recovery
\* checkpoint (None when nothing is published) and of the journal.
HeldOK(w) ==
  pc[w] \in Claimed /\ fence[w] = epoch =>
    LET recovery == ops[Operation(w)].recovery IN
      /\ recovery # Nil => mark[w].published
      /\ mark[w].published => recovery # Nil
      /\ pc[w] = "load" /\ recovery # Nil => mark[w].resume = recovery
      /\ pc[w] # "load" =>
           /\ mark[w].step <= trainer[w].step
           /\ recovery # Nil => recovery.step = mark[w].step
      /\ pc[w] = "pause" => recovery # Nil /\ trainer[w].step = mark[w].step
      /\ pc[w] = "commit" => mark[w].covered = journal

\* A checkpoint that is to be recorded is one.
WrittenOK(w) == pc[w] \in {"record", "pauseRecord"} => mark[w].resume # Nil

FenceInv ==
  /\ FencesOK
  /\ CoveredUpToCommit
  /\ \A w \in Workers : TrainerOK(w) /\ HeldOK(w) /\ WrittenOK(w)

-----------------------------------------------------------------------------
(* Frames. *)

\* A step of one worker leaves the locals of the others alone.
LEMMA Alone ==
  ASSUME IInv, NEW w \in Workers, NEW v \in Workers \ {w}, Act(w)
  PROVE  /\ pc'[v] = pc[v] /\ call'[v] = call[v] /\ trainer'[v] = trainer[v]
         /\ mark'[v] = mark[v] /\ fence'[v] = fence[v]
<1> USE DEF IInv, TypeOK, ShapeOK, Goto, Leave, Raise, Return, Begin
<1>1. CASE Dispatch(w)
  BY <1>1 DEF Dispatch, RejoinSession, StartCreate, StartAdvance, StartComplete
<1>2. CASE WriteInitial(w) \/ RegisterSession(w) \/ ReturnCreated(w) \/ GetFence(w) \/ ClaimReplayed(w)
  BY <1>2 DEF WriteInitial, RegisterSession, ReturnCreated, GetFence, ClaimReplayed
<1>3. CASE Claim(w)
  BY <1>3 DEF Claim
<1>4. CASE LoadTrainer(w)
  BY <1>4 DEF LoadTrainer
<1>5. CASE TrainStep(w) \/ WriteCheckpoint(w)
  BY <1>5 DEF TrainStep, WriteCheckpoint
<1>6. CASE RecordRecovery(w)
  BY <1>6 DEF RecordRecovery
<1>7. CASE Pause(w) \/ ReadCovered(w)
  BY <1>7 DEF Pause, ReadCovered
<1>8. CASE Commit(w)
  BY <1>8 DEF Commit
<1>9. CASE ReturnOutcome(w) \/ Seal(w)
  BY <1>9 DEF ReturnOutcome, Seal
<1>10. CASE Disturb(w)
  BY <1>10 DEF Disturb, PollCancelled, Fault, Crash
<1> QED
  BY <1>1, <1>2, <1>3, <1>4, <1>5, <1>6, <1>7, <1>8, <1>9, <1>10 DEF Act, Continue

\* While a worker holds the newest epoch, no step of another writes to the ledger.
LEMMA Untouched ==
  ASSUME IInv, FencesOK, NEW w \in Workers, NEW v \in Workers \ {w}, Act(w),
         pc[v] \in Claimed, fence[v] = epoch'
  PROVE  epoch' = epoch /\ ops' = ops /\ journal' = journal
<1>1. /\ fence[v] # 0 /\ fence[v] <= epoch /\ epoch \in Nat
      /\ fence[w] # fence[v]
      /\ sessionConfig # Nil
  BY DEF FencesOK, IInv, TypeOK, WorkersOK, WorkerOK, CallOK
<1>2. epoch' # epoch + 1
  BY <1>1
<1>3. CASE Dispatch(w)
  BY <1>3 DEF Dispatch, RejoinSession, StartCreate, StartAdvance, StartComplete, Begin, ledgerVars
<1>4. CASE WriteInitial(w) \/ ReturnCreated(w) \/ ClaimReplayed(w) \/ LoadTrainer(w)
           \/ TrainStep(w) \/ WriteCheckpoint(w) \/ ReadCovered(w) \/ ReturnOutcome(w)
  BY <1>4 DEF WriteInitial, ReturnCreated, ClaimReplayed, LoadTrainer, TrainStep, WriteCheckpoint,
              ReadCovered, ReturnOutcome, ledgerVars
<1>5. CASE Disturb(w)
  BY <1>5 DEF Disturb, PollCancelled, Fault, Crash, Raise, ledgerVars
<1>6. CASE GetFence(w)
  BY <1>2, <1>6 DEF GetFence, AcquireFence
<1>7. CASE RegisterSession(w)
  BY <1>1, <1>7 DEF RegisterSession, CreateSession, Raise, ledgerVars
<1>8. CASE Claim(w)
  BY <1>1, <1>8 DEF Claim, ClaimAccepted, ClaimAdvance, Raise, ledgerVars
<1>9. CASE RecordRecovery(w)
  BY <1>1, <1>9 DEF RecordRecovery, WriteAccepted, SetRecoveryCheckpoint, Raise, ledgerVars
<1>10. CASE Pause(w)
  BY <1>1, <1>10 DEF Pause, WriteAccepted, PauseAdvance, ledgerVars
<1>11. CASE Commit(w)
  BY <1>1, <1>11 DEF Commit, CommitAccepted, WriteAccepted, CommitAdvance, Raise, ledgerVars
<1>12. CASE Seal(w)
  BY <1>1, <1>12 DEF Seal, CompleteSession, Raise, ledgerVars
<1> QED
  BY <1>3, <1>4, <1>5, <1>6, <1>7, <1>8, <1>9, <1>10, <1>11, <1>12 DEF Act, Continue

-----------------------------------------------------------------------------
(* Fences. *)

\* A worker keeps its epoch, loses it with its life, or is given the next one.
LEMMA OwnFence ==
  ASSUME IInv, FencesOK, NEW w \in Workers, Act(w)
  PROVE  /\ fence'[w] \in {fence[w], 0, epoch + 1}
         /\ pc'[w] \in Claimed \cup {"claim", "seal"} => fence'[w] # 0
<1> USE DEF IInv, TypeOK, Goto, Leave, Raise, Return, Begin, FencesOK, Claimed
<1>1. CASE Dispatch(w)
  BY <1>1 DEF Dispatch, RejoinSession, StartCreate, StartAdvance, StartComplete
<1>2. CASE WriteInitial(w) \/ RegisterSession(w) \/ ReturnCreated(w) \/ ClaimReplayed(w)
  BY <1>2 DEF WriteInitial, RegisterSession, ReturnCreated, ClaimReplayed
<1>3. CASE GetFence(w)
  BY <1>3 DEF GetFence, AcquireFence
<1>4. CASE Claim(w) \/ LoadTrainer(w)
  BY <1>4 DEF Claim, LoadTrainer
<1>5. CASE TrainStep(w) \/ WriteCheckpoint(w)
  BY <1>5 DEF TrainStep, WriteCheckpoint
<1>6. CASE RecordRecovery(w) \/ Pause(w)
  BY <1>6 DEF RecordRecovery, Pause
<1>7. CASE ReadCovered(w) \/ Commit(w)
  BY <1>7 DEF ReadCovered, Commit
<1>8. CASE ReturnOutcome(w) \/ Seal(w)
  BY <1>8 DEF ReturnOutcome, Seal
<1>9. CASE Disturb(w)
  BY <1>9 DEF Disturb, PollCancelled, Fault, Crash
<1> QED
  BY <1>1, <1>2, <1>3, <1>4, <1>5, <1>6, <1>7, <1>8, <1>9 DEF Act, Continue

\* At most one worker holds any epoch.
LEMMA FencesStep ==
  ASSUME IInv, FencesOK, NEW w \in Workers, Act(w)
  PROVE  FencesOK'
<1>1. ASSUME NEW v \in Workers \ {w}
      PROVE  fence'[v] = fence[v] /\ pc'[v] = pc[v] /\ fence[v] \in 0..epoch
  BY Alone DEF IInv, TypeOK
<1>2. /\ fence'[w] \in {fence[w], 0, epoch + 1}
      /\ pc'[w] \in Claimed \cup {"claim", "seal"} => fence'[w] # 0
  BY OwnFence
<1>3. epoch \in Nat
  BY DEF IInv, TypeOK
<1> QED
  BY <1>1, <1>2, <1>3 DEF FencesOK

-----------------------------------------------------------------------------
(* What the holder of the fence knows.  Nil, which stands for the None of the *)
(* code, is no checkpoint.                                                   *)

NilIsNoManifest == \A c, parent, t : ManifestOf(c, parent, t) # Nil

\* What another worker holds survives a step.
LEMMA OthersHeld ==
  ASSUME IInv, FencesOK, NEW w \in Workers, NEW v \in Workers \ {w}, Act(w),
         HeldOK(v), TrainerOK(v), WrittenOK(v)
  PROVE  HeldOK(v)' /\ TrainerOK(v)' /\ WrittenOK(v)'
<1>1. /\ pc'[v] = pc[v] /\ call'[v] = call[v] /\ trainer'[v] = trainer[v]
      /\ mark'[v] = mark[v] /\ fence'[v] = fence[v]
  BY Alone
<1>2. TrainerOK(v)' /\ WrittenOK(v)'
  BY <1>1 DEF TrainerOK, WrittenOK, Restored, Uninterrupted
<1>3. HeldOK(v)'
  <2>1. SUFFICES ASSUME pc[v] \in Claimed, fence[v] = epoch' PROVE HeldOK(v)'
    BY <1>1 DEF HeldOK
  <2>2. epoch' = epoch /\ ops' = ops /\ journal' = journal
    BY <2>1, Untouched
  <2>3. Operation(v)' = Operation(v)
    BY <1>1 DEF Operation, OperationId
  <2> QED
    BY <1>1, <2>1, <2>2, <2>3 DEF HeldOK
<1> QED
  BY <1>2, <1>3

\* A worker that is in no claimed operation holds nothing.
LEMMA HoldsNothing ==
  ASSUME NEW w \in Workers, pc'[w] \notin Claimed
  PROVE  HeldOK(w)' /\ TrainerOK(w)' /\ WrittenOK(w)'
BY DEF HeldOK, TrainerOK, WrittenOK, Claimed, Loaded

LEMMA ClaimHeld ==
  ASSUME IInv, FenceInv, NEW w \in Workers, Claim(w)
  PROVE  HeldOK(w)' /\ TrainerOK(w)' /\ WrittenOK(w)'
<1>1. CASE ~ClaimAccepted(Operation(w), fence[w])
  <2>1. pc'[w] = "idle"
    BY <1>1 DEF Claim, Raise, Leave, Goto, IInv, TypeOK
  <2> QED
    BY <2>1, HoldsNothing DEF Claimed
<1>2. CASE ClaimAccepted(Operation(w), fence[w])
  <2>0. PICK o : o = Operation(w)
    OBVIOUS
  <2>1. /\ ops' = [x \in DOMAIN ops \cup {o} |-> IF x = o THEN ClaimedRecord(o, fence[w]) ELSE ops[x]]
        /\ mark' = [mark EXCEPT ![w].resume = ResumeFrom(ops'[o], call[w].handle),
                                ![w].published = ops'[o].recovery # Nil]
        /\ pc' = [pc EXCEPT ![w] = "load"]
        /\ UNCHANGED <<call, trainer, fence>>
    BY <1>2, <2>0 DEF Claim, ClaimAdvance, Goto
  <2>2. /\ pc'[w] = "load" /\ Operation(w)' = o
        /\ mark'[w].resume = ResumeFrom(ops'[o], call[w].handle)
        /\ mark'[w].published = (ops'[o].recovery # Nil)
    BY <2>0, <2>1 DEF IInv, TypeOK, ShapeOK, MarkFields, Operation, OperationId
  <2> QED
    BY <2>2 DEF HeldOK, TrainerOK, WrittenOK, ResumeFrom, Loaded
<1> QED
  BY <1>1, <1>2

LEMMA LoadTrainerHeld ==
  ASSUME IInv, FenceInv, NEW w \in Workers, LoadTrainer(w)
  PROVE  HeldOK(w)' /\ TrainerOK(w)' /\ WrittenOK(w)'
<1> DEFINE t == Restored(mark[w].resume)
<1>1. /\ pc[w] = "load" /\ Target(w) \in Int
      /\ t.step \in call[w].handle.step .. Target(w) /\ call[w].handle.step \in Nat
      /\ Uninterrupted(t, t.step) /\ t.step = mark[w].resume.step
      /\ Restored(t) = t
  <2>1. /\ pc[w] = "load" /\ CallOK(w)
        /\ mark[w].resume = call[w].handle.manifest \/ OnPath(mark[w].resume, Operation(w))
    BY DEF LoadTrainer, IInv, WorkersOK, WorkerOK, Claimed
  <2> QED
    BY <2>1 DEF CallOK, OnPath, Operation, OperationId, Target, Faithful, Uninterrupted, Restored
<1>2. InAdvance(w, t.step)
  BY <1>1 DEF InAdvance
<1>3. /\ trainer' = [trainer EXCEPT ![w] = t]
      /\ mark' = [mark EXCEPT ![w].step = t.step]
      /\ pc' = [pc EXCEPT ![w] = IF t.step < Target(w) THEN "poll" ELSE "cover"]
      /\ UNCHANGED <<call, fence, ledgerVars>>
  BY <1>2 DEF LoadTrainer, Goto
<1> HIDE DEF t
<1>4. /\ trainer'[w] = t /\ mark'[w].step = t.step /\ mark'[w].published = mark[w].published
      /\ pc'[w] \in {"poll", "cover"} /\ Operation(w)' = Operation(w)
  BY <1>3 DEF IInv, TypeOK, ShapeOK, MarkFields, Operation, OperationId
<1>5. TrainerOK(w)' /\ WrittenOK(w)'
  BY <1>1, <1>4 DEF TrainerOK, WrittenOK, Restored, Uninterrupted
<1>6. HeldOK(w)'
  <2>1. t.step \in Nat
    BY <1>1
  <2> QED
    BY <1>1, <1>3, <1>4, <2>1 DEF FenceInv, HeldOK, ledgerVars, Claimed
<1> QED
  BY <1>5, <1>6

LEMMA TrainStepHeld ==
  ASSUME IInv, FenceInv, NEW w \in Workers, TrainStep(w)
  PROVE  HeldOK(w)' /\ TrainerOK(w)' /\ WrittenOK(w)'
<1> DEFINE t == Trained(trainer[w])
<1>1. /\ pc[w] = "poll" /\ trainer[w].step \in Nat /\ Uninterrupted(trainer[w], trainer[w].step)
      /\ HeldOK(w) /\ mark[w].step \in Nat
  BY DEF TrainStep, FenceInv, TrainerOK, Loaded, Claimed, IInv, TypeOK
<1>2. t.step = trainer[w].step + 1 /\ Uninterrupted(t, t.step)
  BY <1>1, TrainedFaithful
<1>3. Restored(t) = t
  BY DEF Restored, Trained
<1>4. /\ trainer' = [trainer EXCEPT ![w] = t]
      /\ pc' = [pc EXCEPT ![w] = IF PublishDue(w, t.step) THEN "write" ELSE "poll"]
      /\ UNCHANGED <<ledgerVars, fence, call, mark>>
  BY DEF TrainStep, Goto
<1> HIDE DEF t
<1>5. /\ trainer'[w] = t /\ pc'[w] \in {"write", "poll"} /\ Operation(w)' = Operation(w)
  BY <1>4 DEF IInv, TypeOK, ShapeOK, Operation, OperationId
<1>6. TrainerOK(w)' /\ WrittenOK(w)'
  BY <1>1, <1>2, <1>3, <1>5 DEF TrainerOK, WrittenOK, Restored, Uninterrupted
<1>7. HeldOK(w)'
  BY <1>1, <1>2, <1>4, <1>5 DEF HeldOK, ledgerVars, Claimed
<1> QED
  BY <1>6, <1>7

\* A pause skips the publication only of what is published.
LEMMA PollCancelledHeld ==
  ASSUME IInv, FenceInv, NEW w \in Workers, PollCancelled(w)
  PROVE  HeldOK(w)' /\ TrainerOK(w)' /\ WrittenOK(w)'
<1>1. /\ pc[w] = "poll" /\ HeldOK(w) /\ TrainerOK(w)
      /\ pc' = [pc EXCEPT ![w] = IF MustPublish(w) THEN "pauseWrite" ELSE "pause"]
      /\ UNCHANGED <<ledgerVars, fence, call, trainer, mark>>
  BY DEF PollCancelled, Goto, FenceInv
<1>2. /\ pc'[w] = IF MustPublish(w) THEN "pauseWrite" ELSE "pause"
      /\ Operation(w)' = Operation(w)
  BY <1>1 DEF IInv, TypeOK, Operation, OperationId
<1>3. TrainerOK(w)' /\ WrittenOK(w)'
  BY <1>1, <1>2 DEF TrainerOK, WrittenOK, Loaded, Claimed, Restored, Uninterrupted
<1>4. HeldOK(w)'
  BY <1>1, <1>2 DEF HeldOK, MustPublish, Claimed, ledgerVars
<1> QED
  BY <1>3, <1>4

LEMMA WriteCheckpointHeld ==
  ASSUME NilIsNoManifest, IInv, FenceInv, NEW w \in Workers, WriteCheckpoint(w)
  PROVE  HeldOK(w)' /\ TrainerOK(w)' /\ WrittenOK(w)'
<1>1. /\ pc[w] \in {"write", "pauseWrite"} /\ HeldOK(w) /\ TrainerOK(w)
      /\ mark' = [mark EXCEPT ![w].resume = PublishedManifest(w)]
      /\ pc' = [pc EXCEPT ![w] = IF pc[w] = "write" THEN "record" ELSE "pauseRecord"]
      /\ UNCHANGED <<ledgerVars, fence, call, trainer>>
  BY DEF WriteCheckpoint, Goto, FenceInv
<1>2. PublishedManifest(w) # Nil
  BY DEF NilIsNoManifest, PublishedManifest
<1>3. /\ pc'[w] \in {"record", "pauseRecord"} /\ Operation(w)' = Operation(w)
      /\ mark'[w].resume = PublishedManifest(w)
      /\ mark'[w].step = mark[w].step /\ mark'[w].published = mark[w].published
  BY <1>1 DEF IInv, TypeOK, ShapeOK, MarkFields, Operation, OperationId
<1>4. TrainerOK(w)' /\ WrittenOK(w)'
  BY <1>1, <1>2, <1>3 DEF TrainerOK, WrittenOK, Loaded, Claimed, Restored, Uninterrupted
<1>5. HeldOK(w)'
  BY <1>1, <1>3 DEF HeldOK, Claimed, ledgerVars
<1> QED
  BY <1>4, <1>5

LEMMA RecordRecoveryHeld ==
  ASSUME IInv, FenceInv, NEW w \in Workers, RecordRecovery(w)
  PROVE  HeldOK(w)' /\ TrainerOK(w)' /\ WrittenOK(w)'
<1>0. PICK o : o = Operation(w)
  OBVIOUS
<1>1. CASE ~WriteAccepted(o, fence[w])
  <2>1. pc'[w] = "idle"
    BY <1>0, <1>1 DEF RecordRecovery, Raise, Leave, Goto, IInv, TypeOK
  <2> QED
    BY <2>1, HoldsNothing DEF Claimed
<1>2. CASE WriteAccepted(o, fence[w])
  <2>1. /\ ops' = [ops EXCEPT ![o].recovery = mark[w].resume]
        /\ mark' = [mark EXCEPT ![w].published = TRUE, ![w].step = trainer[w].step]
        /\ pc' = [pc EXCEPT ![w] = IF pc[w] = "record" THEN "poll" ELSE "pause"]
        /\ UNCHANGED <<call, trainer, fence, epoch>>
    BY <1>0, <1>2 DEF RecordRecovery, SetRecoveryCheckpoint, Goto
  <2>2. /\ pc[w] \in {"record", "pauseRecord"} /\ o \in DOMAIN ops /\ OperationOK(o)
        /\ mark[w].resume.step = trainer[w].step
        /\ mark[w].resume # Nil /\ TrainerOK(w)
    BY <1>0 DEF RecordRecovery, IInv, WorkersOK, WorkerOK, OperationsOK, Claimed, FenceInv, WrittenOK
  <2>3. ops'[o].recovery = mark[w].resume
    BY <2>1, <2>2 DEF OperationOK, RecordFields
  <2>4. /\ pc'[w] \in {"poll", "pause"} /\ Operation(w)' = o
        /\ mark'[w].step = trainer[w].step /\ mark'[w].published
    BY <1>0, <2>1 DEF IInv, TypeOK, ShapeOK, MarkFields, Operation, OperationId
  <2>5. TrainerOK(w)' /\ WrittenOK(w)'
    BY <2>1, <2>2, <2>4 DEF TrainerOK, WrittenOK, Loaded, Claimed, Restored, Uninterrupted
  <2>6. HeldOK(w)'
    <3>1. trainer[w].step \in Nat
      BY <2>2 DEF TrainerOK, Loaded, Claimed
    <3> QED
      BY <2>1, <2>2, <2>3, <2>4, <3>1 DEF HeldOK
  <2> QED
    BY <2>5, <2>6
<1> QED
  BY <1>1, <1>2

LEMMA ReadCoveredHeld ==
  ASSUME IInv, FenceInv, NEW w \in Workers, ReadCovered(w)
  PROVE  HeldOK(w)' /\ TrainerOK(w)' /\ WrittenOK(w)'
<1>1. /\ pc[w] \in {"poll", "cover"} /\ HeldOK(w) /\ TrainerOK(w)
      /\ mark' = [mark EXCEPT ![w].covered = journal]
      /\ pc' = [pc EXCEPT ![w] = "commit"]
      /\ UNCHANGED <<ledgerVars, fence, call, trainer>>
  BY DEF ReadCovered, Goto, FenceInv
<1>2. /\ pc'[w] = "commit" /\ Operation(w)' = Operation(w)
      /\ mark'[w].covered = journal
      /\ mark'[w].step = mark[w].step /\ mark'[w].published = mark[w].published
  BY <1>1 DEF IInv, TypeOK, ShapeOK, MarkFields, Operation, OperationId
<1>3. TrainerOK(w)' /\ WrittenOK(w)'
  BY <1>1, <1>2 DEF TrainerOK, WrittenOK, Loaded, Claimed, Restored, Uninterrupted
<1>4. HeldOK(w)'
  BY <1>1, <1>2 DEF HeldOK, Claimed, ledgerVars
<1> QED
  BY <1>3, <1>4

\* Every other step takes its worker out of any claimed operation, or leaves it out.
LEMMA OwnHeld ==
  ASSUME NilIsNoManifest, IInv, FenceInv, NEW w \in Workers, Act(w)
  PROVE  HeldOK(w)' /\ TrainerOK(w)' /\ WrittenOK(w)'
<1>1. CASE Dispatch(w)
  <2>1. pc'[w] \in {"idle", "build", "fence", "claim", "seal"}
    BY <1>1 DEF Dispatch, RejoinSession, StartCreate, StartAdvance, StartComplete, Begin, Return,
                Leave, Goto, IInv, TypeOK
  <2> QED
    BY <2>1, HoldsNothing DEF Claimed
<1>2. CASE WriteInitial(w) \/ RegisterSession(w) \/ ReturnCreated(w)
  <2>1. pc'[w] \in {"idle", "register", "created"}
    BY <1>2 DEF WriteInitial, RegisterSession, ReturnCreated, Return, Raise, Leave, Goto, IInv, TypeOK
  <2> QED
    BY <2>1, HoldsNothing DEF Claimed
<1>3. CASE GetFence(w) \/ ClaimReplayed(w)
  <2>1. pc'[w] \in {"claim", "seal", "answer"}
    BY <1>3 DEF GetFence, ClaimReplayed, Goto, IInv, TypeOK
  <2> QED
    BY <2>1, HoldsNothing DEF Claimed
<1>4. CASE Pause(w) \/ Commit(w) \/ ReturnOutcome(w) \/ Seal(w)
  <2>1. pc'[w] \in {"idle", "answer", "conflict"}
    BY <1>4 DEF Pause, Commit, ReturnOutcome, Seal, Return, Raise, Leave, Goto, IInv, TypeOK
  <2> QED
    BY <2>1, HoldsNothing DEF Claimed
<1>5. CASE Fault(w) \/ Crash(w)
  <2>1. pc'[w] = "idle"
    BY <1>5 DEF Fault, Crash, Raise, Leave, Goto, IInv, TypeOK
  <2> QED
    BY <2>1, HoldsNothing DEF Claimed
<1> QED
  BY <1>1, <1>2, <1>3, <1>4, <1>5, ClaimHeld, LoadTrainerHeld, TrainStepHeld, PollCancelledHeld,
     WriteCheckpointHeld, RecordRecoveryHeld, ReadCoveredHeld DEF Act, Continue, Disturb

-----------------------------------------------------------------------------
(* The theorems that rest on the fence. *)

\* The steps that leave the rows alone.
LEMMA RowsKept ==
  ASSUME NEW w \in Workers, Act(w), ~RegisterSession(w), ~Commit(w)
  PROVE  rows' = rows
<1>1. CASE Dispatch(w) \/ Disturb(w)
  BY <1>1 DEF Dispatch, RejoinSession, StartCreate, StartAdvance, StartComplete, Begin, Disturb,
              PollCancelled, Fault, Crash, Raise, ledgerVars
<1>2. CASE WriteInitial(w) \/ ReturnCreated(w) \/ ClaimReplayed(w) \/ LoadTrainer(w)
           \/ TrainStep(w) \/ WriteCheckpoint(w) \/ ReadCovered(w) \/ ReturnOutcome(w)
  BY <1>2 DEF WriteInitial, ReturnCreated, ClaimReplayed, LoadTrainer, TrainStep, WriteCheckpoint,
              ReadCovered, ReturnOutcome, ledgerVars
<1>3. CASE GetFence(w) \/ Claim(w) \/ RecordRecovery(w)
  BY <1>3 DEF GetFence, AcquireFence, Claim, ClaimAdvance, RecordRecovery, SetRecoveryCheckpoint,
              Raise, ledgerVars
<1>4. CASE Pause(w) \/ Seal(w)
  BY <1>4 DEF Pause, PauseAdvance, Seal, CompleteSession, Raise, ledgerVars
<1> QED
  BY <1>1, <1>2, <1>3, <1>4 DEF Act, Continue

LEMMA CoveredStep ==
  ASSUME IInv, FenceInv, NEW w \in Workers, Act(w)
  PROVE  CoveredUpToCommit'
<1>1. journal \in Nat /\ CoveredUpToCommit
  BY DEF IInv, TypeOK, FenceInv
<1>2. CASE rows' = rows
  BY <1>1, <1>2 DEF CoveredUpToCommit
<1>3. CASE RegisterSession(w) /\ rows' # rows
  <2>0. PICK row : row = [manifest |-> RootManifest(call[w].config), step |-> 0,
                          seq |-> journal + 1, covered |-> journal]
    OBVIOUS
  <2>1. rows' = <<row>>
    BY <1>3, <2>0 DEF RegisterSession, CreateSession, Raise, ledgerVars
  <2>2. Len(rows') = 1 /\ rows'[1] = row
    BY <2>1, OneRow
  <2> QED
    BY <1>1, <2>0, <2>2 DEF CoveredUpToCommit
<1>4. CASE Commit(w) /\ rows' # rows
  <2>0. PICK row : row = [manifest |-> mark[w].resume, step |-> Target(w),
                          seq |-> journal + 1, covered |-> mark[w].covered]
    OBVIOUS
  <2>1. /\ pc[w] = "commit" /\ fence[w] = epoch
        /\ rows' = Append(rows, row)
    BY <1>4, <2>0 DEF Commit, CommitAccepted, WriteAccepted, CommitAdvance, Raise, ledgerVars
  <2>2. mark[w].covered = journal
    BY <2>1 DEF FenceInv, HeldOK, Claimed
  <2>3. /\ Len(rows) \in Nat /\ Len(rows') = Len(rows) + 1 /\ rows'[Len(rows) + 1] = row
        /\ \A i \in 1..Len(rows) : rows'[i] = rows[i]
    BY <2>1, AppendRow DEF IInv, RowsOK
  <2>4. \A i \in 1..Len(rows') : i \in 1..Len(rows) \/ i = Len(rows) + 1
    BY <2>3
  <2> QED
    BY <1>1, <2>0, <2>2, <2>3, <2>4 DEF CoveredUpToCommit
<1> QED
  BY <1>2, <1>3, <1>4, RowsKept

LEMMA FenceStep ==
  ASSUME NilIsNoManifest, IInv, FenceInv, NEW w \in Workers, Act(w)
  PROVE  FenceInv'
<1>1. FencesOK' /\ CoveredUpToCommit'
  BY FencesStep, CoveredStep DEF FenceInv
<1>2. ASSUME NEW v \in Workers PROVE TrainerOK(v)' /\ HeldOK(v)' /\ WrittenOK(v)'
  BY OwnHeld, OthersHeld DEF FenceInv
<1> QED
  BY <1>1, <1>2 DEF FenceInv

LEMMA FenceStutter == ASSUME FenceInv, UNCHANGED vars PROVE FenceInv'
<1>1. FencesOK' /\ CoveredUpToCommit'
  BY DEF FenceInv, FencesOK, CoveredUpToCommit, vars, workerVars, ledgerVars
<1>2. ASSUME NEW v \in Workers PROVE TrainerOK(v)' /\ HeldOK(v)' /\ WrittenOK(v)'
  BY DEF FenceInv, TrainerOK, HeldOK, WrittenOK, Restored, Uninterrupted, Operation, OperationId,
         vars, workerVars, ledgerVars
<1> QED
  BY <1>1, <1>2 DEF FenceInv

LEMMA NextActs == Next => \E w \in Workers : Act(w)
BY DEF Next, Act

LEMMA FenceInvariance == ASSUME NilIsNoManifest PROVE Spec => [](IInv /\ FenceInv)
<1>1. Init => FenceInv
  <2> SUFFICES ASSUME Init PROVE FenceInv
    OBVIOUS
  <2>1. FencesOK
    BY DEF Init, FencesOK, Claimed
  <2>2. Len(rows) = 0
    BY DEF Init, LedgerInit
  <2>3. ASSUME NEW w \in Workers PROVE TrainerOK(w) /\ HeldOK(w) /\ WrittenOK(w)
    BY DEF Init, TrainerOK, HeldOK, WrittenOK, Claimed, Loaded
  <2> QED
    BY <2>1, <2>2, <2>3 DEF FenceInv, CoveredUpToCommit
<1>2. IInv /\ FenceInv /\ [Next]_vars => FenceInv'
  BY NextActs, FenceStep, FenceStutter
<1> QED
  BY <1>1, <1>2, Invariance, PTL DEF Spec

\* The journal prefix a committed row covers is read in one call and recorded in the
\* next, with nothing in between.
THEOREM CoversAll == ASSUME NilIsNoManifest PROVE Spec => []CoveredUpToCommit
<1>1. FenceInv => CoveredUpToCommit
  BY DEF FenceInv
<1> QED
  BY <1>1, FenceInvariance, PTL

\* An operation keeps its recovery checkpoint, or gets one further along.
LEMMA RecoveryStep ==
  ASSUME NilIsNoManifest, IInv, FenceInv, NEW w \in Workers, Act(w), NEW o \in DOMAIN ops,
         ops[o].recovery # Nil
  PROVE  /\ ops'[o].recovery # Nil
         /\ ops'[o].recovery.step >= ops[o].recovery.step
<1>1. OperationOK(o) /\ ops[o].recovery.step \in Nat
  BY DEF IInv, OperationsOK, OperationOK, OnPath, Faithful
<1>2. CASE ops'[o].recovery = ops[o].recovery
  BY <1>1, <1>2
<1>3. CASE Dispatch(w) \/ Disturb(w)
  BY <1>2, <1>3 DEF Dispatch, RejoinSession, StartCreate, StartAdvance, StartComplete, Begin, Disturb,
              PollCancelled, Fault, Crash, Raise, ledgerVars
<1>4. CASE WriteInitial(w) \/ ReturnCreated(w) \/ ClaimReplayed(w) \/ LoadTrainer(w)
           \/ TrainStep(w) \/ WriteCheckpoint(w) \/ ReadCovered(w) \/ ReturnOutcome(w)
  BY <1>2, <1>4 DEF WriteInitial, ReturnCreated, ClaimReplayed, LoadTrainer, TrainStep, WriteCheckpoint,
              ReadCovered, ReturnOutcome, ledgerVars
<1>5. CASE RegisterSession(w) \/ GetFence(w) \/ Seal(w)
  BY <1>2, <1>5 DEF RegisterSession, CreateSession, GetFence, AcquireFence, Seal, CompleteSession,
                    Raise, ledgerVars
<1>6. CASE Claim(w)
  <2>1. ops'[o] = ops[o] \/ ops'[o] = [ops[o] EXCEPT !.status = "started", !.fence = fence[w]]
    BY <1>6 DEF Claim, ClaimAdvance, ClaimedRecord, Raise, ledgerVars
  <2> QED
    BY <1>1, <1>2, <2>1 DEF OperationOK, RecordFields
<1>7. CASE Pause(w)
  <2>1. ops' = ops \/ ops' = [ops EXCEPT ![Operation(w)].status = "paused"]
    BY <1>7 DEF Pause, PauseAdvance, ledgerVars
  <2> QED
    BY <1>1, <1>2, <2>1 DEF OperationOK, RecordFields
<1>8. CASE Commit(w)
  <2>0. PICK x : x = Operation(w)
    OBVIOUS
  <2>1. \/ ops' = ops
        \/ ops' = [ops EXCEPT ![x].status = "committed", ![x].output = mark[w].resume,
                              ![x].step = Target(w), ![x].seq = journal + 1]
    BY <1>8, <2>0 DEF Commit, CommitAdvance, Raise, ledgerVars
  <2> QED
    BY <1>1, <1>2, <2>1 DEF OperationOK, RecordFields
<1>9. CASE RecordRecovery(w) /\ ops'[o].recovery # ops[o].recovery
  <2>1. /\ fence[w] = epoch /\ ops' = [ops EXCEPT ![Operation(w)].recovery = mark[w].resume]
        /\ pc[w] \in {"record", "pauseRecord"}
    BY <1>9 DEF RecordRecovery, WriteAccepted, SetRecoveryCheckpoint, Raise, ledgerVars
  <2>2. o = Operation(w) /\ ops'[o].recovery = mark[w].resume
    BY <1>1, <1>9, <2>1 DEF OperationOK, RecordFields
  <2>3. /\ mark[w].resume.step = trainer[w].step /\ mark[w].resume # Nil
        /\ mark[w].step <= trainer[w].step /\ ops[o].recovery.step = mark[w].step
    BY <2>1, <2>2 DEF FenceInv, HeldOK, WrittenOK, Claimed, IInv, WorkersOK, WorkerOK
  <2> QED
    BY <2>2, <2>3
<1> QED
  BY <1>2, <1>3, <1>4, <1>5, <1>6, <1>7, <1>8, <1>9 DEF Act, Continue

\* No worker, however stale, replaces a recovery checkpoint by an earlier one.
THEOREM RecoveryMonotone == ASSUME NilIsNoManifest PROVE Spec => RecoveryNeverRegresses
<1>1. IInv /\ FenceInv /\ [Next]_vars =>
        [\A o \in DOMAIN ops : ops[o].recovery # Nil =>
           /\ ops'[o].recovery # Nil
           /\ ops'[o].recovery.step >= ops[o].recovery.step]_vars
  BY NextActs, RecoveryStep
<1> QED
  BY <1>1, FenceInvariance, PTL DEF Spec, RecoveryNeverRegresses

\* An advance that becomes paused has recorded all that its trainer had.
THEOREM PauseLosesNothing == ASSUME NilIsNoManifest PROVE Spec => PauseKeepsProgress
<1> DEFINE Kept(w) ==
      Pause(w) =>
        LET o == Operation(w) IN
          ops[o].status # "paused" /\ ops'[o].status = "paused" =>
            /\ ops[o].recovery # Nil
            /\ Restored(ops[o].recovery) = trainer[w]
<1>1. ASSUME IInv, FenceInv, NEW w \in Workers, Pause(w),
             ops[Operation(w)].status # "paused", ops'[Operation(w)].status = "paused"
      PROVE  /\ ops[Operation(w)].recovery # Nil
             /\ Restored(ops[Operation(w)].recovery) = trainer[w]
  <2>0. PICK o : o = Operation(w)
    OBVIOUS
  <2>1. fence[w] = epoch /\ pc[w] = "pause" /\ o \in DOMAIN ops
    BY <1>1, <2>0 DEF Pause, WriteAccepted, ledgerVars, IInv, WorkersOK, WorkerOK, Claimed
  <2>2. /\ ops[o].recovery # Nil /\ trainer[w].step = mark[w].step
        /\ ops[o].recovery.step = mark[w].step
        /\ Restored(trainer[w]) = trainer[w]
        /\ Uninterrupted(trainer[w], trainer[w].step)
    BY <1>1, <2>0, <2>1 DEF FenceInv, HeldOK, TrainerOK, Claimed
  <2>3. Uninterrupted(Restored(ops[o].recovery), ops[o].recovery.step)
    BY <1>1, <2>1, <2>2 DEF IInv, OperationsOK, OperationOK, OnPath, Faithful
  <2>4. Restored(ops[o].recovery) = Restored(trainer[w])
    BY <2>2, <2>3 DEF Uninterrupted, Restored
  <2> QED
    BY <2>0, <2>2, <2>4
<1>2. IInv /\ FenceInv => \A w \in Workers : Kept(w)
  BY <1>1
<1>3. IInv /\ FenceInv /\ [Next]_vars => [\A w \in Workers : Kept(w)]_vars
  BY <1>2
<1> QED
  BY <1>3, FenceInvariance, PTL DEF Spec, PauseKeepsProgress
=============================================================================
