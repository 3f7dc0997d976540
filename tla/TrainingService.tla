--------------------------- MODULE TrainingService ---------------------------
(***************************************************************************)
(* SD15LoRATrainingService: training workers that create, advance and       *)
(* complete one session over the shared ledger and a shared checkpoint      *)
(* store.  Each worker is a process running one call at a time; an action   *)
(* is one store call, one checkpoint write, one optimizer step or one poll, *)
(* so calls of two workers interleave between any two of them, and a worker *)
(* may be killed and replaced at any of them.                               *)
(*                                                                          *)
(* A checkpoint manifest is its content (it is content-addressed): the      *)
(* parent field holds the parent manifest itself.  Each component of the    *)
(* trainer's state is the number of updates it has absorbed, which is all   *)
(* that tells a faithful resume from an unfaithful one when training is     *)
(* deterministic.                                                           *)
(***************************************************************************)
EXTENDS TrainingLedger

CONSTANTS
  Workers,       \* worker processes (a restart reuses the name)
  Configs,       \* normalized training configurations
  Requests,      \* numbers of optimizer steps an advance may ask for
  Notes,         \* values of the note input
  Interval,      \* TrainingConfig.checkpoint_interval
  Accumulation,  \* TrainingConfig.gradient_accumulation_steps
  MaxStep,       \* bound: no advance is asked to go beyond this step
  MaxCrashes, MaxCancels, MaxFaults   \* bounds on what goes wrong

ASSUME ConstantsAssumption ==
  /\ Requests \subseteq Nat
  /\ Interval \in Nat \ {0}
  /\ Accumulation \in Nat \ {0}
  /\ MaxStep \in Nat /\ MaxCrashes \in Nat /\ MaxCancels \in Nat /\ MaxFaults \in Nat
  /\ Nil \notin Configs

VARIABLES
  files,     \* manifests the content-addressed checkpoint store holds
  pc,        \* where the worker's call is
  fence,     \* _fences: the epoch the worker caches for the session, 0 if none
  call,      \* the arguments of the worker's call
  trainer,   \* the loaded trainer's state
  mark,      \* advance's locals: resume_digest, checkpointed_step,
             \* recovery_published and covered
  answers,   \* what calls returned: the handles the callers hold
  crashes, cancels, faults

workerVars == <<pc, fence, call, trainer, mark>>
budgetVars == <<crashes, cancels, faults>>
vars == <<ledgerVars, files, workerVars, answers, budgetVars>>

-----------------------------------------------------------------------------
(* Trainer states, manifests and operation identities. *)

FreshTrainer == [step |-> 0, data |-> 0, adapter |-> 0, optimizer |-> 0,
                 rng |-> 0, loss |-> 0]

ManifestOf(c, parent, t) ==
  [config |-> c, parent |-> parent, step |-> t.step, data |-> t.data,
   adapter |-> t.adapter, optimizer |-> t.optimizer, rng |-> t.rng,
   loss |-> t.loss]

RootManifest(c) == ManifestOf(c, Nil, FreshTrainer)

\* Mutant: the optimizer's moments are not restored.
RestoredWithoutOptimizer(m) ==
  [step |-> m.step, data |-> m.data, adapter |-> m.adapter,
   optimizer |-> 0, rng |-> m.rng, loss |-> m.loss]
\* Mutant: the data cursor is restored as if a step took one microbatch.
RestoredCursorOfStep(m) ==
  [step |-> m.step, data |-> m.step, adapter |-> m.adapter,
   optimizer |-> m.optimizer, rng |-> m.rng, loss |-> m.loss]

\* restore, from a loaded checkpoint.
Restored(m) == [step |-> m.step, data |-> m.data, adapter |-> m.adapter,
                optimizer |-> m.optimizer, rng |-> m.rng, loss |-> m.loss]

\* One optimizer step of train_step, over Accumulation microbatches.
Trained(t) == [step |-> t.step + 1, data |-> t.data + Accumulation,
               adapter |-> t.adapter + 1, optimizer |-> t.optimizer + 1,
               rng |-> t.rng + Accumulation, loss |-> t.adapter + 1]

\* Mutant: an identity without the number of steps.
OperationIdWithoutSteps(h, n, note) == [input |-> h.manifest, steps |-> 0, note |-> note]

OperationId(h, n, note) == [input |-> h.manifest, steps |-> n, note |-> note]

Operation(w) == OperationId(call[w].handle, call[w].steps, call[w].note)

\* Mutant: one step too many.
TargetOffByOne(w) == call[w].handle.step + call[w].steps + 1
Target(w) == call[w].handle.step + call[w].steps

NoMark == [resume |-> Nil, step |-> 0, published |-> FALSE, covered |-> 0]

-----------------------------------------------------------------------------
(* Calls and returns.  Local computation belongs to the action of the store *)
(* call or file access that follows it.                                     *)

Issued == {a.handle : a \in answers}
\* Handles a caller may pass: those it was given, and one whose journal
\* watermark was tampered with.
Offered == Issued \cup {[h EXCEPT !.seq = h.seq + 1] : h \in Issued}

VerifyHandle(h) ==
  /\ sessionConfig # Nil
  /\ sessionConfig = h.config
  /\ \E i \in 1..Len(rows) : /\ rows[i].manifest = h.manifest
                             /\ rows[i].step = h.step
                             /\ rows[i].seq = h.seq
  /\ h.manifest \in files
  /\ h.manifest.config = h.config
  /\ h.manifest.step = h.step

Goto(w, label) == pc' = [pc EXCEPT ![w] = label]

\* A worker rests after a call, "conflict" when the call raised one of the
\* service's own consistency errors.
Resting(w) == pc[w] \in {"idle", "conflict"}

\* The call is over: its locals are gone, the fence cache stays.
Leave(w, label) ==
  /\ Goto(w, label)
  /\ call' = [call EXCEPT ![w] = Nil]
  /\ trainer' = [trainer EXCEPT ![w] = Nil]
  /\ mark' = [mark EXCEPT ![w] = NoMark]

\* An exception reaches the caller; nothing durable changed in this step.
Raise(w) == Leave(w, "idle") /\ UNCHANGED ledgerVars

Return(w, op, h) ==
  /\ answers' = answers \cup {[op |-> op, handle |-> h]}
  /\ Leave(w, "idle")

Begin(w, c, label) ==
  /\ Resting(w)
  /\ call' = [call EXCEPT ![w] = c]
  /\ Goto(w, label)
  /\ UNCHANGED <<ledgerVars, files, fence, trainer, mark, answers, budgetVars>>

-----------------------------------------------------------------------------
(* create *)

\* The session is there: rejoin it with the handle of its first row.  With
\* another configuration the call raises and changes nothing.
RejoinSession(w, c) ==
  /\ Resting(w)
  /\ sessionConfig = c
  /\ Return(w, [kind |-> "create", config |-> c], HandleOf(rows[1]))
  /\ UNCHANGED <<ledgerVars, files, fence, budgetVars>>

StartCreate(w, c) ==
  /\ sessionConfig = Nil
  /\ Begin(w, [kind |-> "create", config |-> c], "build")

\* A fresh trainer is built, its step-0 checkpoint written, the trainer closed.
WriteInitial(w) ==
  /\ pc[w] = "build"
  /\ files' = files \cup {RootManifest(call[w].config)}
  /\ Goto(w, "register")
  /\ UNCHANGED <<ledgerVars, fence, call, trainer, mark, answers, budgetVars>>

RegisterSession(w) ==
  /\ pc[w] = "register"
  /\ LET c == call[w].config IN
       \/ /\ CreateAccepted(c)
          /\ CreateSession(c, RootManifest(c))
          /\ Goto(w, "created")
          /\ UNCHANGED <<call, trainer, mark>>
       \/ /\ ~CreateAccepted(c)
          /\ Raise(w)
  /\ UNCHANGED <<files, fence, answers, budgetVars>>

ReturnCreated(w) ==
  /\ pc[w] = "created"
  /\ Return(w, call[w], HandleOf(rows[1]))
  /\ UNCHANGED <<ledgerVars, files, fence, budgetVars>>

-----------------------------------------------------------------------------
(* advance *)

StartAdvance(w, h, n, note) ==
  /\ n >= 1
  /\ h.step + n <= MaxStep
  /\ VerifyHandle(h)
  /\ Begin(w, [kind |-> "advance", handle |-> h, steps |-> n, note |-> note],
           IF fence[w] = 0 THEN "fence" ELSE "claim")

\* _fence with nothing cached: an epoch is acquired once per worker life and
\* then reused, however stale it has become.
GetFence(w) ==
  /\ pc[w] = "fence"
  /\ AcquireFence
  /\ fence' = [fence EXCEPT ![w] = epoch']
  /\ Goto(w, IF call[w].kind = "advance" THEN "claim" ELSE "seal")
  /\ UNCHANGED <<files, call, trainer, mark, answers, budgetVars>>

\* Mutant: a resumed advance starts over from its input.
ResumeFromInput(record, h) == h.manifest

ResumeFrom(record, h) ==
  IF record.recovery # Nil THEN record.recovery ELSE h.manifest

ClaimReplayed(w) ==
  /\ pc[w] = "claim"
  /\ IsCommitted(Operation(w))
  /\ Goto(w, "answer")
  /\ UNCHANGED <<ledgerVars, files, fence, call, trainer, mark, answers, budgetVars>>

Claim(w) ==
  /\ pc[w] = "claim"
  /\ ~IsCommitted(Operation(w))
  /\ LET o == Operation(w) IN
       \/ /\ ClaimAccepted(o, fence[w])
          /\ ClaimAdvance(o, fence[w])
          /\ mark' = [mark EXCEPT ![w].resume = ResumeFrom(ops'[o], call[w].handle),
                                  ![w].published = ops'[o].recovery # Nil]
          /\ Goto(w, "load")
          /\ UNCHANGED <<call, trainer>>
       \/ /\ ~ClaimAccepted(o, fence[w])
          /\ Raise(w)
  /\ UNCHANGED <<files, fence, answers, budgetVars>>

InAdvance(w, step) == call[w].handle.step <= step /\ step <= Target(w)

\* Mutant: a recovery checkpoint at the target is taken for a foreign one.
LoadTrainerHalfOpen(w) ==
  /\ pc[w] = "load"
  /\ mark[w].resume \in files
  /\ LET t == Restored(mark[w].resume) IN
       IF t.step < Target(w)
       THEN /\ trainer' = [trainer EXCEPT ![w] = t]
            /\ mark' = [mark EXCEPT ![w].step = t.step]
            /\ Goto(w, "poll")
            /\ UNCHANGED call
       ELSE Leave(w, "conflict")
  /\ UNCHANGED <<ledgerVars, files, fence, answers, budgetVars>>

\* _load_trainer, and the check that the recovery checkpoint is in range.
LoadTrainer(w) ==
  /\ pc[w] = "load"
  /\ mark[w].resume \in files
  /\ LET t == Restored(mark[w].resume) IN
       IF InAdvance(w, t.step)
       THEN /\ trainer' = [trainer EXCEPT ![w] = t]
            /\ mark' = [mark EXCEPT ![w].step = t.step]
            /\ Goto(w, IF t.step < Target(w) THEN "poll" ELSE "cover")
            /\ UNCHANGED call
       ELSE Leave(w, "conflict")
  /\ UNCHANGED <<ledgerVars, files, fence, answers, budgetVars>>

\* Mutant: a published recovery checkpoint is taken for an up-to-date one.
MustPublishOnce(w) == ~mark[w].published

MustPublish(w) == trainer[w].step # mark[w].step \/ ~mark[w].published

\* pause_if_cancelled finds a request: publish what has not been, then pause.
PollCancelled(w) ==
  /\ pc[w] = "poll"
  /\ cancels < MaxCancels
  /\ cancels' = cancels + 1
  /\ Goto(w, IF MustPublish(w) THEN "pauseWrite" ELSE "pause")
  /\ UNCHANGED <<ledgerVars, files, fence, call, trainer, mark, answers, crashes, faults>>

PublishDue(w, step) ==
  \/ step = Target(w)
  \/ (step - call[w].handle.step) % Interval = 0

\* pause_if_cancelled finds no request, and the loop runs one more step.
TrainStep(w) ==
  /\ pc[w] = "poll"
  /\ trainer[w].step < Target(w)
  /\ LET t == Trained(trainer[w]) IN
       /\ trainer' = [trainer EXCEPT ![w] = t]
       /\ Goto(w, IF PublishDue(w, t.step) THEN "write" ELSE "poll")
  /\ UNCHANGED <<ledgerVars, files, fence, call, mark, answers, budgetVars>>

\* Mutant: the parent is the checkpoint the trainer resumed from.
PublishedUnderResume(w) ==
  ManifestOf(call[w].handle.manifest.config, mark[w].resume, trainer[w])

PublishedManifest(w) ==
  ManifestOf(call[w].handle.manifest.config, call[w].handle.manifest, trainer[w])

\* Mutant: the ledger is told of a checkpoint that is not written.
WriteCheckpointLater(w) ==
  /\ pc[w] \in {"write", "pauseWrite"}
  /\ mark' = [mark EXCEPT ![w].resume = PublishedManifest(w)]
  /\ Goto(w, IF pc[w] = "write" THEN "record" ELSE "pauseRecord")
  /\ UNCHANGED <<ledgerVars, files, fence, call, trainer, answers, budgetVars>>

\* publish, first half: the checkpoint reaches the store.
WriteCheckpoint(w) ==
  /\ pc[w] \in {"write", "pauseWrite"}
  /\ files' = files \cup {PublishedManifest(w)}
  /\ mark' = [mark EXCEPT ![w].resume = PublishedManifest(w)]
  /\ Goto(w, IF pc[w] = "write" THEN "record" ELSE "pauseRecord")
  /\ UNCHANGED <<ledgerVars, fence, call, trainer, answers, budgetVars>>

\* Mutant: a publication the ledger refuses is tried again.
RecordRecoveryRetrying(w) ==
  /\ pc[w] \in {"record", "pauseRecord"}
  /\ WriteAccepted(Operation(w), fence[w])
  /\ SetRecoveryCheckpoint(Operation(w), mark[w].resume)
  /\ mark' = [mark EXCEPT ![w].published = TRUE, ![w].step = trainer[w].step]
  /\ Goto(w, IF pc[w] = "record" THEN "poll" ELSE "pause")
  /\ UNCHANGED <<files, fence, call, trainer, answers, budgetVars>>

\* publish, second half: the ledger learns of it, or refuses a stale fence.
RecordRecovery(w) ==
  /\ pc[w] \in {"record", "pauseRecord"}
  /\ LET o == Operation(w) IN
       \/ /\ WriteAccepted(o, fence[w])
          /\ SetRecoveryCheckpoint(o, mark[w].resume)
          /\ mark' = [mark EXCEPT ![w].published = TRUE, ![w].step = trainer[w].step]
          /\ Goto(w, IF pc[w] = "record" THEN "poll" ELSE "pause")
          /\ UNCHANGED <<call, trainer>>
       \/ /\ ~WriteAccepted(o, fence[w])
          /\ Raise(w)
  /\ UNCHANGED <<files, fence, answers, budgetVars>>

\* The pause is recorded and TrainingAdvancePaused raised.
Pause(w) ==
  /\ pc[w] = "pause"
  /\ Leave(w, "idle")
  /\ IF WriteAccepted(Operation(w), fence[w])
     THEN PauseAdvance(Operation(w))
     ELSE UNCHANGED ledgerVars
  /\ UNCHANGED <<files, fence, answers, budgetVars>>

\* Mutant: the watermark of the input handle is taken for the covered prefix.
ReadCoveredOfInput(w) ==
  /\ pc[w] \in {"poll", "cover"}
  /\ trainer[w].step = Target(w)
  /\ mark' = [mark EXCEPT ![w].covered = call[w].handle.seq]
  /\ Goto(w, "commit")
  /\ UNCHANGED <<ledgerVars, files, fence, call, trainer, answers, budgetVars>>

\* The loop is over (or had nothing to do: the recovery point is the target).
ReadCovered(w) ==
  /\ pc[w] \in {"poll", "cover"}
  /\ trainer[w].step = Target(w)
  /\ mark' = [mark EXCEPT ![w].covered = journal]
  /\ Goto(w, "commit")
  /\ UNCHANGED <<ledgerVars, files, fence, call, trainer, answers, budgetVars>>

Commit(w) ==
  /\ pc[w] = "commit"
  /\ LET o == Operation(w) IN
       \/ /\ CommitAccepted(o, fence[w])
          /\ CommitAdvance(o, mark[w].resume, Target(w), mark[w].covered)
          /\ Goto(w, "answer")
          /\ UNCHANGED <<call, trainer, mark>>
       \/ /\ ~CommitAccepted(o, fence[w])
          /\ Raise(w)
  /\ UNCHANGED <<files, fence, answers, budgetVars>>

\* The checks of _committed_outcome on the stored checkpoint.
OutcomeMatches(m, h, record) ==
  /\ m \in files
  /\ m.config = h.config
  /\ m.parent = h.manifest
  /\ m.step = record.step
  /\ m.loss # 0

\* Mutant: the outcome is the session's head, not the operation's record.
OutcomeOfHead(h, record) == HandleOf(HeadRow)

OutcomeHandle(h, record) ==
  [manifest |-> record.output, step |-> record.step, seq |-> record.seq,
   config |-> h.config]

ReturnOutcome(w) ==
  /\ pc[w] = "answer"
  /\ LET o == Operation(w)
         h == call[w].handle
     IN IF OutcomeMatches(ops[o].output, h, ops[o])
        THEN Return(w, call[w], OutcomeHandle(h, ops[o]))
        ELSE Leave(w, "conflict") /\ UNCHANGED answers
  /\ UNCHANGED <<ledgerVars, files, fence, budgetVars>>

-----------------------------------------------------------------------------
(* complete *)

\* The handle is checked against the head read here; the session is sealed
\* two calls later.
StartComplete(w, h) ==
  /\ VerifyHandle(h)
  /\ HandleOf(HeadRow) = h
  /\ Begin(w, [kind |-> "complete", handle |-> h],
           IF fence[w] = 0 THEN "fence" ELSE "seal")

Seal(w) ==
  /\ pc[w] = "seal"
  /\ \/ /\ fence[w] = epoch
        /\ CompleteSession
        /\ Return(w, call[w], HandleOf(HeadRow))
     \/ /\ fence[w] # epoch
        /\ Raise(w)
        /\ UNCHANGED answers
  /\ UNCHANGED <<files, fence, budgetVars>>

-----------------------------------------------------------------------------
(* Errors, kills, scheduling. *)

\* The trainer or the checkpoint store raises (out of memory, a loss that is
\* not finite, a full disk); what the step was to do is not done, and what a
\* failed train_step did to the trainer goes with it.
Fault(w) ==
  /\ pc[w] \in {"build", "load", "poll", "write", "pauseWrite"}
  /\ faults < MaxFaults
  /\ faults' = faults + 1
  /\ Raise(w)
  /\ UNCHANGED <<files, fence, answers, crashes, cancels>>

\* The process is killed; its replacement has an empty fence cache.
Crash(w) ==
  /\ crashes < MaxCrashes
  /\ pc[w] # "idle" \/ fence[w] # 0
  /\ crashes' = crashes + 1
  /\ fence' = [fence EXCEPT ![w] = 0]
  /\ Leave(w, "idle")
  /\ UNCHANGED <<ledgerVars, files, answers, cancels, faults>>

Init ==
  /\ LedgerInit
  /\ files = {}
  /\ pc = [w \in Workers |-> "idle"]
  /\ fence = [w \in Workers |-> 0]
  /\ call = [w \in Workers |-> Nil]
  /\ trainer = [w \in Workers |-> Nil]
  /\ mark = [w \in Workers |-> NoMark]
  /\ answers = {}
  /\ crashes = 0 /\ cancels = 0 /\ faults = 0

Dispatch(w) ==
  \/ \E c \in Configs : RejoinSession(w, c) \/ StartCreate(w, c)
  \/ \E h \in Offered, n \in Requests, note \in Notes : StartAdvance(w, h, n, note)
  \/ \E h \in Offered : StartComplete(w, h)

\* The next step of the call the worker is executing, when nothing goes wrong.
Continue(w) ==
  \/ WriteInitial(w) \/ RegisterSession(w) \/ ReturnCreated(w)
  \/ GetFence(w) \/ ClaimReplayed(w) \/ Claim(w) \/ LoadTrainer(w)
  \/ TrainStep(w) \/ WriteCheckpoint(w) \/ RecordRecovery(w)
  \/ Pause(w) \/ ReadCovered(w) \/ Commit(w) \/ ReturnOutcome(w)
  \/ Seal(w)

Disturb(w) == PollCancelled(w) \/ Fault(w) \/ Crash(w)

Next == \E w \in Workers : Dispatch(w) \/ Continue(w) \/ Disturb(w)

Spec == Init /\ [][Next]_vars

\* A call that has begun is executed: the process is scheduled and every store
\* call and optimizer step returns.
ProcessFairness == \A w \in Workers : WF_vars(Continue(w))
FairSpec == Spec /\ ProcessFairness

\* A caller that re-runs its graph: each advance, from each row's handle it has
\* been given, is asked for again and again, of each worker.
Retry(w, i, n, note) == i <= Len(rows) /\ HandleOf(rows[i]) \in Issued
                        /\ StartAdvance(w, HandleOf(rows[i]), n, note)
RetryFairness ==
  /\ \A w \in Workers, c \in Configs : SF_vars(RejoinSession(w, c))
  /\ \A w \in Workers, i \in 1..(MaxStep + 1), n \in Requests, note \in Notes :
       SF_vars(Retry(w, i, n, note))
RetrySpec == FairSpec /\ RetryFairness

-----------------------------------------------------------------------------
(* Properties. *)

Labels == {"idle", "build", "register", "created", "fence", "claim", "load", "poll",
           "write", "record", "pauseWrite", "pauseRecord", "pause", "cover",
           "commit", "answer", "seal", "conflict"}

\* The state a trainer that was never interrupted has after `step` steps.
Uninterrupted(t, step) ==
  /\ t.step = step
  /\ t.data = step * Accumulation /\ t.rng = step * Accumulation
  /\ t.adapter = step /\ t.optimizer = step /\ t.loss = step

\* Every variable has its type; no cursor passes the bound on requests.
TypeOK ==
  /\ sessionConfig \in Configs \cup {Nil}
  /\ epoch \in Nat /\ journal \in Nat /\ completed \in BOOLEAN
  /\ \A i \in 1..Len(rows) : rows[i].step \in 0..MaxStep
  /\ \A o \in DOMAIN ops : ops[o].status \in {"started", "paused", "committed"}
  /\ pc \in [Workers -> Labels]
  /\ fence \in [Workers -> 0..epoch]
  /\ \A w \in Workers : /\ trainer[w] # Nil => trainer[w].step \in 0..MaxStep
                        /\ mark[w].covered \in 0..journal
                        /\ mark[w].step \in 0..MaxStep
  /\ crashes \in 0..MaxCrashes /\ cancels \in 0..MaxCancels /\ faults \in 0..MaxFaults

\* However calls interleave, retry and die, the committed checkpoints form one
\* chain: each row's checkpoint names the previous row's as its parent and lies
\* beyond it (the session can never fork into two optimizer trajectories).
CommittedChain ==
  \A i \in 1..Len(rows) :
    /\ rows[i].manifest.step = rows[i].step
    /\ i = 1 => rows[i].manifest.parent = Nil
    /\ i > 1 => /\ rows[i].manifest.parent = rows[i - 1].manifest
                /\ rows[i].step > rows[i - 1].step

\* A committed checkpoint holds exactly the state of a run that was never
\* paused, killed, faulted or taken over: no step lost, repeated, or resumed
\* with part of the trainer's state (adapter, optimizer, RNG, data cursor, loss).
TrajectoryIntact ==
  \A i \in 1..Len(rows) : Uninterrupted(Restored(rows[i].manifest), rows[i].step)

\* A recovery checkpoint belongs to its operation: it is a child of the input
\* checkpoint, inside the requested interval, and a faithful trainer state.
RecoveryOnPath ==
  \A o \in DOMAIN ops : ops[o].recovery # Nil =>
    LET m == ops[o].recovery IN
      /\ m.parent = o.input
      /\ m.step \in o.input.step .. (o.input.step + o.steps)
      /\ Uninterrupted(Restored(m), m.step)

\* The checks the service makes of its own ledger and store (the recovery
\* checkpoint outside the advance; the committed checkpoint unlike its row)
\* never fail: no legal history makes an advance raise a lineage conflict there.
NoInternalConflict == \A w \in Workers : pc[w] # "conflict"

\* A retried call gets the answer the first one got, from whichever worker and
\* however far the session has moved on: an advance its committed handle, a
\* create the step-0 handle.
ReplayAgrees ==
  \A a, b \in answers : a.op = b.op /\ a.op.kind # "complete" => a = b

\* The ledger never names a checkpoint the store does not hold.
LedgerNamesStored ==
  /\ \A i \in 1..Len(rows) : rows[i].manifest \in files
  /\ \A o \in DOMAIN ops : ops[o].recovery # Nil => ops[o].recovery \in files

\* The journal prefix a committed row says it covers is everything before the
\* commit's own events, although it is read in an earlier call.
CoveredUpToCommit ==
  \A i \in 1..Len(rows) : rows[i].covered = rows[i].seq - 1

\* The recovery point of an operation never moves back: a stale, retried or
\* resumed trainer cannot replace it by an earlier one.
RecoveryNeverRegresses ==
  [][\A o \in DOMAIN ops : ops[o].recovery # Nil =>
       /\ ops'[o].recovery # Nil
       /\ ops'[o].recovery.step >= ops[o].recovery.step]_vars

\* "Paused after publishing a complete recovery checkpoint": when an advance becomes
\* paused, its recovery checkpoint is the whole state the trainer had.
PauseKeepsProgress ==
  [][\A w \in Workers : Pause(w) =>
       LET o == Operation(w) IN
         ops[o].status # "paused" /\ ops'[o].status = "paused" =>
           /\ ops[o].recovery # Nil
           /\ Restored(ops[o].recovery) = trainer[w]]_vars

\* Every call returns or raises: polls, publications and refusals never leave a
\* worker inside a call.
CallsReturn == \A w \in Workers : ~Resting(w) ~> Resting(w)

\* With a caller that retries, the session gets to its last step or is
\* completed, although a refused call or a replay may steal the fence of a
\* running advance and a worker with a stale fence never gets another.
RetriesFinish ==
  sessionConfig # Nil ~> (completed \/ \E i \in 1..Len(rows) : rows[i].step = MaxStep)

\* "complete requires the session's committed head": what complete seals, and
\* hands back, is the checkpoint its caller named.
CompleteSealsNamedHead ==
  \A a \in answers : a.op.kind = "complete" => a.handle = a.op.handle
=============================================================================
