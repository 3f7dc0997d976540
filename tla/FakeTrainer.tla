---------------------------- MODULE FakeTrainer ----------------------------
(***************************************************************************)
(* FakeTrainer, the torch-free backend: the same ledger protocol as the     *)
(* SD1.5 service without a checkpoint store.  A training state is a digest  *)
(* chain over the configuration and the step, so a manifest is the pair of  *)
(* them, has no parent, and is turned back into a step by a scan.  It       *)
(* differs from the service in more than that: create opens the session     *)
(* without looking first, every step is published, a pause publishes only   *)
(* when nothing has been, and a recovery step is not checked against the    *)
(* advance.  An action is one store call, one poll or one optimizer step.   *)
(* What calls the trainer, and what becomes of its answers, is left to the  *)
(* module that extends this one: a call ends in "returned" with an answer   *)
(* or in "raised".                                                          *)
(***************************************************************************)
EXTENDS TrainingLedger

CONSTANTS
  Workers,                  \* worker processes, one FakeTrainer instance each
  ScanLimit,                \* _step_for_manifest looks at this many steps
  MaxMishaps                \* bound on the kills and pause requests together

ASSUME FakeAssumption == ScanLimit \in Nat \ {0} /\ MaxMishaps \in Nat

VARIABLES
  pc,         \* where the worker's call is
  fence,      \* _fences: the epoch cached for the session, 0 if none
  call,       \* the arguments of the worker's call, its answer once returned
  mark,       \* advance's locals: current, recovery_published, covered
  stepsRun,   \* optimizer steps executed, over all instances
  answers,    \* what advances returned
  mishaps

trainerVars == <<pc, fence, call, mark, stepsRun, answers, mishaps>>

-----------------------------------------------------------------------------
(* Manifests and identities. *)

Manifest(c, step) == [config |-> c, step |-> step]

\* Mutant: the scan ends a step early.
StepsNamedShort(c, m) == {s \in 0..(ScanLimit - 2) : Manifest(c, s) = m}

\* _step_for_manifest: the steps it can find.
StepsNamed(c, m) == {s \in 0..(ScanLimit - 1) : Manifest(c, s) = m}

Operation(w) == [input |-> call[w].handle.manifest, steps |-> call[w].steps,
                 note |-> call[w].note]

\* Mutant: one step too many.
TargetOffByOne(w) == call[w].handle.step + call[w].steps + 1
Target(w) == call[w].handle.step + call[w].steps

NoMark == [current |-> 0, published |-> FALSE, covered |-> 0]

VerifyHandle(h) ==
  /\ sessionConfig # Nil
  /\ sessionConfig = h.config
  /\ h.manifest = Manifest(h.config, h.step)
  /\ \E i \in 1..Len(rows) : /\ rows[i].manifest = h.manifest
                             /\ rows[i].step = h.step
                             /\ rows[i].seq = h.seq

-----------------------------------------------------------------------------
(* Calls and returns. *)

Goto(w, label) == pc' = [pc EXCEPT ![w] = label]

Begin(w, c, label) ==
  /\ pc[w] = "idle"
  /\ call' = [call EXCEPT ![w] = c]
  /\ Goto(w, label)
  /\ UNCHANGED <<fence, mark, stepsRun, answers, mishaps>>

Raise(w) ==
  /\ Goto(w, "raised")
  /\ call' = [call EXCEPT ![w] = Nil]
  /\ mark' = [mark EXCEPT ![w] = NoMark]
  /\ UNCHANGED answers

Return(w, h) ==
  /\ Goto(w, "returned")
  /\ call' = [call EXCEPT ![w] = h]
  /\ mark' = [mark EXCEPT ![w] = NoMark]

-----------------------------------------------------------------------------
(* create *)

\* create_session finds the session or makes it; another configuration raises.
Create(w, c) ==
  \/ /\ CreateAccepted(c)
     /\ Begin(w, [kind |-> "create", config |-> c], "created")
     /\ CreateSession(c, Manifest(c, 0))
  \/ /\ ~CreateAccepted(c)
     /\ Begin(w, Nil, "raised")
     /\ UNCHANGED ledgerVars

\* The handle of the first checkpoint of the ledger, however far it has gone.
ReturnCreated(w) ==
  /\ pc[w] = "created"
  /\ Return(w, HandleOf(rows[1]))
  /\ UNCHANGED <<ledgerVars, fence, stepsRun, answers, mishaps>>

-----------------------------------------------------------------------------
(* advance *)

Advance(w, h, n, note) ==
  /\ UNCHANGED ledgerVars
  /\ \/ /\ n >= 1 /\ VerifyHandle(h)
        /\ Begin(w, [kind |-> "advance", handle |-> h, steps |-> n, note |-> note],
                 IF fence[w] = 0 THEN "fence" ELSE "claim")
     \/ /\ ~(n >= 1 /\ VerifyHandle(h))
        /\ Begin(w, Nil, "raised")

GetFence(w) ==
  /\ pc[w] = "fence"
  /\ AcquireFence
  /\ fence' = [fence EXCEPT ![w] = epoch']
  /\ Goto(w, IF call[w].kind = "advance" THEN "claim" ELSE "seal")
  /\ UNCHANGED <<call, mark, stepsRun, answers, mishaps>>

\* Mutant: a committed outcome is handed back under the newest fence only.
ClaimReplayedUnderFence(w) ==
  /\ pc[w] = "claim"
  /\ IsCommitted(Operation(w))
  /\ IF fence[w] = epoch
     THEN Goto(w, "answer") /\ UNCHANGED <<call, mark, answers>>
     ELSE Raise(w)
  /\ UNCHANGED <<ledgerVars, fence, stepsRun, mishaps>>

\* A committed operation is replayed, whatever the fence.
ClaimReplayed(w) ==
  /\ pc[w] = "claim"
  /\ IsCommitted(Operation(w))
  /\ Goto(w, "answer")
  /\ UNCHANGED <<ledgerVars, fence, call, mark, stepsRun, answers, mishaps>>

\* The steps an advance may go on from: the input's, or those the scan finds
\* for the recovery checkpoint (none when it lies beyond the limit).
ResumeSteps(record, h) ==
  IF record.recovery = Nil THEN {h.step} ELSE StepsNamed(h.config, record.recovery)

\* The claim, then the scan.  When the scan fails the operation stays claimed.
Claim(w) ==
  /\ pc[w] = "claim"
  /\ ~IsCommitted(Operation(w))
  /\ LET o == Operation(w) IN
       \/ /\ ClaimAccepted(o, fence[w])
          /\ ClaimAdvance(o, fence[w])
          /\ LET found == ResumeSteps(ops'[o], call[w].handle) IN
               IF found = {}
               THEN Raise(w)
               ELSE \E s \in found :
                      /\ mark' = [mark EXCEPT ![w].current = s,
                                              ![w].published = ops'[o].recovery # Nil]
                      /\ Goto(w, IF s < Target(w) THEN "poll" ELSE "cover")
                      /\ UNCHANGED <<call, answers>>
       \/ /\ ~ClaimAccepted(o, fence[w])
          /\ Raise(w)
          /\ UNCHANGED ledgerVars
  /\ UNCHANGED <<fence, stepsRun, mishaps>>

\* pause_if_cancelled finds a request, before a step or after a publication.
PollCancelled(w) ==
  /\ pc[w] = "poll"
  /\ mishaps < MaxMishaps
  /\ mishaps' = mishaps + 1
  /\ Goto(w, IF mark[w].published THEN "pause" ELSE "pauseRecord")
  /\ UNCHANGED <<ledgerVars, fence, call, mark, stepsRun, answers>>

\* Mutant: only the last step is published.
StepPublishingTarget(w) ==
  /\ pc[w] = "poll"
  /\ mark[w].current < Target(w)
  /\ stepsRun' = stepsRun + 1
  /\ mark' = [mark EXCEPT ![w].current = @ + 1]
  /\ Goto(w, IF mark[w].current + 1 = Target(w) THEN "record" ELSE "poll")
  /\ UNCHANGED <<ledgerVars, fence, call, answers, mishaps>>

Step(w) ==
  /\ pc[w] = "poll"
  /\ mark[w].current < Target(w)
  /\ stepsRun' = stepsRun + 1
  /\ mark' = [mark EXCEPT ![w].current = @ + 1]
  /\ Goto(w, "record")
  /\ UNCHANGED <<ledgerVars, fence, call, answers, mishaps>>

\* Mutant: what is published is the step after the current one.
RecordRecoveryNext(w) ==
  /\ pc[w] \in {"record", "pauseRecord"}
  /\ WriteAccepted(Operation(w), fence[w])
  /\ SetRecoveryCheckpoint(Operation(w),
                           Manifest(call[w].handle.config, mark[w].current + 1))
  /\ mark' = [mark EXCEPT ![w].published = TRUE]
  /\ Goto(w, IF pc[w] = "record" THEN "poll" ELSE "pause")
  /\ UNCHANGED <<call, fence, stepsRun, answers, mishaps>>

RecordRecovery(w) ==
  /\ pc[w] \in {"record", "pauseRecord"}
  /\ LET o == Operation(w) IN
       \/ /\ WriteAccepted(o, fence[w])
          /\ SetRecoveryCheckpoint(o, Manifest(call[w].handle.config, mark[w].current))
          /\ mark' = [mark EXCEPT ![w].published = TRUE]
          /\ Goto(w, IF pc[w] = "record" THEN "poll" ELSE "pause")
          /\ UNCHANGED <<call, answers>>
       \/ /\ ~WriteAccepted(o, fence[w])
          /\ Raise(w)
          /\ UNCHANGED ledgerVars
  /\ UNCHANGED <<fence, stepsRun, mishaps>>

Pause(w) ==
  /\ pc[w] = "pause"
  /\ Raise(w)
  /\ IF WriteAccepted(Operation(w), fence[w])
     THEN PauseAdvance(Operation(w))
     ELSE UNCHANGED ledgerVars
  /\ UNCHANGED <<fence, stepsRun, mishaps>>

ReadCovered(w) ==
  /\ pc[w] \in {"poll", "cover"}
  /\ mark[w].current = Target(w)
  /\ mark' = [mark EXCEPT ![w].covered = journal]
  /\ Goto(w, "commit")
  /\ UNCHANGED <<ledgerVars, fence, call, stepsRun, answers, mishaps>>

Commit(w) ==
  /\ pc[w] = "commit"
  /\ LET o == Operation(w) IN
       \/ /\ CommitAccepted(o, fence[w])
          /\ CommitAdvance(o, Manifest(call[w].handle.config, Target(w)), Target(w),
                           mark[w].covered)
          /\ Goto(w, "answer")
          /\ UNCHANGED <<call, mark, answers>>
       \/ /\ ~CommitAccepted(o, fence[w])
          /\ Raise(w)
          /\ UNCHANGED ledgerVars
  /\ UNCHANGED <<fence, stepsRun, mishaps>>

\* Mutant: the outcome is the session's head, not the operation's record.
OutcomeOfHead(w, record) == HandleOf(HeadRow)

Outcome(w, record) == [manifest |-> record.output, step |-> record.step,
                       seq |-> record.seq, config |-> call[w].handle.config]

\* _committed_outcome: nothing is checked, there is no store to check against.
ReturnOutcome(w) ==
  /\ pc[w] = "answer"
  /\ LET h == Outcome(w, ops[Operation(w)]) IN
       /\ Return(w, h)
       /\ answers' = answers \cup {[op |-> call[w], handle |-> h]}
  /\ UNCHANGED <<ledgerVars, fence, stepsRun, mishaps>>

-----------------------------------------------------------------------------
(* complete *)

Complete(w, h) ==
  /\ UNCHANGED ledgerVars
  /\ \/ /\ sessionConfig # Nil /\ HandleOf(HeadRow) = h
        /\ Begin(w, [kind |-> "complete", handle |-> h],
                 IF fence[w] = 0 THEN "fence" ELSE "seal")
     \/ /\ ~(sessionConfig # Nil /\ HandleOf(HeadRow) = h)
        /\ Begin(w, Nil, "raised")

Seal(w) ==
  /\ pc[w] = "seal"
  /\ \/ /\ fence[w] = epoch
        /\ CompleteSession
        /\ Return(w, HandleOf(HeadRow))
        /\ UNCHANGED answers
     \/ /\ fence[w] # epoch
        /\ Raise(w)
        /\ UNCHANGED ledgerVars
  /\ UNCHANGED <<fence, stepsRun, mishaps>>

-----------------------------------------------------------------------------
\* The process is killed; its replacement has an empty fence cache.
Kill(w) ==
  /\ mishaps < MaxMishaps
  /\ pc[w] # "idle" \/ fence[w] # 0
  /\ mishaps' = mishaps + 1
  /\ fence' = [fence EXCEPT ![w] = 0]
  /\ Raise(w)
  /\ UNCHANGED <<ledgerVars, stepsRun>>

TrainerInit ==
  /\ LedgerInit
  /\ pc = [w \in Workers |-> "idle"]
  /\ fence = [w \in Workers |-> 0]
  /\ call = [w \in Workers |-> Nil]
  /\ mark = [w \in Workers |-> NoMark]
  /\ stepsRun = 0
  /\ answers = {}
  /\ mishaps = 0

\* The next step of the call the worker is executing.
Continue(w) ==
  \/ ReturnCreated(w) \/ GetFence(w) \/ ClaimReplayed(w) \/ Claim(w)
  \/ Step(w) \/ RecordRecovery(w) \/ Pause(w) \/ ReadCovered(w)
  \/ Commit(w) \/ ReturnOutcome(w) \/ Seal(w)

Disturb(w) == PollCancelled(w) \/ Kill(w)
=============================================================================
