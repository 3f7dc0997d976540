--------------------------- MODULE TrainingLedger ---------------------------
(***************************************************************************)
(* The durable training ledger (dinkster_server.TrainingSessionStore over   *)
(* a JournalStore), restricted to one session key.  Its code is not in this *)
(* repository: it is an external contract, read off the calls that          *)
(* SD15LoRATrainingService and FakeTrainer make and the tests of the ledger *)
(* behaviour they rely on.  Every call is one atomic transaction.           *)
(*                                                                          *)
(* What is assumed of it, and nothing more:                                 *)
(*  - acquire_fence hands out ever larger epochs; a write under an epoch    *)
(*    that is not the newest is refused;                                    *)
(*  - claiming an uncommitted operation needs an open session and an input  *)
(*    that is the committed head; a committed operation is handed back      *)
(*    under any fence;                                                      *)
(*  - commit_advance refuses an operation whose input is no longer the head *)
(*    and a session that has been completed;                                *)
(*  - complete_session is given a fence and no head.                        *)
(***************************************************************************)
EXTENDS Integers, Sequences

CONSTANT Nil     \* "absent": the None and the "" of the code

VARIABLES
  sessionConfig, \* the session's config digest, Nil before create_session
  rows,          \* list_checkpoints: the committed checkpoints, oldest first
  completed,     \* whether complete_session has run
  epoch,         \* the newest fence epoch handed out
  ops,           \* operation id -> operation record, for the claimed ones
  journal        \* read_events(...).latest_seq

ledgerVars == <<sessionConfig, rows, completed, epoch, ops, journal>>

LedgerInit ==
  /\ sessionConfig = Nil
  /\ rows = <<>>
  /\ completed = FALSE
  /\ epoch = 0
  /\ ops = [o \in {} |-> Nil]
  /\ journal = 0

-----------------------------------------------------------------------------
(* Reads. *)

HeadRow == rows[Len(rows)]

\* A handle names a row: TrainingSessionRecord.handle(), and what the
\* service builds from a row of list_checkpoints.
HandleOf(row) == [manifest |-> row.manifest, step |-> row.step,
                  seq |-> row.seq, config |-> sessionConfig]

IsCommitted(o) == o \in DOMAIN ops /\ ops[o].status = "committed"

-----------------------------------------------------------------------------
(* Transactions.  A guard ending in "Accepted" is the ledger's refusal test. *)

CreateAccepted(c) == sessionConfig \in {Nil, c}

\* create_session is idempotent: the second creator finds the first's row.
CreateSession(c, root) ==
  /\ IF sessionConfig = Nil
     THEN /\ sessionConfig' = c
          /\ rows' = <<[manifest |-> root, step |-> 0,
                        seq |-> journal + 1, covered |-> journal]>>
          /\ journal' = journal + 1
     ELSE UNCHANGED <<sessionConfig, rows, journal>>
  /\ UNCHANGED <<completed, epoch, ops>>

AcquireFence ==
  /\ epoch' = epoch + 1
  /\ UNCHANGED <<sessionConfig, rows, completed, ops, journal>>

ClaimAccepted(o, e) ==
  /\ e = epoch
  /\ ~completed
  /\ o.input = HeadRow.manifest

ClaimedRecord(o, e) ==
  IF o \in DOMAIN ops
  THEN [ops[o] EXCEPT !.status = "started", !.fence = e]
  ELSE [status |-> "started", fence |-> e, recovery |-> Nil,
        output |-> Nil, step |-> 0, seq |-> 0]

\* ADVANCE_STARTED for a new claim, ADVANCE_RESUMED for a takeover, nothing
\* when the claimant already holds it.
ClaimAdvance(o, e) ==
  /\ ops' = [x \in DOMAIN ops \cup {o} |->
               IF x = o THEN ClaimedRecord(o, e) ELSE ops[x]]
  /\ journal' = IF o \in DOMAIN ops /\ ops[o].fence = e
                THEN journal ELSE journal + 1
  /\ UNCHANGED <<sessionConfig, rows, completed, epoch>>

WriteAccepted(o, e) == e = epoch /\ ~IsCommitted(o) /\ ~completed

SetRecoveryCheckpoint(o, m) ==
  /\ ops' = [ops EXCEPT ![o].recovery = m]
  /\ journal' = journal + 1
  /\ UNCHANGED <<sessionConfig, rows, completed, epoch>>

PauseAdvance(o) ==
  /\ ops' = [ops EXCEPT ![o].status = "paused"]
  /\ journal' = journal + 1
  /\ UNCHANGED <<sessionConfig, rows, completed, epoch>>

\* Mutant: the commit is bound neither to the fence nor to the head.
CommitAcceptedUnbound(o, e) == ~IsCommitted(o) /\ ~completed

CommitAccepted(o, e) == WriteAccepted(o, e) /\ o.input = HeadRow.manifest

\* CHECKPOINT_PUBLISHED, whose sequence number the row and the handle carry,
\* and then ADVANCE_COMMITTED.
CommitAdvance(o, m, step, coveredSeq) ==
  /\ rows' = Append(rows, [manifest |-> m, step |-> step,
                           seq |-> journal + 1, covered |-> coveredSeq])
  /\ ops' = [ops EXCEPT ![o].status = "committed", ![o].output = m,
                        ![o].step = step, ![o].seq = journal + 1]
  /\ journal' = journal + 2
  /\ UNCHANGED <<sessionConfig, completed, epoch>>

CompleteSession ==
  /\ completed' = TRUE
  /\ journal' = IF completed THEN journal ELSE journal + 1
  /\ UNCHANGED <<sessionConfig, rows, epoch, ops>>
=============================================================================
