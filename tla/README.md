# Verification of the training service

TLA+ models of the training system of this repository: the SD1.5 LoRA training
service (`packages/dinkster-training-torch`), the checkpoint files, the exports
and the encoded-dataset cache below it, its configuration, the fake backend and
the graphs of training nodes above it, the models it keeps in memory, and the
session ledger beside it. TLC checks the models on small instances; TLAPS proves the
safety of the service, of its fences and of its files, that it and the fake backend
implement the exactly-once trajectory, that graphs stay on their own path and repeat no
more than a step for each fence, and what the models of the cache and of residency say,
for every number of workers, steps, kills, pauses, faults, edits, graphs,
configurations and every capacity.  Every safety property a passing run checks is also
the statement of a theorem; liveness is model-checked.

## The system

A graph node calls one operation of a `TrainingService`; the service is one
object in a worker process. What makes it hard is that everything durable is
shared: a worker may be killed at any point and replaced, several workers may
serve the same session key, a caller re-runs its whole graph after any failure,
and cancellation arrives at any safe point.

| component | state | operations | what makes it correct |
|---|---|---|---|
| training ledger (`dinkster_server.TrainingSessionStore`, external) | session, committed rows, operations, fence epoch, journal | `create_session`, `acquire_fence`, `claim_advance`, `set_recovery_checkpoint`, `pause_advance`, `commit_advance`, `complete_session`, reads | each call one transaction; stale fences refused; only the head is extended |
| training service (`service.py`) | fence cache, the locals of the running call | `create`, `advance`, `complete` (`dry_run`, `export_lora` change nothing) | one chain of checkpoints, each the state of an uninterrupted run; a retry replays its answer; no legal history trips its own consistency checks |
| trainer (`trainer.py`, `randomness.py`, `lora_program.py`) | adapter, optimizer, RNG streams, cursors, loss | `train_step`, `restore`, `close` | restore brings back all of the state |
| checkpoint store (`checkpoint.py`, `durability.py`) | files named by digest | `write`, `load` | what the ledger names can be loaded; no torn file under a final name |
| encoded-dataset cache (`dataset.py`) | a pair of files per key, a lock file | construction, `batch` | the pair is whole, final, the same for all who have its key |
| fake trainer (`fake.py`) | fence cache | the service's protocol, synthetic manifests | as the service; a re-run repeats no more than one step per fence |
| nodes (`nodes.py`, `service.py` of nodes-training, `pack.py`) | the context variable of the binding | one call per node | the handle of a loop stays on its own path |
| model residency (`memory.py`, `trainer.py`, `dataset.py`, the `finally` clauses of `service.py`) | models loaded, reservations held | reserve, load, unload | what is in memory is reserved, but for what exceptions leave until the next unload |
| configuration (`config.py`, `_parse`) | none | parse, normalise, record, compare digests | what a session records of its configuration parses to it again |
| export (`export.py`) | one file | `export_lora` | the path holds a whole export of a committed checkpoint |
| backend selection (`backend.py`) | none after start | one function of the environment | it decides what an invocation reserves and loads (in `ModelResidency`) |
| benchmark (`benchmarks/training-comparison`) | result files | scripts | - |

How they interact: a node calls the service found in the context variable; the
service calls the ledger (a transaction each), writes and loads checkpoints, and
owns the trainer during a call; the trainer opens the cache when it is built. The
hard behaviours are the interleavings of several workers over one ledger, one
checkpoint directory and one cache, kills and power losses between their steps,
pauses, re-runs of a graph, files and links that change under a session, and
exceptions between a model's loading and the code that unloads it.
`PROJECT.json` lists the hazards of each at the line where they bite.

## Modules

- `TrainingLedger` - the external contract: state and transactions of the ledger
  for one session key, with each refusal test as an operator ending in
  `Accepted`. It assumes only what the callers and the tests rely on: growing
  fence epochs, refusal of a stale one, the claim and the commit bound to the
  head, committed operations handed back under any fence, `complete_session`
  given no head.
- `TrainingService` (extends it) - `SD15LoRATrainingService`. One action is one
  ledger call, one checkpoint write, one optimizer step or one poll; the local
  computation before it belongs to it. `pc[w]` is the line the worker's call is
  at, `fence[w]` is `_fences`, `mark[w]` the locals `resume_digest`,
  `checkpointed_step`, `recovery_published` and `covered`, `trainer[w]` the loaded
  trainer. A manifest is its content, since it is content-addressed: `parent`
  holds the parent manifest. Each part of the trainer's state is the number of
  updates it has absorbed: with deterministic training that is what separates a
  faithful resume from an unfaithful one. The caller may use any handle it was
  given, and one with a wrong journal number.
- `CommittedTrajectory` - the abstract promise: one sequence of checkpoints,
  extended at most once per advance, answers only for advances that took effect.
  `ExactlyOnce` is what follows from it: each checkpoint is the work of one advance.
- `TrainingServiceRefinement` - the mapping: rows are the trajectory, committed
  operations the advances done, a checkpoint its position among the rows.
- `CheckpointFiles` - `ContentAddressedCheckpointStore.write` over
  `atomic_replace`, `durable_mkdir` and `fsync_directory`, one action per system
  call that matters; `visible` is what processes see, `durable` the entries that
  are on disk, `flushed`/`torn` the bytes. `PowerLoss` keeps any subset of what was
  not on disk. The exports of `export.py` go through the same functions to a path
  that is not content-addressed: `lora` is what is seen there, `onDisk` what a power
  loss may leave.
- `EncodedCache` - construction of `EncodedDataset` by several processes: hashing,
  lock, encoding, the two replacements by `atomic_replace` (bytes, entry,
  `SyncDirectory`), and the three reads that follow with no lock held. What is encoded,
  the content of the dataset and the encoders' weights, is a version; it may be
  edited between any two steps. `onDisk` is what a `PowerLoss` may leave of each file.
- `FakeTrainer` - the fake backend over `TrainingLedger`. It is not the service with
  other names: create does not look first, every step is published, a pause
  publishes only what has not been, a recovery checkpoint is turned into a step by
  a scan with a limit (`ScanLimit`), and nothing checks that it lies in the
  advance. The module has no next-state relation of its own.
- `TrainingGraph` (extends it) - graphs whose nodes call it: a create node, or a
  handle literal, feeds a fold of advances, and a complete node may follow.
  `run[w]` is the graph a worker executes, the node it is at and the handle on its
  port.
- `TrainingConfig` - `from_mapping` and `to_mapping` as operators: which mappings are
  `Accepted`, the `Normal` form of a field, what a checkpoint records. A value is a
  pair of its JSON type and its content, since the code tells `1`, `1.0` and `true`
  apart.
- `ModelResidency` (extends it) - one invocation after another in one worker: its
  backend, what it has reserved, the configuration it parses, where its dataset leads,
  and which models it loads and unloads. An exception may leave at every point: inside
  a `try` block the code unloads on the way out, at the points `Unguarded` the diffusion
  model stays, and encoders stay when their loader raises after the load. `resident` and
  `others` count models and the reservations of other workers, per resource; the history
  variable `stranded` counts the models exceptions have left since the last unload, and
  no action's guard but the bound on it reads it.
  `encoder` and `used` are the checkpoint bytes its encoders and the session's
  trainers were loaded from, `raced` that the file was replaced while one was being
  built. `encoderDevice` is where `dinkster_inference` puts this worker's encoders,
  whatever its `Device`.
- `TrainingService_proofs`, `CommittedTrajectory_proofs`,
  `TrainingServiceRefinement_proofs`, `CheckpointFiles_proofs`, `EncodedCache_proofs`,
  `ModelResidency_proofs`, `TrainingGraph_proofs`, `TrainingGraphRefinement_proofs` - the
  theorems. `MC*` - instances for TLC.

## Runs

| run | instance | shows |
|---|---|---|
| `safety` | 2 workers, advances of 1 and 2 steps up to step 2, interval 2, 1 kill, 1 pause | `CommittedChain`, `NoInternalConflict`, `ReplayAgrees`, `CoveredUpToCommit`, `AdvancesOnce`, `TypeOK`, and the refinement `ImplementsTrajectory` |
| `recovery` | 2 workers, 2 configurations, advances of 4 steps, interval 2, 1 kill, 2 pauses, 1 fault | `TrajectoryIntact`, `RecoveryOnPath`, `LedgerNamesStored`, `RecoveryNeverRegresses`, `PauseKeepsProgress` |
| `liveness` | 2 workers, 1 step, 1 kill, 1 pause | `CallsReturn`, `RetriesFinish` |
| `files` | 2 writers, 2 checkpoints sharing a shard, one export path, 2 kills, 2 power losses | `NamedLoadable`, `ManifestLast`, `NoCollision`, `ExportWhole`, `SettledForGood`, `TypeOK` |
| `cache` | 2 trainers, 2 contents, 2 edits, 2 kills, 1 encoder failure, 1 power loss | `NeverCorrupt`, `SameKeySameTensors`, `CompletePairIsFinal`, `LoadsFinish`, `TypeOK` |
| `graph` | 2 workers, five graphs that compete for one session, handle literals (forged ones too), steps up to 2 | `PortOnPath`, `TypeOK`, and the refinement `ImplementsTrajectory` of the fake backend |
| `rerun` | 2 workers re-running a fold of a two-step and a one-step advance, 1 kill or pause, a scan of 3 | `StepsRerunBounded`, `RecoveryInAdvance`, `RerunsFinish`, `RerunsCommit` |
| `residency` | both backends, 20 configurations, 2 datasets, 1 link, 2 contents of the checkpoint file, encoders on the worker's device or on another, capacity 1, exceptions at every point | `OvercommitBounded`, `RetainedByFaults`, `StoredConfigStable`, `OneDataset`, `OneModel` |
| `complete_race`, `power_loss`, `cache_edit`, `residency_fault` | a small instance of each | the four findings below |

Why the bounds are enough to be interesting: two workers are what stealing a
fence, racing a create and overtaking a head need; an interval of 2 under an
advance of 4 separates a publication in the middle from the one at the target,
and a pause between publications from one after; one kill at any of the steps,
with the retry that follows, covers each window between a write and the ledger's
knowledge of it; advances of 1 and of 2 steps are two operations on one input.
`Accumulation` is
2 so that the data cursor and the step cursor differ. The liveness run is small
because its state graph is explored for every fairness condition. Kills and pauses
of the fake backend are in `rerun`; `graph` has none, so that it can have five
graphs. With a capacity of 1 any model too many shows. The 20 configurations
differ from a good one in one field each: one for every way `from_mapping` and
`_parse` refuse, and one for each field that is normalised.

Bounds, all named in the modules: `MaxStep` limits what callers ask for,
`MaxCrashes`, `MaxCancels`, `MaxFaults`, `MaxKills`, `MaxPowerLosses`, `MaxEdits` and
`MaxMishaps` (kills and pauses of the fake backend together) what goes wrong.
`ScanLimit` is the code's own limit (100000): `graph` stays below it, and in
`rerun` a publication at step 3 lies beyond a limit of 3. `MaxStranded` is how many
exceptions in a row may strand a model on a resource before a call unloads; one is
enough to find it beside the next call's own model. Symmetry is used over workers
(and configurations), only in runs with no liveness property.

Conditions some properties carry, each because TLC refutes the property without it:

- `NeverCorrupt` and `CompletePairIsFinal` hold under `OneCause`: an edit, a kill and a
  power loss together can leave the manifest of one version beside tensors of another
  under one key, a pair that never verifies and is never written again.
- `OneModel` holds unless the file was replaced while a trainer was being built
  (`raced`): between the hash (`service.py:80`) and the load (`trainer.py:36`) nothing
  pins the bytes.
- `OvercommitBounded` allows for two excesses over the capacity of a resource: the
  models exceptions have stranded there (finding 4), and encoders at work on a resource
  the call has not reserved (`Unreserved`), since `reserve` asks for the worker's
  device while `load_checkpoint_guess_config` (`dataset.py:196`) loads them on the one
  `dinkster_inference` selects. TLC refutes the property when either is left out.
- `PauseKeepsProgress` speaks of the step that makes an operation paused; a later pause
  by a worker with a stale fence is refused and changes nothing.
- `RerunsCommit` excepts an operation left for good at a recovery step beyond the scan.

Deadlock is checked in every run: a worker can always be asked for something.

## Fairness

`FairSpec` has weak fairness of `Continue(w)`: the process is scheduled and every
store call, file operation and optimizer step returns. `PollCancelled`, `Fault` and
`Crash` have none. `RetrySpec` adds strong fairness of each retry: the caller of
the nodes re-runs its graph until it succeeds, which is what the idempotent
operations are for (`nodes.py:9-13`). Without retries nothing has to finish, since a
refused fence ends a call. `RerunSpec` is the same for graphs: weak fairness of what
a worker executes, strong fairness of starting each graph again. `EncodedCache` assumes strong
fairness of each trainer's next step: `flock` wakes some waiter and starves none.

## Findings

1. `complete` (`service.py:350-358`) checks the caller's handle against the head it
   reads, then acquires a fence and seals the session with no head: a commit by
   another worker in between is sealed, and returned, instead of the named
   checkpoint. `fake.py:277-287` has the same window.
2. `atomic_replace` (`durability.py:87`) and `_atomic_write` (`checkpoint.py:85`)
   return early for a file that is already there, without `fsync_directory`: the
   retry of a killed writer names in the ledger a checkpoint whose directory entry
   may not be on disk.
3. `EncodedDataset` hashes the dataset at `dataset.py:110` and reads it again at
   127: an edit in between is cached under the old content's key. The same is true of
   the encoders' weights, hashed at `service.py:80` and loaded at `dataset.py:196`.
4. The trainer is built and restored (`service.py:148`, `212-220`) outside the `try`
   blocks whose `finally` closes it, and its constructor (`trainer.py:36-63`) unloads
   nothing when it fails after the load: an exception there ends the invocation with
   the diffusion model loaded. The worker's README (23-26) promises that no model
   outlives its reservation. `RetainedByFaults` says what is true instead: such
   exceptions, and those of `close` and of the encoders' loader, are the only way a
   model outlives a call, and the next call that unloads takes it away.

The run of finding 2 starts with the directories in place. From a missing directory
`NamedSurvivesPowerLoss` fails with two writers and no kill at all: `durable_mkdir`
(`durability.py:42`) fsyncs nothing when another process has just made the directory,
so its caller may name a checkpoint before the maker's `fsync` of the parent. The
`files` run starts from both, and shows with `SettledForGood` from when on nothing is lost.

## What is proved

`TrainingService_proofs`, from `ConstantsAssumption` only (the numbers are naturals, the
interval and the accumulation positive, `Nil` is not a configuration), for every set of workers, of
requests, of notes and of configurations:

- `TypeCorrect`: `TypeOK`.
- `NeverForks`: `CommittedChain`.
- `TrajectoryFaithful`: `TrajectoryIntact`.
- `RecoverySound`: `RecoveryOnPath`.
- `NamesStored`: `LedgerNamesStored`.
- `NoConflict`: `NoInternalConflict`.

None of these is inductive: that the commit extends the chain depends on what the
worker holds. `IInv` adds it. `WorkerOK` says, for each label a call can be at, that
the input handle names a faithful stored checkpoint, that the resume manifest is that
one or a faithful child of it inside the advance, that the trainer is an uninterrupted
state in the advance, that the manifest about to be recorded or committed is
the trainer's state, and that an answer is about a committed operation.
`OperationOK` says the same of what an operation records, `RowOK` of the committed
rows. The argument of the commit: the ledger accepts it only if the operation's input
is the head, and `WorkerOK` makes its output a child of that input strictly beyond
it. Each action has a lemma; frame lemmas (`LedgerFrame`, `OthersFrame`, `CallFrame`,
`OperationFrame`) carry what it leaves alone. The fence plays no part in these
theorems: they hold because the ledger binds commits to the head.

The second half of the module is about the fence. From the same assumption and
`NilIsNoManifest` (no manifest is the model's "none"):

- `CoversAll`: `CoveredUpToCommit`; `RecoveryMonotone`: `RecoveryNeverRegresses`;
  `PauseLosesNothing`: `PauseKeepsProgress`.

The argument: while a worker holds the newest epoch nobody else writes the ledger
(lemma `Untouched`), so what it has read of it still stands when it writes.
`FenceInv` says it part by part: `FencesOK`, an epoch is at most one worker's;
`HeldOK`, the holder of the newest epoch knows whether its operation has a recovery
checkpoint and at which step, its trainer is not behind that step, and at the commit it
has the journal's present length; `TrainerOK`, a loaded trainer is the state of an
uninterrupted run; `WrittenOK`, what is about to be recorded is a checkpoint. A stale
worker is refused by the first call that carries its fence.

`TrainingServiceRefinement_proofs`, from `ConstantsAssumption`:

- `ReplaysAgree`: `ReplayAgrees`.
- `Implements`: `ImplementsTrajectory`, every step of the service is a step of
  `CommittedTrajectory` or invisible to it.

`AnswersInv` is the strengthening: answers are copies of a committed operation's output
or of the session's first row (`AnswerOK`), rows are in strictly growing step order
(`Ordered`, so that a checkpoint has one position among them), and every committed
operation led from one row to the next (`Led`). `LedgerSteps` classifies every step
as one that registers the session, commits an operation, or keeps rows and outputs,
and each class is mapped to its abstract step.

`CommittedTrajectory_proofs` proves `OnceEach` about the promise itself: `ExactlyOnce`, when
`Nil` is not a configuration. `TrajectoryOK` is inductive there because an advance always
makes the next position of the sequence. Both implementations inherit it through their
refinement: `CommitsOnce` states `AdvancesOnce` of the service, `FakeCommitsOnce` the same
of the fake backend. It says more than the chain: no committed checkpoint is the work of two
operations, and no two operations of different notes or lengths both extended one.

`CheckpointFiles_proofs`, from `FilesAssumption`, for every set of writers, checkpoints
and shards:

- `FilesTypes`: `TypeOK`; `LoadableWhileUp`: `NamedLoadable`; `ManifestAfterShards`:
  `ManifestLast`; `NeverCollides`: `NoCollision`; `WholeExports`: `ExportWhole`.
- `SettledStays`: `SettledForGood`, an action property: what has been fsynced, files and
  directories, is never lost. It draws the line of finding 2: only entries that a retry
  found and did not fsync are at risk.

In `StoreInv`, `FilesInv` says that what is visible has its bytes on disk and nothing
is torn, `LedgerInv` that what was named since the machine came up is visible with its
shards, `WritersInv` that the shards a writer has passed are visible and the manifest is
the last of its plan, and `ExportInv` that only named checkpoints are exported.

`EncodedCache_proofs`, from `CacheAssumption`, for every set of trainers and versions:

- `TypesAndLocks`: `TypeOK`; `SameTensors`: `SameKeySameTensors`; `CacheVerifies`:
  `NeverCorrupt`; `PairIsFinal`: `CompletePairIsFinal`.

`CacheOK` is the types and the mutual exclusion; `WritersOK`, that the tensors are there
before the manifest is written; `ReadersOK`, that a trainer past the lock reads a complete
pair nobody is writing. The last two theorems split on `OneCause`: `UnlostOK` is the
invariant of histories without a power loss (a manifest names the tensors beside it),
`UneditedOK` of those without an edit (there is one version of everything).

`TrainingGraph_proofs`, for every set of workers and graphs, with kills and pauses:

- `ResumesInAdvance`: `RecoveryInAdvance`. In `GraphInv`, `WorkerOK` says that a
  worker that claims an advance has a step between its handle's and its target's, and a
  handle of the session's configuration (`Ready`); `RowsOK` and `OperationOK` say that
  committed steps are numbers and recovery points lie in their advance.

The same module has what the proofs below count with: `Counting` (a set of naturals that
has 0 and the successor of each member has them all, by the well-foundedness of `<`, which
needs no operator parameter), `StepCounts` (the steps of k intervals add up) and the fences:
`FenceInv`, an epoch is at most one worker's.

`TrainingGraphRefinement_proofs`, from `GraphAssumption` (the intervals of a graph are a
finite sequence with steps that are numbers, and no manifest is the model's "none"):

- `FakeImplements`: `ImplementsTrajectory` of `TrainingGraph`, the promise the service
  keeps. `TrajectoryInv` adds to `GraphInv` what `AnswersInv` says of the service
  (`Ordered`, `Led`, `AnswerOK`), that an advance asks for an interval of a graph from
  a checkpoint of the session and keeps its operation claimed (`CallOK`), and that only
  a graph with a configuration creates (`RunOK`).
- `FakeCommitsOnce`: `ExactlyOnce` of that promise.
- `HandlesFollowTheGraph`: `PortOnPath`. In `PathInv`, `Placed` says that a run's handle is as
  many steps on as the intervals behind it ask for; `OnPath`, that those intervals are
  consecutive rows from the one it set out from; `Calling`, that the call a run makes is the
  interval it is at, from the handle on its port; `Recorded`, that a committed operation led
  from a row to the next. The argument: a commit or a replay answers with the row
  after the input's (rows are in strictly growing step order, so an input has one position),
  hence each iteration extends the path by one row; what other graphs commit only
  appends rows.
- `TypeCorrect`: `TypeOK`. `BoundInv` adds that rows and what a call has trained stay within the bound, which
  holds because the path of its run does (`Placed`), and what it has covered within the journal.
- `OnlyRemainingSteps`: `StepsRerunBounded`. Of each operation the ledger shows some progress
  (`Progress`: all of it, or what its recovery checkpoint saves), and this never shrinks:
  `Holding` says that the worker with the newest fence has read it as it stands. A fence is
  `Unspent` while its holder may still run a step with nothing unrecorded behind it: it is
  about to poll, or holds the newest fence and is not about to record. `Budget` is the
  inductive form: steps run and unspent fences together are no more than the progress shown
  and the fences handed out. A step spends its worker's fence, and recording it, which only
  the newest fence may, earns it back; a kill or a takeover in between loses the one step.

`ModelResidency_proofs`, from `ResidencyAssumption` (the worker's device is one it
knows, as are those the encoders may be put on, there is room for a reservation,
links are not real paths, accepted configurations name paths the model has), for
every set of configurations, datasets and links:

- `SelfConsistent`: `StoredConfigStable`, and `SameDirectory`: `OneDataset`. The
  invariant `ConfigInv` says that the running call's configuration and the stored
  one are `Normalised`: every field fits, every path is a real one, the float fields
  are floats. The lemmas `FromMappingNormal` (parsing normalises) and `RoundTrip` (a
  normal configuration survives the way to a checkpoint and back) carry the
  argument. The model itself takes it that a real path stays one.
- `OvercommitAccounted`: `OvercommitBounded`, and `OnlyFaultsRetain`:
  `RetainedByFaults`, with exceptions at every point and encoders on any device.
  `MemoryInv` counts the models in memory: on each resource what is stranded, and one
  more where the running call has a model (`Own`), its encoders on their device while
  it encodes and its diffusion model on the worker's from the load to the close. It adds
  that a call with a trainer has reserved the worker's device and that its configuration
  names it, and that reservations fit the capacity. Neither property is inductive by
  itself: that the diffusion model goes where the reservation is rests on the device
  that `_parse` compares.
- `SameModel`: `OneModel`. `ModelInv` says that a key's latents were encoded with the
  weights the key names, unless the file was replaced meanwhile, and that a session's
  trainers have used the digest its configuration records.

Model-checked only: the liveness properties (`CallsReturn`, `RetriesFinish`, `LoadsFinish`,
`RerunsFinish`, `RerunsCommit`), since liveness under fairness and ENABLED are beyond the
prover. The four properties that the code violates have counterexamples instead.

The sums of `TrainingGraph` (the steps of a loop, the progress shown) are cardinalities of
sets and not folds: the induction theorems for folds take an operator as a parameter, which
the provers cannot instantiate, while cardinalities have theorems about one more element.

## Not modelled

Tensors, serialisation and hashing (a digest is taken to identify its bytes), other
sessions than one, the JSON text of configurations and handles, LoRA target
resolution, the exception types, `steps_run`, reports, byte counts of reservations.
Of the export, the layout of the file and its settings; of the nodes, the dry-run
and export nodes, the type registration and the binding, which is entered once, when
the pack is imported. That the content of a session's dataset may change between its
advances is left open: the code compares its digest with nothing, and promises
nothing. Of backend selection, the refusals of unset or malformed variables, which
end the process before it serves; the benchmark scripts run other programs and are
left out.

## Plan

1. A stronger action property of the takeover: an epoch that has been overtaken writes
   nothing, stated of every ledger write rather than of the three properties that rest on it.
2. `SettledForGood` for the cache: what a trainer has fsynced of a pair under `OneCause`.
3. The determinism of an export's bytes, and the dry-run and export nodes.
