--------------------------- MODULE ModelResidency ---------------------------
(***************************************************************************)
(* Models in the memory of the training worker.  The governor (external)    *)
(* grants an invocation the reservations the worker's policy asks for and   *)
(* takes them back when the invocation is over; in between, create and      *)
(* advance load a VAE and text encoder when the dataset is not cached, then *)
(* the diffusion model, and unload what they loaded.  Other workers reserve *)
(* memory of the same devices.  What an invocation computes is left to      *)
(* TrainingService; here it is where models are loaded and unloaded, from   *)
(* which bytes, and where an exception can leave.                           *)
(***************************************************************************)
EXTENDS TrainingConfig

CONSTANTS
  Device,       \* DINKSTER_TRAINING_DEVICE
  EncoderDevices,\* the devices dinkster_inference may select, where encoders are put
  Capacity,     \* how many reservations a resource has room for
  MaxStranded,  \* bound on exceptions that leave a model behind before the next unload
  Mappings,     \* the configurations callers send
  ModelFile,    \* where the SD1.5 checkpoint is
  Datasets,     \* dataset directories
  Links,        \* symbolic links to them, which users point elsewhere
  OtherPaths,   \* further paths in the configurations
  NoConfig

\* Where an exception leaves the diffusion model loaded: its load has succeeded, and
\* either no try block has been entered yet, or close raises before it unloads.
Unguarded == {"program", "optimizer", "restore", "close", "abort"}

RealPaths == {ModelFile} \cup Datasets \cup OtherPaths
Paths == RealPaths \cup Links

ASSUME ResidencyAssumption ==
  /\ Device \in Devices /\ EncoderDevices \subseteq Devices
  /\ Capacity \in Nat \ {0} /\ MaxStranded \in Nat
  /\ Links \cap RealPaths = {} /\ "" \notin RealPaths
  /\ \A m \in Mappings : Accepted(m) => \A f \in PathFields : m[f][2] \in Paths

Resources == {"ram", "vram:cuda:0", "vram:cuda:1"}
Backends == {"fake", "sd15-lora"}
Operations == {"dry_run", "create_session", "advance", "export_lora", "complete_session"}

VARIABLES
  backend,    \* DINKSTER_TRAINING_BACKEND
  encoderDevice,  \* where this worker's encoders are put
  pc,         \* where the invocation is, "idle" between invocations
  operation,  \* the node it executes
  request,    \* the configuration it was sent
  config,     \* the one its trainer is built for
  encoder,    \* the digest of the weights its encoders were loaded from
  reserved,   \* the reservations it holds
  others,     \* reservations of other workers, by resource
  resident,   \* models this worker has loaded and not unloaded, by resource
  stranded,   \* history: those of them that exceptions have left behind
  cached,     \* the encoded datasets, and the digest of the weights that encoded them
  stored,     \* what the session's checkpoints record of its configuration
  committed,  \* the advance is committed
  opened,     \* the directories the session's trainers have read
  used,       \* digests of the weights the session has been trained with
  raced,      \* the checkpoint file was replaced while a trainer was being built
  resolve,    \* where each path leads
  weights     \* the digest of the checkpoint file

call == <<pc, operation, request, config, encoder, reserved>>
session == <<stored, committed, opened, used>>
memory == <<resident, stranded>>
world == <<backend, encoderDevice, resolve, weights, raced>>
vars == <<call, others, memory, cached, session, world>>

-----------------------------------------------------------------------------
ModelOperations == {"create_session", "advance"}

\* Where a device's models are; "cuda" is device 0.
MemoryOf(device) ==
  CASE device = "cpu" -> "ram" [] device = "cuda:1" -> "vram:cuda:1" [] OTHER -> "vram:cuda:0"

\* plan_reservations
Reservations(op) ==
  IF backend = "sd15-lora" /\ op \in ModelOperations THEN {"ram", MemoryOf(Device)} ELSE {}

Granted(resources) ==
  \A r \in resources : others[r] + (IF r \in reserved THEN 1 ELSE 0) < Capacity

Goto(label) ==
  pc' = label /\ UNCHANGED <<operation, request, config, encoder, reserved>>

Loaded(r) == resident' = [resident EXCEPT ![r] = @ + 1]
Strands(r) ==
  /\ stranded[r] < MaxStranded
  /\ stranded' = [stranded EXCEPT ![r] = @ + 1]

\* unload_all_models takes what earlier calls have left behind with it.
UnloadAll ==
  /\ resident' = [r \in Resources |-> 0]
  /\ stranded' = [r \in Resources |-> 0]

\* The invocation is over, by a return or an exception.
Over ==
  /\ pc' = "idle" /\ operation' = "none" /\ reserved' = {}
  /\ request' = NoConfig /\ config' = NoConfig /\ encoder' = NoConfig

-----------------------------------------------------------------------------
Invoke(op) ==
  /\ pc = "idle"
  /\ Granted(Reservations(op))
  /\ pc' = "called" /\ operation' = op /\ reserved' = Reservations(op)
  /\ request' \in IF op \in {"dry_run", "create_session"} THEN Mappings ELSE {NoConfig}
  /\ UNCHANGED <<config, encoder, others, memory, cached, session, world>>

\* Mutant: the device is not compared.
ParsesAnyDevice(m) ==
  /\ Accepted(m)
  /\ LET c == FromMapping(m, resolve) IN
       c.checkpointPath = Str(ModelFile) /\ c.checkpointDigest = Str(weights)

\* _parse accepts the configuration: the file is there, with the named bytes, and
\* the device is the worker's.
Parses(m) ==
  /\ Accepted(m)
  /\ LET c == FromMapping(m, resolve) IN
       /\ c.checkpointPath = Str(ModelFile) /\ c.checkpointDigest = Str(weights)
       /\ c.device = Str(Device)

\* The mapping the call parses: what it was sent, or what the checkpoint records.
Source == IF operation = "advance" THEN ToMapping(stored) ELSE request
Parsed == FromMapping(Source, resolve)

\* create of a session that is not there and advance of an operation that is not
\* committed build a trainer; nothing else loads a model, nor does the fake backend.
BuildsTrainer ==
  /\ backend = "sd15-lora"
  /\ \/ operation = "create_session" /\ stored = NoConfig /\ Parses(Source)
     \/ operation = "advance" /\ stored # NoConfig /\ ~committed
          /\ Parses(Source) /\ Parsed = stored

\* An answer that needs no model, or a refusal.
ReturnWithoutModel ==
  /\ pc = "called"
  /\ BuildsTrainer => resolve[Parsed.root[2]] \notin Datasets
  /\ Over
  /\ UNCHANGED <<others, memory, cached, session, world>>

\* Mutant: latents of another checkpoint are taken.
CacheKeyAnyWeights(c) == <<resolve[c.root[2]], c.resolution, c.encodedCacheRoot>>

CacheKey(c) == <<resolve[c.root[2]], c.resolution, c.checkpointDigest, c.encodedCacheRoot>>

\* The trainer's dataset is read from the cache, or its encoders are needed.
OpenDataset ==
  /\ pc = "called" /\ BuildsTrainer
  /\ LET directory == resolve[Parsed.root[2]]
         creating == operation = "create_session"
         hits == {e \in cached : e.key = CacheKey(Parsed)} IN
       /\ directory \in Datasets
       /\ opened' = (IF creating THEN {} ELSE opened) \cup {directory}
       /\ used' = (IF creating THEN {} ELSE used) \cup {e.weights : e \in hits}
       /\ pc' = IF hits = {} THEN "encoders" ELSE "load"
  /\ config' = Parsed
  /\ UNCHANGED <<operation, request, encoder, reserved, others, memory, cached>>
  /\ UNCHANGED <<stored, committed, world>>

LoadEncoders ==
  /\ pc = "encoders"
  /\ Loaded(MemoryOf(encoderDevice))
  /\ used' = used \cup {weights}
  /\ pc' = "encode" /\ encoder' = weights
  /\ UNCHANGED <<operation, request, config, reserved, stranded>>
  /\ UNCHANGED <<others, cached, stored, committed, opened, world>>

\* The encoders are unloaded, with every other model, before the pair is written.
Encode ==
  /\ pc = "encode"
  /\ UnloadAll
  /\ cached' = cached \cup {[key |-> CacheKey(config), weights |-> encoder]}
  /\ Goto("load")
  /\ UNCHANGED <<others, session, world>>

LoadDiffusion ==
  /\ pc = "load"
  /\ Loaded(MemoryOf(config.device[2]))
  /\ used' = used \cup {weights}
  /\ Goto("program")
  /\ UNCHANGED <<others, stranded, cached, stored, committed, opened, world>>

\* LoRA targets are resolved, adapters made and injected in the model.
BuildProgram ==
  /\ pc = "program"
  /\ Goto("optimizer")
  /\ UNCHANGED <<others, memory, cached, session, world>>

BuildOptimizer ==
  /\ pc = "optimizer"
  /\ Goto(IF operation = "advance" THEN "restore" ELSE "write")
  /\ UNCHANGED <<others, memory, cached, session, world>>

Restore ==
  /\ pc = "restore"
  /\ Goto("train")
  /\ UNCHANGED <<others, memory, cached, session, world>>

\* create writes the initial checkpoint; advance steps, publishes and commits, or
\* pauses, which is an exception like any other.
UseTrainer ==
  /\ pc \in {"write", "train"}
  /\ committed' = (committed \/ pc = "train")
  /\ Goto("close")
  /\ UNCHANGED <<others, memory, cached, stored, opened, used, world>>

\* create registers the session after its finally clause; advance has recorded
\* the configuration it loaded.
Recorded ==
  stored' = IF pc = "close" /\ operation = "create_session" THEN config ELSE stored

\* Mutant: the model stays loaded for the next call.
CloseAndKeep ==
  /\ pc \in {"close", "abort"}
  /\ Recorded
  /\ Over
  /\ UNCHANGED <<others, memory, cached, committed, opened, used, world>>

\* The finally clause.
Close ==
  /\ pc \in {"close", "abort"}
  /\ UnloadAll
  /\ Recorded
  /\ Over
  /\ UNCHANGED <<others, cached, committed, opened, used, world>>

\* An exception.  The encoders are loaded when one of them turns out to be missing; their
\* call, and the use of the trainer, are in try blocks that unload.
Fault ==
  /\ \/ pc \in {"encoders", "load"} /\ Over /\ UNCHANGED memory
     \/ /\ pc = "encoders"
        /\ Loaded(MemoryOf(encoderDevice)) /\ Strands(MemoryOf(encoderDevice))
        /\ Over
     \/ pc = "encode" /\ UnloadAll /\ Over
     \/ pc \in {"write", "train"} /\ Goto("abort") /\ UNCHANGED memory
     \/ pc \in Unguarded /\ Strands(MemoryOf(config.device[2])) /\ Over /\ UNCHANGED resident
  /\ UNCHANGED <<others, cached, session, world>>

\* The worker process is killed; a replacement starts with nothing loaded.
Kill ==
  /\ pc # "idle"
  /\ UnloadAll
  /\ Over
  /\ UNCHANGED <<others, cached, session, world>>

\* Another worker takes or gives back a reservation.
Elsewhere ==
  /\ \E r \in Resources :
       \/ Granted({r}) /\ others' = [others EXCEPT ![r] = @ + 1]
       \/ others[r] > 0 /\ others' = [others EXCEPT ![r] = @ - 1]
  /\ UNCHANGED <<call, memory, cached, session, world>>

\* A link is pointed at another dataset.
Relink ==
  /\ \E l \in Links, d \in Datasets : resolve' = [resolve EXCEPT ![l] = d]
  /\ UNCHANGED <<call, others, memory, cached, session, backend, encoderDevice, weights, raced>>

\* The checkpoint file is replaced.
ReplaceWeights ==
  /\ weights' \in Digests \ {weights}
  /\ raced' = (raced \/ pc \in {"encoders", "encode", "load"})
  /\ UNCHANGED <<call, others, memory, cached, session, backend, encoderDevice, resolve>>

Init ==
  /\ pc = "idle" /\ operation = "none" /\ request = NoConfig /\ config = NoConfig
  /\ reserved = {} /\ resident = [r \in Resources |-> 0]
  /\ stranded = [r \in Resources |-> 0] /\ others = [r \in Resources |-> 0]
  /\ encoder = NoConfig /\ raced = FALSE
  /\ backend \in Backends /\ encoderDevice \in EncoderDevices
  /\ cached = {} /\ stored = NoConfig /\ committed = FALSE /\ opened = {} /\ used = {}
  /\ resolve \in [Paths -> RealPaths]
  /\ \A p \in RealPaths : resolve[p] = p
  /\ \A l \in Links : resolve[l] \in Datasets
  /\ weights \in Digests

Next ==
  \/ \E op \in Operations : Invoke(op)
  \/ ReturnWithoutModel \/ OpenDataset \/ LoadEncoders \/ Encode \/ LoadDiffusion \/ BuildProgram
  \/ BuildOptimizer \/ Restore \/ UseTrainer \/ Close \/ Fault \/ Kill
  \/ Elsewhere \/ Relink \/ ReplaceWeights

Spec == Init /\ [][Next]_vars

-----------------------------------------------------------------------------
(* Properties. *)

\* The encoders are in memory the invocation has not reserved: the reservation is made
\* for the worker's device, and dinkster_inference selects its own.
Unreserved(r) ==
  IF pc = "encode" /\ r = MemoryOf(encoderDevice) /\ r \notin reserved THEN 1 ELSE 0

\* With what other workers have reserved the models in memory fit the device, but for one
\* model for each exception that escaped since the last unload, and the encoders while
\* they are in memory nobody reserved: nothing else overcommits a device, whatever is
\* granted and released meanwhile and whatever earlier calls have left behind.
OvercommitBounded ==
  \A r \in Resources : resident[r] + others[r] <= Capacity + stranded[r] + Unreserved(r)

\* What is in memory with no reservation is, one by one, what exceptions outside the try
\* blocks have left there since the last unload: no other way out of an invocation leaves
\* a model, and the next call that unloads takes all of these with it.
RetainedByFaults == reserved = {} => \A r \in Resources : resident[r] = stranded[r]

\* "Model residency exists only during a reserved create or advance invocation
\* ... never ... retains an unaccounted hot model between calls."
NoHotModel == reserved = {} => \A r \in Resources : resident[r] = 0

\* A session is never stranded by its own configuration: what its checkpoints
\* record parses, at any later time, to the configuration with its digest.
StoredConfigStable ==
  stored # NoConfig =>
    Accepted(ToMapping(stored)) /\ FromMapping(ToMapping(stored), resolve) = stored

\* A session trains on one directory, whatever becomes of the link its caller
\* named it by.
OneDataset == \A d, e \in opened : d = e

\* The diffusion model of every trainer of a session, and the encoders of the
\* latents it trains on, whichever session cached them, come from one checkpoint,
\* unless the file is replaced between the hash and the loads of one trainer.
OneModel == ~raced => \A d, e \in used : d = e
=============================================================================
