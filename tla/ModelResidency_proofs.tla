------------------------ MODULE ModelResidency_proofs ------------------------
(***************************************************************************)
(* Proofs about ModelResidency and TrainingConfig for every set of          *)
(* configurations, of datasets and of links, every capacity and device.     *)
(***************************************************************************)
EXTENDS ModelResidency, TLAPS

USE DEF Str, Num, Float, Bool

-----------------------------------------------------------------------------
(* Configurations.  A configuration is normal when it fits, its paths lead   *)
(* nowhere else and its numbers are floats where from_mapping makes them so. *)
Normalised(c) ==
  /\ c = [f \in Fields |-> c[f]]
  /\ \A f \in Fields : Fits(f, c[f])
  /\ \A f \in PathFields : \E p \in RealPaths : c[f] = Str(p)
  /\ \A f \in FloatFields : c[f] = Float(c[f][2])

WorldOK ==
  /\ resolve \in [Paths -> RealPaths]
  /\ \A p \in RealPaths : resolve[p] = p

LEMMA FieldSets ==
  /\ PathFields \subseteq Fields /\ FloatFields \subseteq Fields
  /\ PathFields \cap FloatFields = {}
  /\ PathFields \cap DOMAIN Defaults = {}
  /\ Fields \cap {"schemaVersion", "family"} = {}
  /\ DOMAIN Identity = {"schemaVersion", "family"}
BY DEF PathFields, FloatFields, PositiveFloatFields, PositiveIntFields, Fields, Defaults, Identity

\* What a field of each kind has to be.
LEMMA FitsPath == ASSUME NEW f \in PathFields, NEW v PROVE Fits(f, v) <=> Text(v)
BY DEF Fits, PathFields, PositiveIntFields, PositiveFloatFields

LEMMA FitsPositiveFloat ==
  ASSUME NEW f \in PositiveFloatFields, NEW v PROVE Fits(f, v) <=> Number(v) /\ v[2] > 0
BY FieldSets DEF Fits, PathFields, PositiveIntFields, PositiveFloatFields

LEMMA FitsWeightDecay ==
  ASSUME NEW v PROVE Fits("weightDecay", v) <=> Number(v) /\ v[2] >= 0
BY DEF Fits, PathFields, PositiveIntFields, PositiveFloatFields

\* What a checkpoint records gives back each field.
LEMMA ValueOfToMapping ==
  ASSUME NEW c
  PROVE  /\ DOMAIN ToMapping(c) = Fields \cup {"schemaVersion", "family"}
         /\ \A f \in Fields : Value(ToMapping(c), f) = c[f] /\ ToMapping(c)[f] = c[f]
         /\ ToMapping(c)["schemaVersion"] = Num(1) /\ ToMapping(c)["family"] = Str("sd15")
BY FieldSets DEF ToMapping, Value, Identity

\* A normal configuration survives the way to a checkpoint and back.
LEMMA RoundTrip ==
  ASSUME WorldOK, NEW c, Normalised(c)
  PROVE  Accepted(ToMapping(c)) /\ FromMapping(ToMapping(c), resolve) = c
<1>1. Accepted(ToMapping(c))
  BY ValueOfToMapping, FieldSets DEF Accepted, Normalised
<1>2. ASSUME NEW f \in Fields PROVE Normal(f, c[f], resolve) = c[f]
  <2>1. CASE f \in PathFields
    BY <2>1 DEF Normal, Normalised, WorldOK
  <2>2. CASE f \in FloatFields
    BY <2>2, FieldSets DEF Normal, Normalised
  <2>3. QED BY <2>1, <2>2 DEF Normal
<1>3. FromMapping(ToMapping(c), resolve) = [f \in Fields |-> c[f]]
  BY <1>2, ValueOfToMapping DEF FromMapping
<1>4. QED BY <1>1, <1>3 DEF Normalised

\* from_mapping makes normal configurations.
LEMMA FromMappingNormal ==
  ASSUME WorldOK, NEW m, Accepted(m), \A f \in PathFields : m[f][2] \in Paths
  PROVE  Normalised(FromMapping(m, resolve))
<1> DEFINE c == FromMapping(m, resolve)
<1>1. ASSUME NEW f \in Fields PROVE c[f] = Normal(f, Value(m, f), resolve)
  BY DEF FromMapping
<1>2. ASSUME NEW f \in Fields PROVE Fits(f, Value(m, f))
  BY DEF Accepted
<1>3. ASSUME NEW f \in PathFields PROVE \E p \in RealPaths : c[f] = Str(p) /\ Fits(f, Str(p))
  <2>1. Value(m, f) = m[f]
    BY FieldSets DEF Accepted, Value
  <2>2. resolve[m[f][2]] \in RealPaths \ {""}
    BY ResidencyAssumption DEF WorldOK
  <2>3. c[f] = Str(resolve[m[f][2]])
    BY <1>1, <2>1, FieldSets DEF Normal
  <2>4. Fits(f, Str(resolve[m[f][2]]))
    BY <2>2, FitsPath DEF Text
  <2>5. QED BY <2>2, <2>3, <2>4
<1>4. ASSUME NEW f \in FloatFields PROVE c[f] = Float(c[f][2]) /\ Fits(f, c[f])
  <2>1. c[f] = Float(Value(m, f)[2])
    BY <1>1, FieldSets DEF Normal
  <2>2. Fits(f, Value(m, f))
    BY <1>2, FieldSets
  <2>3. CASE f \in PositiveFloatFields
    BY <2>1, <2>2, <2>3, FitsPositiveFloat DEF Number
  <2>4. CASE f = "weightDecay"
    BY <2>1, <2>2, <2>4, FitsWeightDecay DEF Number
  <2>5. QED BY <2>1, <2>3, <2>4 DEF FloatFields
<1>5. ASSUME NEW f \in Fields \ (PathFields \cup FloatFields) PROVE Fits(f, c[f])
  BY <1>1, <1>2 DEF Normal
<1>6. c = [f \in Fields |-> c[f]]
  BY DEF FromMapping
<1>7. QED BY <1>3, <1>4, <1>5, <1>6 DEF Normalised

-----------------------------------------------------------------------------
(* The configuration of the session. *)

Called == pc \notin {"idle", "called"}   \* the call has a configuration
Creating == operation = "create_session"

ConfigInv ==
  /\ WorldOK
  /\ pc = "called" /\ Creating => request \in Mappings
  /\ Called => Normalised(config)
  /\ Called /\ Creating => stored = NoConfig /\ opened = {config.root[2]}
  /\ stored # NoConfig => Normalised(stored) /\ opened \subseteq {stored.root[2]}
  /\ OneDataset

LEMMA ConfigInit == Init => ConfigInv
BY DEF Init, ConfigInv, WorldOK, Called, OneDataset

\* A mapping that parses names paths.
LEMMA ParsedNormal ==
  ASSUME ConfigInv, pc = "called", BuildsTrainer PROVE Normalised(Parsed)
<1>1. CASE Creating
  <2>1. request \in Mappings /\ Accepted(request) /\ Parsed = FromMapping(request, resolve)
    BY <1>1 DEF ConfigInv, Creating, BuildsTrainer, Parses, Source, Parsed
  <2>2. \A f \in PathFields : request[f][2] \in Paths
    BY <2>1, ResidencyAssumption
  <2>3. QED BY <2>1, <2>2, FromMappingNormal DEF ConfigInv
<1>2. CASE ~Creating
  BY <1>2 DEF ConfigInv, Creating, BuildsTrainer
<1>3. QED BY <1>1, <1>2

\* A normal configuration names its dataset by the directory itself.
LEMMA NormalRoot ==
  ASSUME WorldOK, NEW c, Normalised(c) PROVE resolve[c.root[2]] = c.root[2]
BY DEF Normalised, WorldOK, PathFields

LEMMA ConfigStep == ConfigInv /\ [Next]_vars => ConfigInv'
<1> SUFFICES ASSUME ConfigInv, [Next]_vars PROVE ConfigInv'
  OBVIOUS
<1> USE DEF Called, Creating
<1>1. ASSUME NEW op \in Operations, Invoke(op) PROVE ConfigInv'
  BY <1>1 DEF Invoke, ConfigInv, WorldOK, session, world, OneDataset
<1>2. CASE ReturnWithoutModel
  BY <1>2 DEF ReturnWithoutModel, Over, ConfigInv, WorldOK, session, world, OneDataset
<1>3. CASE OpenDataset
  <2>1. pc = "called" /\ BuildsTrainer /\ config' = Parsed /\ Normalised(Parsed)
    BY <1>3, ParsedNormal DEF OpenDataset
  <2>2. resolve[Parsed.root[2]] = Parsed.root[2]
    BY <2>1, NormalRoot DEF ConfigInv
  <2>3. /\ pc' # "called" /\ UNCHANGED <<operation, stored, world>>
        /\ opened' = IF Creating THEN {Parsed.root[2]} ELSE opened \cup {Parsed.root[2]}
    BY <1>3, <2>2 DEF OpenDataset
  <2>4. WorldOK' BY <2>3 DEF ConfigInv, WorldOK, world
  <2>5. CASE Creating
    <3>1. stored = NoConfig BY <2>1, <2>5 DEF BuildsTrainer
    <3>2. QED BY <2>1, <2>3, <2>4, <2>5, <3>1 DEF ConfigInv, OneDataset
  <2>6. CASE ~Creating
    <3>1. stored # NoConfig /\ Parsed = stored BY <2>1, <2>6 DEF BuildsTrainer
    <3>2. opened' \subseteq {stored.root[2]} BY <2>3, <2>6, <3>1 DEF ConfigInv
    <3>3. QED BY <2>1, <2>3, <2>4, <2>6, <3>1, <3>2 DEF ConfigInv, OneDataset
  <2>7. QED BY <2>5, <2>6
<1>4. CASE LoadEncoders \/ Encode \/ LoadDiffusion \/ BuildProgram \/ BuildOptimizer \/ Restore \/ UseTrainer
  <2>1. Called /\ Called' /\ UNCHANGED <<operation, config, stored, opened, resolve>> /\ pc' # "called"
    BY <1>4 DEF LoadEncoders, Encode, LoadDiffusion, BuildProgram, BuildOptimizer, Restore, UseTrainer, Goto,
                session, world
  <2>2. QED BY <2>1 DEF ConfigInv, WorldOK, OneDataset
<1>5. CASE Close
  <2>1. /\ Called /\ pc' = "idle" /\ UNCHANGED <<opened, resolve>>
        /\ stored' = IF pc = "close" /\ Creating THEN config ELSE stored
    BY <1>5 DEF Close, Recorded, Over, world
  <2>2. QED BY <2>1 DEF ConfigInv, WorldOK, OneDataset
<1>6. CASE Fault
  <2>1. UNCHANGED <<stored, opened, resolve>>
    BY <1>6 DEF Fault, session, world
  <2>2. CASE pc' = "idle"
    BY <2>1, <2>2 DEF ConfigInv, WorldOK, OneDataset
  <2>3. CASE pc' # "idle"
    <3>1. Called /\ pc' = "abort" /\ UNCHANGED <<operation, config>>
      BY <1>6, <2>3 DEF Fault, Over, Goto
    <3>2. QED BY <2>1, <3>1 DEF ConfigInv, WorldOK, OneDataset
  <2>4. QED BY <2>2, <2>3
<1>7. CASE Kill
  BY <1>7 DEF Kill, Over, ConfigInv, WorldOK, session, world, OneDataset
<1>8. CASE Relink
  <2>1. UNCHANGED <<pc, operation, request, config, stored, opened>>
    BY <1>8 DEF Relink, call, session
  <2>2. PICK l \in Links, d \in Datasets : resolve' = [resolve EXCEPT ![l] = d]
    BY <1>8 DEF Relink
  <2>3. d \in RealPaths /\ l \notin RealPaths
    BY ResidencyAssumption DEF RealPaths
  <2>4. WorldOK'
    <3>1. resolve' \in [Paths -> RealPaths]
      BY <2>2, <2>3 DEF ConfigInv, WorldOK
    <3>2. ASSUME NEW p \in RealPaths PROVE resolve'[p] = p
      BY <2>2, <2>3 DEF ConfigInv, WorldOK, Paths
    <3>3. QED BY <3>1, <3>2 DEF WorldOK
  <2>5. QED BY <2>1, <2>4 DEF ConfigInv, OneDataset
<1>9. CASE Elsewhere \/ ReplaceWeights \/ UNCHANGED vars
  <2>1. UNCHANGED <<pc, operation, request, config, stored, opened, resolve>>
    BY <1>9 DEF Elsewhere, ReplaceWeights, vars, call, session, world
  <2>2. QED BY <2>1 DEF ConfigInv, WorldOK, OneDataset
<1>10. QED BY <1>1, <1>2, <1>3, <1>4, <1>5, <1>6, <1>7, <1>8, <1>9 DEF Next

LEMMA ConfigInvariance == Spec => []ConfigInv
BY ConfigInit, ConfigStep, PTL DEF Spec

\* Whatever links and files do, an advance parses what its checkpoint recorded to
\* the configuration create registered (the digest test of _load_trainer passes).
THEOREM SelfConsistent == Spec => []StoredConfigStable
<1>1. ConfigInv => StoredConfigStable
  BY RoundTrip DEF ConfigInv, StoredConfigStable
<1>2. QED BY <1>1, ConfigInvariance, PTL

\* All trainers of a session read one dataset directory.
THEOREM SameDirectory == Spec => []OneDataset
<1>1. ConfigInv => OneDataset BY DEF ConfigInv
<1>2. QED BY <1>1, ConfigInvariance, PTL

-----------------------------------------------------------------------------
(* Memory, wherever exceptions leave and encoders are put. *)

Home == MemoryOf(Device)
Away == MemoryOf(encoderDevice)
Paid == {"ram", Home}   \* what a call that loads has reserved

\* The model of the running call: its encoders, then its diffusion model.
HasModel(r) ==
  \/ pc = "encode" /\ r = Away
  \/ pc \in Unguarded \cup {"write", "train"} /\ r = Home
Own(r) == IF HasModel(r) THEN 1 ELSE 0

MemoryInv ==
  /\ stranded \in [Resources -> Nat] /\ others \in [Resources -> Nat]
  /\ resident = [r \in Resources |-> stranded[r] + Own(r)]
  /\ reserved \subseteq Resources
  /\ \A r \in Resources : others[r] + (IF r \in reserved THEN 1 ELSE 0) <= Capacity
  /\ pc = "called" /\ backend = "sd15-lora" /\ operation \in ModelOperations => Paid \subseteq reserved
  /\ Called => Paid \subseteq reserved /\ config.device = Str(Device)

LEMMA CapacityNat == Capacity \in Nat /\ Capacity >= 1
<1>1. Capacity \in Nat \ {0} BY ResidencyAssumption
<1>2. QED BY <1>1

LEMMA Homes == Paid \subseteq Resources /\ Home \in Resources /\ Away \in Resources
BY DEF Paid, Home, Away, MemoryOf, Resources

LEMMA MemoryInit == Init => MemoryInv
<1> SUFFICES ASSUME Init PROVE MemoryInv
  OBVIOUS
<1>1. \A r \in Resources : Own(r) = 0
  BY DEF Init, Own, HasModel, Unguarded
<1>2. resident = [r \in Resources |-> stranded[r] + Own(r)]
  BY <1>1 DEF Init
<1> QED
  BY <1>2, CapacityNat DEF Init, MemoryInv, Called

\* A step of a call that keeps its reservation and its model.
LEMMA MemoryMoves ==
  ASSUME MemoryInv, Called, Called', \A r \in Resources : Own(r)' = Own(r),
         UNCHANGED <<config, reserved, others, memory>>
  PROVE  MemoryInv'
BY DEF MemoryInv, Called, memory

\* A call that has no model ends, or ends and leaves its model to be counted as stranded.
LEMMA MemoryLeft ==
  ASSUME MemoryInv, UNCHANGED others, pc' = "idle", reserved' = {},
         stranded' \in [Resources -> Nat], resident' = stranded'
  PROVE  MemoryInv'
<1>1. \A r \in Resources : Own(r)' = 0
  BY DEF Own, HasModel, Unguarded
<1>2. resident' = [r \in Resources |-> stranded'[r] + Own(r)']
  BY <1>1
<1>3. \A r \in Resources : others'[r] \in Nat /\ others'[r] <= Capacity
  BY CapacityNat DEF MemoryInv
<1> QED
  BY <1>2, <1>3 DEF MemoryInv, Called

LEMMA MemoryFreed ==
  ASSUME MemoryInv, UNCHANGED others, pc' = "idle", reserved' = {}, UnloadAll
  PROVE  MemoryInv'
BY MemoryLeft DEF UnloadAll

\* The model of a call is one more than what was stranded before.
LEMMA NothingOfItsOwn ==
  ASSUME MemoryInv, \A r \in Resources : Own(r) = 0 PROVE resident = stranded
BY DEF MemoryInv

LEMMA OneMore ==
  ASSUME NEW f \in [Resources -> Nat], NEW p \in Resources, NEW g, g = [f EXCEPT ![p] = @ + 1]
  PROVE  /\ g = [r \in Resources |-> f[r] + (IF r = p THEN 1 ELSE 0)]
         /\ g \in [Resources -> Nat]
<1>1. DOMAIN g = Resources /\ g = [r \in Resources |-> g[r]]
  OBVIOUS
<1>2. ASSUME NEW r \in Resources PROVE g[r] = f[r] + (IF r = p THEN 1 ELSE 0) /\ g[r] \in Nat
  <2>1. f[r] \in Nat /\ g[r] = IF r = p THEN f[p] + 1 ELSE f[r]
    OBVIOUS
  <2> QED
    BY <2>1
<1> QED
  BY <1>1, <1>2

LEMMA LoadedOne ==
  ASSUME MemoryInv, \A r \in Resources : Own(r) = 0, NEW p \in Resources, Loaded(p)
  PROVE  resident' = [r \in Resources |-> stranded[r] + (IF r = p THEN 1 ELSE 0)]
<1>1. resident = stranded /\ stranded \in [Resources -> Nat]
  BY NothingOfItsOwn DEF MemoryInv
<1>2. resident' = [stranded EXCEPT ![p] = @ + 1]
  BY <1>1 DEF Loaded
<1> QED
  BY <1>1, <1>2, OneMore

LEMMA StrandedOne ==
  ASSUME MemoryInv, NEW p \in Resources, Strands(p)
  PROVE  /\ stranded' = [r \in Resources |-> stranded[r] + (IF r = p THEN 1 ELSE 0)]
         /\ stranded' \in [Resources -> Nat]
BY OneMore DEF MemoryInv, Strands

LEMMA FaultKeeps == ASSUME MemoryInv, Fault PROVE MemoryInv'
<1>1. UNCHANGED others
  BY DEF Fault
<1>2. CASE pc \in {"encoders", "load"} /\ Over /\ UNCHANGED memory
  <2>1. \A r \in Resources : Own(r) = 0
    BY <1>2 DEF Own, HasModel, Unguarded
  <2>2. resident' = stranded' /\ stranded' \in [Resources -> Nat]
    BY <1>2, <2>1, NothingOfItsOwn DEF memory, MemoryInv
  <2> QED
    BY <1>1, <1>2, <2>2, MemoryLeft DEF Over
<1>3. CASE pc = "encoders" /\ Loaded(Away) /\ Strands(Away) /\ Over
  <2>1. \A r \in Resources : Own(r) = 0
    BY <1>3 DEF Own, HasModel, Unguarded
  <2>2. resident' = stranded' /\ stranded' \in [Resources -> Nat]
    BY <1>3, <2>1, Homes, LoadedOne, StrandedOne
  <2> QED
    BY <1>1, <1>3, <2>2, MemoryLeft DEF Over
<1>4. CASE pc = "encode" /\ UnloadAll /\ Over
  BY <1>1, <1>4, MemoryFreed DEF Over
<1>5. CASE pc \in {"write", "train"} /\ Goto("abort") /\ UNCHANGED memory
  <2>1. \A r \in Resources : Own(r)' = Own(r)
    BY <1>5 DEF Goto, Own, HasModel, Unguarded
  <2> QED
    BY <1>1, <1>5, <2>1, MemoryMoves DEF Goto, Called
<1>6. CASE pc \in Unguarded /\ Strands(MemoryOf(config.device[2])) /\ Over /\ UNCHANGED resident
  <2>1. Called
    BY <1>6 DEF Unguarded, Called
  <2>2. MemoryOf(config.device[2]) = Home
    BY <2>1 DEF MemoryInv, Home
  <2>3. \A r \in Resources : Own(r) = IF r = Home THEN 1 ELSE 0
    BY <1>6 DEF Own, HasModel, Unguarded
  <2>4. /\ stranded' = [r \in Resources |-> stranded[r] + (IF r = Home THEN 1 ELSE 0)]
        /\ stranded' \in [Resources -> Nat]
    BY <1>6, <2>2, Homes, StrandedOne
  <2>5. resident' = stranded'
    BY <1>6, <2>3, <2>4 DEF MemoryInv
  <2> QED
    BY <1>1, <1>6, <2>4, <2>5, MemoryLeft DEF Over
<1> QED
  BY <1>2, <1>3, <1>4, <1>5, <1>6 DEF Fault, Away

LEMMA MemoryStep == MemoryInv /\ [Next]_vars => MemoryInv'
<1> SUFFICES ASSUME MemoryInv, [Next]_vars PROVE MemoryInv'
  OBVIOUS
<1>1. ASSUME NEW op \in Operations, Invoke(op) PROVE MemoryInv'
  <2>1. /\ ~Called /\ ~Called' /\ pc' = "called" /\ operation' = op /\ reserved' = Reservations(op)
        /\ UNCHANGED <<others, memory, backend>> /\ Granted(Reservations(op))
    BY <1>1 DEF Invoke, world, Called
  <2>2. Reservations(op) \subseteq Resources
    BY Homes DEF Reservations, Paid, Home
  <2>3. ASSUME NEW r \in Resources
        PROVE  others[r] + (IF r \in Reservations(op) THEN 1 ELSE 0) <= Capacity
    BY <2>1, CapacityNat DEF MemoryInv, Granted
  <2>4. backend = "sd15-lora" /\ op \in ModelOperations => Paid \subseteq Reservations(op)
    BY DEF Reservations, Paid, Home
  <2>5. \A r \in Resources : Own(r)' = Own(r)
    BY <1>1, <2>1 DEF Invoke, Own, HasModel, Unguarded
  <2> QED
    BY <2>1, <2>2, <2>3, <2>4, <2>5 DEF MemoryInv, memory
<1>2. CASE ReturnWithoutModel
  <2>1. \A r \in Resources : Own(r) = 0
    BY <1>2 DEF ReturnWithoutModel, Own, HasModel, Unguarded
  <2>2. resident' = stranded' /\ stranded' \in [Resources -> Nat]
    BY <1>2, <2>1, NothingOfItsOwn DEF ReturnWithoutModel, memory, MemoryInv
  <2> QED
    BY <1>2, <2>2, MemoryLeft DEF ReturnWithoutModel, Over
<1>3. CASE OpenDataset
  <2>1. /\ pc = "called" /\ Called' /\ BuildsTrainer /\ config' = Parsed
        /\ UNCHANGED <<reserved, others, memory>> /\ pc' \in {"encoders", "load"}
    BY <1>3 DEF OpenDataset, Called
  <2>2. Paid \subseteq reserved
    BY <2>1 DEF MemoryInv, BuildsTrainer, ModelOperations
  <2>3. Parsed.device = Str(Device)
    BY <2>1 DEF BuildsTrainer, Parses, Parsed
  <2>4. \A r \in Resources : Own(r)' = Own(r)
    BY <2>1 DEF Own, HasModel, Unguarded
  <2> QED
    BY <2>1, <2>2, <2>3, <2>4 DEF MemoryInv, memory
<1>4. CASE LoadEncoders
  <2>1. /\ Called /\ pc = "encoders" /\ Called' /\ pc' = "encode" /\ encoderDevice' = encoderDevice
        /\ UNCHANGED <<config, reserved, others, stranded>> /\ Loaded(Away)
    BY <1>4 DEF LoadEncoders, Called, Away, world
  <2>2. Away' = Away
    BY <2>1 DEF Away
  <2>3. \A r \in Resources : Own(r) = 0 /\ Own(r)' = (IF r = Away THEN 1 ELSE 0)
    BY <2>1, <2>2 DEF Own, HasModel, Unguarded
  <2>4. resident' = [r \in Resources |-> stranded'[r] + Own(r)']
    BY <2>1, <2>3, Homes, LoadedOne
  <2> QED
    BY <2>1, <2>4 DEF MemoryInv
<1>5. CASE Encode
  <2>1. /\ Called /\ Called' /\ pc' = "load" /\ UNCHANGED <<config, reserved, others>>
        /\ UnloadAll
    BY <1>5 DEF Encode, Goto, Called
  <2>2. \A r \in Resources : Own(r)' = 0
    BY <2>1 DEF Own, HasModel, Unguarded
  <2>3. stranded' \in [Resources -> Nat] /\ resident' = [r \in Resources |-> stranded'[r] + Own(r)']
    BY <2>1, <2>2 DEF UnloadAll
  <2> QED
    BY <2>1, <2>3 DEF MemoryInv
<1>6. CASE LoadDiffusion
  <2>1. /\ Called /\ pc = "load" /\ Called' /\ pc' = "program"
        /\ UNCHANGED <<config, reserved, others, stranded>> /\ Loaded(Home)
    BY <1>6 DEF LoadDiffusion, Goto, Called, MemoryInv, Home
  <2>2. \A r \in Resources : Own(r) = 0 /\ Own(r)' = IF r = Home THEN 1 ELSE 0
    BY <2>1 DEF Own, HasModel, Unguarded
  <2>3. resident' = [r \in Resources |-> stranded'[r] + Own(r)']
    BY <2>1, <2>2, Homes, LoadedOne
  <2> QED
    BY <2>1, <2>3 DEF MemoryInv
<1>7. CASE BuildProgram \/ BuildOptimizer \/ Restore \/ UseTrainer
  <2>1. /\ Called /\ Called'
        /\ pc \in Unguarded \cup {"write", "train"} /\ pc' \in Unguarded \cup {"write", "train"}
        /\ UNCHANGED <<config, reserved, others, memory>>
    BY <1>7 DEF BuildProgram, BuildOptimizer, Restore, UseTrainer, Goto, Called, Unguarded
  <2>2. \A r \in Resources : Own(r)' = Own(r)
    BY <2>1 DEF Own, HasModel, Unguarded
  <2> QED
    BY <2>1, <2>2, MemoryMoves
<1>8. CASE Close
  BY <1>8, MemoryFreed DEF Close, Over
<1>9. CASE Fault
  BY <1>9, FaultKeeps
<1>10. CASE Kill
  BY <1>10, MemoryFreed DEF Kill, Over
<1>11. CASE Elsewhere
  <2>1. UNCHANGED <<pc, operation, config, reserved, memory, backend, encoderDevice>>
    BY <1>11 DEF Elsewhere, call, world
  <2>2. PICK r \in Resources :
          \/ Granted({r}) /\ others' = [others EXCEPT ![r] = @ + 1]
          \/ others[r] > 0 /\ others' = [others EXCEPT ![r] = @ - 1]
    BY <1>11 DEF Elsewhere
  <2>3. others' \in [Resources -> Nat]
    BY <2>2 DEF MemoryInv
  <2>4. ASSUME NEW q \in Resources
        PROVE  others'[q] + (IF q \in reserved THEN 1 ELSE 0) <= Capacity
    BY <2>2, CapacityNat DEF MemoryInv, Granted
  <2>5. \A q \in Resources : Own(q)' = Own(q)
    BY <2>1 DEF Own, HasModel, Away
  <2> QED
    BY <2>1, <2>3, <2>4, <2>5 DEF MemoryInv, Called, memory
<1>12. CASE Relink \/ ReplaceWeights \/ UNCHANGED vars
  <2>1. UNCHANGED <<pc, operation, config, reserved, others, memory, backend, encoderDevice>>
    BY <1>12 DEF Relink, ReplaceWeights, vars, call, world
  <2>2. \A r \in Resources : Own(r)' = Own(r)
    BY <2>1 DEF Own, HasModel, Away
  <2> QED
    BY <2>1, <2>2 DEF MemoryInv, Called, memory
<1> QED
  BY <1>1, <1>2, <1>3, <1>4, <1>5, <1>6, <1>7, <1>8, <1>9, <1>10, <1>11, <1>12 DEF Next

LEMMA MemoryInvariance == Spec => []MemoryInv
BY MemoryInit, MemoryStep, PTL DEF Spec

\* Wherever exceptions leave and encoders are put: models and the reservations of other
\* workers exceed a resource by no more than what exceptions have stranded there, and the
\* encoders while they are where nothing is reserved.
THEOREM OvercommitAccounted == Spec => []OvercommitBounded
<1>1. ASSUME MemoryInv, NEW r \in Resources
      PROVE  resident[r] + others[r] <= Capacity + stranded[r] + Unreserved(r)
  <2>1. /\ stranded[r] \in Nat /\ others[r] \in Nat /\ Capacity \in Nat
        /\ resident[r] = stranded[r] + Own(r) /\ Own(r) \in {0, 1} /\ Unreserved(r) \in {0, 1}
    BY <1>1, CapacityNat DEF MemoryInv, Own, HasModel, Unreserved
  <2>2. CASE r \in reserved
    <3>1. others[r] + 1 <= Capacity
      BY <1>1, <2>2 DEF MemoryInv
    <3> QED
      BY <2>1, <3>1
  <2>3. CASE r \notin reserved
    <3>1. others[r] + 0 <= Capacity
      BY <1>1, <2>3 DEF MemoryInv
    <3>2. pc \in Unguarded \cup {"write", "train"} => Home \in reserved
      BY <1>1 DEF MemoryInv, Called, Unguarded, Paid
    <3>3. Own(r) = 1 => Unreserved(r) = 1
      BY <2>3, <3>2 DEF Own, HasModel, Unreserved, Away
    <3> QED
      BY <2>1, <3>1, <3>3
  <2> QED
    BY <2>2, <2>3
<1>2. MemoryInv => OvercommitBounded
  BY <1>1 DEF OvercommitBounded
<1> QED
  BY <1>2, MemoryInvariance, PTL

\* What is in memory when nothing is reserved is what exceptions have left there, model by
\* model; every other way out of an invocation leaves nothing.
THEOREM OnlyFaultsRetain == Spec => []RetainedByFaults
<1>1. ASSUME MemoryInv, reserved = {}, NEW r \in Resources PROVE resident[r] = stranded[r]
  <2>1. ~Called
    BY <1>1 DEF MemoryInv, Paid
  <2>2. Own(r) = 0
    BY <2>1 DEF Called, Own, HasModel, Unguarded
  <2> QED
    BY <1>1, <2>2 DEF MemoryInv
<1>2. MemoryInv => RetainedByFaults
  BY <1>1 DEF RetainedByFaults
<1> QED
  BY <1>2, MemoryInvariance, PTL

-----------------------------------------------------------------------------
(* The weights of a session. *)

From(c) == \A d \in used : Str(d) = c.checkpointDigest

ModelInv ==
  /\ Called /\ operation # "create_session" => config = stored /\ stored # NoConfig
  /\ ~raced =>
       /\ pc \in {"encoders", "encode", "load"} => config.checkpointDigest = Str(weights)
       /\ pc = "encode" => encoder = weights
       /\ \A e \in cached : e.key[3] = Str(e.weights)
       /\ Called => From(config)
       /\ stored # NoConfig => From(stored)
       /\ OneModel

LEMMA ModelInit == Init => ModelInv
BY DEF Init, ModelInv, Called, From, OneModel

LEMMA ModelStep == ConfigInv /\ ModelInv /\ [Next]_vars => ModelInv'
<1> SUFFICES ASSUME ConfigInv, ModelInv, [Next]_vars PROVE ModelInv'
  OBVIOUS
<1> USE DEF Called
<1>1. ASSUME NEW op \in Operations, Invoke(op) PROVE ModelInv'
  BY <1>1 DEF Invoke, ModelInv, From, OneModel, session, world
<1>2. CASE ReturnWithoutModel
  BY <1>2 DEF ReturnWithoutModel, Over, ModelInv, From, OneModel, session, world
<1>3. CASE OpenDataset
  <2> DEFINE hits == {e \in cached : e.key = CacheKey(Parsed)}
             creating == operation = "create_session"
  <2>1. /\ pc = "called" /\ pc' \in {"encoders", "load"} /\ BuildsTrainer /\ config' = Parsed
        /\ UNCHANGED <<operation, cached, stored, world>>
        /\ used' = (IF creating THEN {} ELSE used) \cup {e.weights : e \in hits}
    BY <1>3 DEF OpenDataset
  <2>2. Parsed.checkpointDigest = Str(weights)
    BY <2>1 DEF BuildsTrainer, Parses, Parsed
  <2>3. creating => stored = NoConfig
    BY <2>1 DEF BuildsTrainer
  <2>4. ~creating => Parsed = stored /\ stored # NoConfig
    BY <2>1 DEF BuildsTrainer
  <2>5. ~raced => \A d \in used' : Str(d) = Parsed.checkpointDigest
    <3>1. ~raced => \A e \in hits : Str(e.weights) = Parsed.checkpointDigest
      BY DEF ModelInv, CacheKey
    <3>2. ~raced /\ ~creating => \A d \in used : Str(d) = Parsed.checkpointDigest
      BY <2>4 DEF ModelInv, From
    <3>3. QED BY <2>1, <3>1, <3>2
  <2>6. /\ weights' = weights /\ raced' = raced /\ pc' # "encode"
        /\ ~raced => OneModel'
    BY <2>1, <2>5 DEF world, OneModel
  <2>7. QED BY <2>1, <2>2, <2>3, <2>4, <2>5, <2>6 DEF ModelInv, From
<1>4. CASE LoadEncoders
  <2>1. /\ pc = "encoders" /\ pc' = "encode" /\ encoder' = weights
        /\ used' = used \cup {weights}
        /\ UNCHANGED <<operation, config, cached, stored, raced, weights>>
    BY <1>4 DEF LoadEncoders, world
  <2>2. ~raced => \A d \in used' : Str(d) = config.checkpointDigest
    BY <2>1 DEF ModelInv, From
  <2>3. ~raced => OneModel'
    BY <2>1, <2>2 DEF OneModel
  <2>4. operation = "create_session" => stored = NoConfig
    BY <2>1 DEF ConfigInv, Creating
  <2>5. QED BY <2>1, <2>2, <2>3, <2>4 DEF ModelInv, From
<1>5. CASE Encode
  <2>1. /\ pc = "encode" /\ pc' = "load"
        /\ cached' = cached \cup {[key |-> CacheKey(config), weights |-> encoder]}
        /\ UNCHANGED <<operation, config, stored, used, raced, weights>>
    BY <1>5 DEF Encode, Goto, session, world
  <2>2. ~raced => CacheKey(config)[3] = Str(encoder)
    BY <2>1 DEF ModelInv, CacheKey
  <2>3. QED BY <2>1, <2>2 DEF ModelInv, From, OneModel
<1>6. CASE LoadDiffusion
  <2>1. /\ pc = "load" /\ pc' = "program" /\ used' = used \cup {weights}
        /\ UNCHANGED <<operation, config, cached, stored, raced, weights>>
    BY <1>6 DEF LoadDiffusion, Goto, world
  <2>2. ~raced => \A d \in used' : Str(d) = config.checkpointDigest
    BY <2>1 DEF ModelInv, From
  <2>3. ~raced => OneModel'
    BY <2>1, <2>2 DEF OneModel
  <2>4. operation = "create_session" => stored = NoConfig
    BY <2>1 DEF ConfigInv, Creating
  <2>5. QED BY <2>1, <2>2, <2>3, <2>4 DEF ModelInv, From
<1>7. CASE BuildProgram \/ BuildOptimizer \/ Restore \/ UseTrainer
  <2>1. /\ Called /\ pc' \notin {"encoders", "encode", "load"}
        /\ UNCHANGED <<operation, config, cached, stored, used, raced, weights>>
    BY <1>7 DEF BuildProgram, BuildOptimizer, Restore, UseTrainer, Goto, session, world
  <2>2. QED BY <2>1 DEF ModelInv, From, OneModel
<1>8. CASE Close
  <2>1. /\ Called /\ pc' = "idle" /\ UNCHANGED <<cached, used, raced, weights>>
        /\ stored' = IF pc = "close" /\ operation = "create_session" THEN config ELSE stored
    BY <1>8 DEF Close, Recorded, Over, world
  <2>2. QED BY <2>1 DEF ModelInv, From, OneModel
<1>9. CASE Fault
  <2>1. UNCHANGED <<cached, stored, used, raced, weights>>
    BY <1>9 DEF Fault, session, world
  <2>2. CASE pc' = "idle"
    BY <2>1, <2>2 DEF ModelInv, From, OneModel
  <2>3. CASE pc' # "idle"
    <3>1. Called /\ pc' = "abort" /\ UNCHANGED <<operation, config>>
      BY <1>9, <2>3 DEF Fault, Over, Goto
    <3>2. QED BY <2>1, <3>1 DEF ModelInv, From, OneModel
  <2>4. QED BY <2>2, <2>3
<1>10. CASE Kill
  BY <1>10 DEF Kill, Over, ModelInv, From, OneModel, session, world
<1>11. CASE Elsewhere \/ Relink \/ UNCHANGED vars
  <2>1. UNCHANGED <<pc, operation, config, encoder, cached, stored, used, raced, weights>>
    BY <1>11 DEF Elsewhere, Relink, vars, call, session, world
  <2>2. QED BY <2>1 DEF ModelInv, From, OneModel
<1>12. CASE ReplaceWeights
  <2>1. /\ UNCHANGED <<pc, operation, config, cached, stored, used>>
        /\ raced' = (raced \/ pc \in {"encoders", "encode", "load"})
    BY <1>12 DEF ReplaceWeights, call, session
  <2>2. raced \/ pc \in {"encoders", "encode", "load"} => raced'
    BY <2>1
  <2>3. ~raced' => ~raced /\ pc \notin {"encoders", "encode", "load"}
    BY <2>2
  <2>4. QED BY <2>1, <2>3 DEF ModelInv, From, OneModel
<1>13. QED
  BY <1>1, <1>2, <1>3, <1>4, <1>5, <1>6, <1>7, <1>8, <1>9, <1>10, <1>11, <1>12 DEF Next

\* Every trainer of a session, and the encoders of the latents it trains on, are
\* loaded from one checkpoint, for every cache, whatever files and links do while no
\* trainer is being built.
THEOREM SameModel == Spec => []OneModel
<1>1. ModelInv => OneModel BY DEF ModelInv, OneModel
<1>2. Spec => []ModelInv
  BY ConfigInvariance, ModelInit, ModelStep, PTL DEF Spec
<1>3. QED BY <1>1, <1>2, PTL
=============================================================================
