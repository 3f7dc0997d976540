-------------------------- MODULE EncodedCache_proofs --------------------------
(***************************************************************************)
(* Proofs about EncodedCache for any number of trainers, versions, edits,   *)
(* kills, encoder failures and power losses.                                *)
(***************************************************************************)
EXTENDS EncodedCache, TLAPS

\* A trainer between encoding the dataset and leaving the block, and one that relies
\* on a complete pair.
Writing(w) == pc[w] \in {"replaceTensors", "syncTensors", "replaceManifest", "syncManifest"}
Reading(w) == pc[w] \in {"readManifest", "readTensors", "loadTensors", "loaded"}

Contents == Versions \cup {Nil}

-----------------------------------------------------------------------------
(* Types and the lock. *)

Labels == {"idle", "lock", "locked", "replaceTensors", "syncTensors", "replaceManifest",
           "syncManifest", "readManifest", "readTensors", "loadTensors", "loaded", "corrupt"}

FilesOK ==
  /\ source \in Versions
  /\ tensors \in [Versions -> Contents] /\ manifest \in [Versions -> Contents]
  /\ onDisk \in [{"tensors", "manifest"} -> [Versions -> SUBSET Contents]]
  /\ \A k \in Versions : tensors[k] \in onDisk.tensors[k] /\ manifest[k] \in onDisk.manifest[k]

TrainersOK ==
  /\ pc \in [Trainers -> Labels]
  /\ key \in [Trainers -> Contents] /\ data \in [Trainers -> Contents]
  /\ \A w \in Trainers : pc[w] # "idle" => key[w] \in Versions
  /\ \A w \in Trainers : Writing(w) => data[w] \in Versions

LockOK ==
  /\ lock \in [Versions -> Trainers \cup {Nil}]
  /\ \A k \in Versions, w \in Trainers : lock[k] = w <=> InBlock(w) /\ key[w] = k

BudgetsOK ==
  /\ edits \in 0..MaxEdits /\ kills \in 0..MaxKills
  /\ faults \in 0..MaxFaults /\ losses \in 0..MaxPowerLosses

CacheOK == FilesOK /\ TrainersOK /\ LockOK /\ BudgetsOK

LEMMA CacheOKInit == Init => CacheOK
<1> SUFFICES ASSUME Init PROVE CacheOK
  OBVIOUS
<1>1. FilesOK BY DEF Init, FilesOK, Contents
<1>2. TrainersOK BY DEF Init, TrainersOK, Labels, Contents, Writing
<1>3. LockOK BY CacheAssumption DEF Init, LockOK, InBlock
<1>4. BudgetsOK BY CacheAssumption DEF Init, BudgetsOK
<1>5. QED BY <1>1, <1>2, <1>3, <1>4 DEF CacheOK

LEMMA FilesStep == CacheOK /\ [Next]_vars => FilesOK'
<1> SUFFICES ASSUME CacheOK, [Next]_vars PROVE FilesOK'
  OBVIOUS
<1> USE DEF CacheOK
<1>1. ASSUME NEW w \in Trainers,
             Inspect(w) \/ Enter(w) \/ Hit(w) \/ Encode(w) \/ ReadManifest(w) \/ VerifyTensors(w)
               \/ LoadTensors(w) \/ Fault(w) \/ Kill(w)
      PROVE  FilesOK'
  <2>1. UNCHANGED <<source, tensors, manifest, onDisk>>
    BY <1>1 DEF Inspect, Enter, Hit, Encode, ReadManifest, VerifyTensors, LoadTensors, Fault,
                Kill, files
  <2>2. QED BY <2>1 DEF FilesOK
<1>2. ASSUME NEW w \in Trainers, ReplaceTensors(w) PROVE FilesOK'
  <2>1. key[w] \in Versions /\ data[w] \in Versions
    BY <1>2 DEF ReplaceTensors, TrainersOK, Writing
  <2>2. QED BY <1>2, <2>1 DEF ReplaceTensors, FilesOK, Bytes, Contents
<1>3. ASSUME NEW w \in Trainers, ReplaceManifest(w) PROVE FilesOK'
  <2>1. key[w] \in Versions /\ data[w] \in Versions
    BY <1>3 DEF ReplaceManifest, TrainersOK, Writing
  <2>2. QED BY <1>3, <2>1 DEF ReplaceManifest, FilesOK, Bytes, Contents
<1>4. ASSUME NEW w \in Trainers, SyncTensors(w) \/ SyncManifest(w) PROVE FilesOK'
  <2>1. UNCHANGED <<source, tensors, manifest>> /\ SyncDirectory
    BY <1>4 DEF SyncTensors, SyncManifest
  <2>2. QED BY <2>1 DEF SyncDirectory, FilesOK
<1>5. CASE Edit
  BY <1>5 DEF Edit, files, FilesOK
<1>6. CASE PowerLoss
  <2>1. /\ tensors' \in [Versions -> Contents] /\ manifest' \in [Versions -> Contents]
        /\ source' = source
    BY <1>6 DEF PowerLoss, FilesOK
  <2>2. onDisk' = [tensors |-> [k \in Versions |-> {tensors'[k]}],
                   manifest |-> [k \in Versions |-> {manifest'[k]}]]
    BY <1>6 DEF PowerLoss
  <2>3. QED BY <2>1, <2>2 DEF FilesOK
<1>7. CASE UNCHANGED vars
  BY <1>7 DEF vars, files, FilesOK
<1>8. QED BY <1>1, <1>2, <1>3, <1>4, <1>5, <1>6, <1>7 DEF Next, Continue

LEMMA TrainersStep == CacheOK /\ [Next]_vars => TrainersOK'
<1> SUFFICES ASSUME CacheOK, [Next]_vars PROVE TrainersOK'
  OBVIOUS
<1> USE DEF CacheOK, TrainersOK, Labels, Goto, Writing
<1>1. ASSUME NEW w \in Trainers, Inspect(w) PROVE TrainersOK'
  BY <1>1 DEF Inspect, FilesOK, Contents
<1>2. ASSUME NEW w \in Trainers, Enter(w) \/ Hit(w) \/ SyncTensors(w) \/ SyncManifest(w)
                                   \/ VerifyTensors(w) \/ Fault(w)
      PROVE  TrainersOK'
  BY <1>2 DEF Enter, Hit, SyncTensors, SyncManifest, VerifyTensors, Fault
<1>3. ASSUME NEW w \in Trainers, Encode(w) PROVE TrainersOK'
  BY <1>3 DEF Encode, FilesOK, Contents
<1>4. ASSUME NEW w \in Trainers, ReplaceTensors(w) \/ ReplaceManifest(w) PROVE TrainersOK'
  BY <1>4 DEF ReplaceTensors, ReplaceManifest
<1>5. ASSUME NEW w \in Trainers, ReadManifest(w) PROVE TrainersOK'
  BY <1>5 DEF ReadManifest, FilesOK
<1>6. ASSUME NEW w \in Trainers, LoadTensors(w) PROVE TrainersOK'
  BY <1>6 DEF LoadTensors, FilesOK
<1>7. ASSUME NEW w \in Trainers, Kill(w) PROVE TrainersOK'
  BY <1>7 DEF Kill, Contents
<1>8. CASE PowerLoss
  BY <1>8 DEF PowerLoss, Contents
<1>9. CASE Edit \/ UNCHANGED vars
  BY <1>9 DEF Edit, vars
<1>10. QED BY <1>1, <1>2, <1>3, <1>4, <1>5, <1>6, <1>7, <1>8, <1>9 DEF Next, Continue

LEMMA LockStep == CacheOK /\ [Next]_vars => LockOK'
<1> SUFFICES ASSUME CacheOK, [Next]_vars PROVE LockOK'
  OBVIOUS
<1> USE DEF CacheOK
\* A step that moves one trainer inside or outside its block.
<1>1. ASSUME NEW w \in Trainers, NEW q \in Labels, pc' = [pc EXCEPT ![w] = q],
             UNCHANGED <<lock, key>>, InBlock(w) <=> InBlock(w)'
      PROVE  LockOK'
  BY <1>1 DEF LockOK, InBlock, TrainersOK
\* A step with which a trainer leaves its block.
<1>2. ASSUME NEW w \in Trainers, NEW q \in Labels, pc' = [pc EXCEPT ![w] = q], InBlock(w),
             lock' = Released(w), ~InBlock(w)', key' = key \/ key' = [key EXCEPT ![w] = Nil]
      PROVE  LockOK'
  <2>1. key[w] \in Versions
    BY <1>2 DEF TrainersOK, InBlock
  <2>2. lock[key[w]] = w
    BY <1>2, <2>1 DEF LockOK
  <2>3. lock' = [lock EXCEPT ![key[w]] = Nil]
    BY <1>2, <2>1, <2>2 DEF Released, LockOK
  <2>4. lock' \in [Versions -> Trainers \cup {Nil}]
    BY <2>1, <2>3 DEF LockOK
  <2>5. ASSUME NEW k \in Versions, NEW v \in Trainers
        PROVE  lock'[k] = v <=> InBlock(v)' /\ key'[v] = k
    <3>1. CASE v = w
      BY <1>2, <2>1, <2>2, <2>3, <3>1, CacheAssumption DEF LockOK
    <3>2. CASE v # w
      <4>1. InBlock(v)' = InBlock(v) /\ key'[v] = key[v]
        BY <1>2, <3>2 DEF InBlock, TrainersOK
      <4>2. lock'[k] = v <=> lock[k] = v
        BY <2>1, <2>2, <2>3, <3>2, CacheAssumption DEF LockOK
      <4>3. QED BY <4>1, <4>2 DEF LockOK
    <3>3. QED BY <3>1, <3>2
  <2>6. QED BY <2>4, <2>5 DEF LockOK
<1>3. ASSUME NEW w \in Trainers, Inspect(w) PROVE LockOK'
  <2>1. ~InBlock(w) /\ ~InBlock(w)'
    BY <1>3 DEF Inspect, Resting, Goto, InBlock, TrainersOK
  <2>2. QED BY <1>3, <2>1 DEF Inspect, Goto, LockOK, InBlock, TrainersOK
<1>4. ASSUME NEW w \in Trainers, Enter(w) PROVE LockOK'
  <2>1. key[w] \in Versions /\ ~InBlock(w)
    BY <1>4 DEF Enter, TrainersOK, InBlock
  <2>2. QED BY <1>4, <2>1, CacheAssumption DEF Enter, Goto, LockOK, InBlock, TrainersOK
<1>5. ASSUME NEW w \in Trainers, Hit(w) \/ SyncManifest(w) \/ Fault(w) PROVE LockOK'
  <2>1. PICK q \in {"readManifest", "idle"} : pc' = [pc EXCEPT ![w] = q]
    BY <1>5 DEF Hit, SyncManifest, Fault, Goto
  <2>2. InBlock(w) /\ lock' = Released(w) /\ key' = key /\ q \in Labels
    BY <1>5 DEF Hit, SyncManifest, Fault, InBlock, Labels
  <2>3. ~InBlock(w)'
    BY <2>1 DEF InBlock, TrainersOK
  <2>4. QED BY <1>2, <2>1, <2>2, <2>3
<1>6. ASSUME NEW w \in Trainers, Encode(w) \/ ReplaceTensors(w) \/ SyncTensors(w) PROVE LockOK'
  <2>1. PICK q \in {"replaceTensors", "syncTensors", "replaceManifest"} :
          pc' = [pc EXCEPT ![w] = q]
    BY <1>6 DEF Encode, ReplaceTensors, SyncTensors, Goto
  <2>2. UNCHANGED <<lock, key>> /\ InBlock(w) /\ InBlock(w)' /\ q \in Labels
    BY <1>6, <2>1 DEF Encode, ReplaceTensors, SyncTensors, InBlock, TrainersOK, Labels
  <2>3. QED BY <1>1, <2>1, <2>2
<1>7. ASSUME NEW w \in Trainers, ReplaceManifest(w) PROVE LockOK'
  <2>1. InBlock(w) /\ key' = key
    BY <1>7 DEF ReplaceManifest, InBlock
  <2>2. CASE lock' = Released(w) /\ Goto(w, "readManifest")
    BY <1>2, <2>1, <2>2 DEF Goto, InBlock, TrainersOK, Labels
  <2>3. CASE UNCHANGED lock /\ Goto(w, "syncManifest")
    BY <1>1, <2>1, <2>3 DEF Goto, InBlock, TrainersOK, Labels
  <2>4. QED BY <1>7, <2>2, <2>3 DEF ReplaceManifest
<1>8. ASSUME NEW w \in Trainers, ReadManifest(w) \/ VerifyTensors(w) \/ LoadTensors(w)
      PROVE  LockOK'
  <2>1. PICK q \in {"readTensors", "loadTensors", "loaded", "corrupt"} :
          pc' = [pc EXCEPT ![w] = q]
    BY <1>8 DEF ReadManifest, VerifyTensors, LoadTensors, Goto
  <2>2. UNCHANGED <<lock, key>> /\ ~InBlock(w) /\ ~InBlock(w)' /\ q \in Labels
    BY <1>8, <2>1 DEF ReadManifest, VerifyTensors, LoadTensors, InBlock, TrainersOK, Labels
  <2>3. QED BY <1>1, <2>1, <2>2
<1>9. ASSUME NEW w \in Trainers, Kill(w) PROVE LockOK'
  <2>1. /\ pc' = [pc EXCEPT ![w] = "idle"] /\ key' = [key EXCEPT ![w] = Nil]
        /\ key[w] \in Versions /\ lock' = Released(w) /\ ~InBlock(w)'
    BY <1>9, CacheAssumption DEF Kill, Goto, TrainersOK, InBlock
  <2>2. CASE InBlock(w)
    BY <1>2, <2>1, <2>2 DEF Labels
  <2>3. CASE ~InBlock(w)
    <3>1. lock[key[w]] # w BY <2>1, <2>3 DEF LockOK
    <3>2. lock' = lock BY <2>1, <3>1 DEF Released, LockOK
    <3>3. QED BY <2>1, <2>3, <3>2 DEF LockOK, InBlock, TrainersOK
  <2>4. QED BY <2>2, <2>3
<1>10. CASE PowerLoss
  BY <1>10, CacheAssumption DEF PowerLoss, LockOK, InBlock
<1>11. CASE Edit \/ UNCHANGED vars
  BY <1>11 DEF Edit, vars, LockOK, InBlock
<1>12. QED
  BY <1>3, <1>4, <1>5, <1>6, <1>7, <1>8, <1>9, <1>10, <1>11 DEF Next, Continue

LEMMA BudgetsStep == CacheOK /\ [Next]_vars => BudgetsOK'
<1> SUFFICES ASSUME CacheOK, [Next]_vars PROVE BudgetsOK'
  OBVIOUS
<1> USE CacheAssumption DEF CacheOK, BudgetsOK
<1>1. ASSUME NEW w \in Trainers, Inspect(w) \/ Continue(w) PROVE BudgetsOK'
  BY <1>1 DEF Inspect, Continue, Enter, Hit, Encode, ReplaceTensors, SyncTensors,
              ReplaceManifest, SyncManifest, ReadManifest, VerifyTensors, LoadTensors, budgets
<1>2. ASSUME NEW w \in Trainers, Fault(w) \/ Kill(w) PROVE BudgetsOK'
  BY <1>2 DEF Fault, Kill
<1>3. CASE Edit \/ PowerLoss \/ UNCHANGED vars
  BY <1>3 DEF Edit, PowerLoss, vars, budgets
<1>4. QED BY <1>1, <1>2, <1>3 DEF Next

LEMMA CacheOKInvariance == Spec => []CacheOK
<1>1. CacheOK /\ [Next]_vars => CacheOK'
  BY FilesStep, TrainersStep, LockStep, BudgetsStep DEF CacheOK
<1>2. QED BY <1>1, CacheOKInit, PTL DEF Spec

\* Variables keep their types, and a lock is held exactly by the trainer that is in
\* the block of its key.
THEOREM TypesAndLocks == Spec => []TypeOK
<1>1. CacheOK => TypeOK
  BY DEF CacheOK, FilesOK, TrainersOK, LockOK, BudgetsOK, TypeOK, Labels, Contents
<1>2. QED BY <1>1, CacheOKInvariance, PTL

-----------------------------------------------------------------------------
(* Readers and writers.  While a trainer relies on a pair, no one writes it.   *)

ReadersOK ==
  \A w \in Trainers : Reading(w) =>
    /\ Cached(key[w])
    /\ \A v \in Trainers : Writing(v) => key[v] # key[w]
    /\ pc[w] = "readTensors" => data[w] = manifest[key[w]]
    /\ pc[w] \in {"loadTensors", "loaded"} => data[w] = tensors[key[w]]

WritersOK ==
  \A w \in Trainers :
    /\ pc[w] \in {"syncTensors", "replaceManifest", "syncManifest"} => tensors[key[w]] # Nil
    /\ pc[w] = "syncManifest" => manifest[key[w]] # Nil

\* In a block there is one trainer.
LEMMA OneWriter ==
  ASSUME CacheOK, NEW v \in Trainers, NEW w \in Trainers, InBlock(v), InBlock(w), key[v] = key[w]
  PROVE  v = w
<1>1. key[w] \in Versions BY DEF CacheOK, TrainersOK, InBlock
<1>2. QED BY <1>1 DEF CacheOK, LockOK

LEMMA PairsInit == Init => ReadersOK /\ WritersOK
BY DEF Init, ReadersOK, WritersOK, Reading

\* What a step of a trainer inside its block does to the files of other keys.
LEMMA OtherFiles ==
  ASSUME CacheOK, NEW w \in Trainers,
         ReplaceTensors(w) \/ SyncTensors(w) \/ ReplaceManifest(w) \/ SyncManifest(w)
  PROVE  /\ Writing(w) /\ InBlock(w) /\ UNCHANGED <<source, key, data>>
         /\ key[w] \in Versions /\ data[w] \in Versions
         /\ \E q \in {"syncTensors", "replaceManifest", "syncManifest", "readManifest"} :
              pc' = [pc EXCEPT ![w] = q]
         /\ \A k \in Versions \ {key[w]} : tensors'[k] = tensors[k] /\ manifest'[k] = manifest[k]
BY DEF CacheOK, FilesOK, TrainersOK, ReplaceTensors, SyncTensors, ReplaceManifest, SyncManifest, Goto,
       Writing, InBlock

LEMMA WritersStep == CacheOK /\ WritersOK /\ [Next]_vars => WritersOK'
<1> SUFFICES ASSUME CacheOK, WritersOK, [Next]_vars PROVE WritersOK'
  OBVIOUS
<1> USE DEF CacheOK
\* A step that leaves the files alone, of a trainer that is not in the midst of writing.
<1>1. ASSUME NEW w \in Trainers, pc' = [pc EXCEPT ![w] = pc'[w]],
             key' = [key EXCEPT ![w] = key'[w]], UNCHANGED <<tensors, manifest>>,
             pc'[w] \notin {"syncTensors", "replaceManifest", "syncManifest"}
      PROVE  WritersOK'
  BY <1>1 DEF WritersOK, TrainersOK
<1>2. ASSUME NEW w \in Trainers,
             Inspect(w) \/ Enter(w) \/ Hit(w) \/ Encode(w) \/ ReadManifest(w) \/ VerifyTensors(w)
               \/ LoadTensors(w) \/ Fault(w) \/ Kill(w)
      PROVE  WritersOK'
  BY <1>1, <1>2 DEF Inspect, Enter, Hit, Encode, ReadManifest, VerifyTensors, LoadTensors, Fault,
                    Kill, Goto, files, TrainersOK
<1>3. ASSUME NEW w \in Trainers,
             ReplaceTensors(w) \/ SyncTensors(w) \/ ReplaceManifest(w) \/ SyncManifest(w)
      PROVE  WritersOK'
  <2>1. /\ Writing(w) /\ InBlock(w) /\ key' = key /\ key[w] \in Versions /\ data[w] \in Versions
        /\ \E q \in Labels : pc' = [pc EXCEPT ![w] = q]
        /\ \A k \in Versions \ {key[w]} : tensors'[k] = tensors[k] /\ manifest'[k] = manifest[k]
    BY <1>3, OtherFiles DEF Labels
  <2>2. ASSUME NEW v \in Trainers, v # w,
               pc'[v] \in {"syncTensors", "replaceManifest", "syncManifest"}
        PROVE  tensors'[key[v]] = tensors[key[v]] /\ manifest'[key[v]] = manifest[key[v]]
    <3>1. InBlock(v) /\ key[v] \in Versions
      BY <2>1, <2>2 DEF InBlock, TrainersOK
    <3>2. key[v] # key[w]
      BY <2>1, <2>2, <3>1, OneWriter
    <3>3. QED BY <2>1, <3>1, <3>2
  <2>3. /\ pc'[w] \in {"syncTensors", "replaceManifest", "syncManifest"} => tensors'[key[w]] # Nil
        /\ pc'[w] = "syncManifest" => manifest'[key[w]] # Nil
    BY <1>3, <2>1, CacheAssumption DEF ReplaceTensors, SyncTensors, ReplaceManifest, SyncManifest, Goto,
       WritersOK, TrainersOK, FilesOK
  <2>4. QED BY <2>1, <2>2, <2>3 DEF WritersOK, TrainersOK
<1>4. CASE PowerLoss
  BY <1>4 DEF PowerLoss, WritersOK
<1>5. CASE Edit \/ UNCHANGED vars
  BY <1>5 DEF Edit, vars, files, WritersOK
<1>6. QED BY <1>2, <1>3, <1>4, <1>5 DEF Next, Continue

LEMMA ReadersStep == CacheOK /\ WritersOK /\ ReadersOK /\ [Next]_vars => ReadersOK'
<1> SUFFICES ASSUME CacheOK, WritersOK, ReadersOK, [Next]_vars PROVE ReadersOK'
  OBVIOUS
<1> USE DEF CacheOK
\* A step of a trainer that then neither reads nor writes.
<1>1. ASSUME NEW w \in Trainers, pc' = [pc EXCEPT ![w] = pc'[w]],
             key' = [key EXCEPT ![w] = key'[w]], data' = [data EXCEPT ![w] = data'[w]],
             UNCHANGED <<tensors, manifest>>, ~Reading(w)', ~Writing(w)'
      PROVE  ReadersOK'
  BY <1>1 DEF ReadersOK, Reading, Writing, Cached, TrainersOK
<1>2. ASSUME NEW w \in Trainers, Inspect(w) \/ Enter(w) \/ Fault(w) \/ Kill(w) PROVE ReadersOK'
  BY <1>1, <1>2 DEF Inspect, Enter, Fault, Kill, Goto, files, TrainersOK, Reading, Writing
<1>3. ASSUME NEW w \in Trainers, Hit(w) PROVE ReadersOK'
  <2>1. /\ Cached(key[w]) /\ InBlock(w) /\ ~Writing(w) /\ pc' = [pc EXCEPT ![w] = "readManifest"]
        /\ UNCHANGED <<tensors, manifest, key, data>>
    BY <1>3 DEF Hit, Goto, InBlock, Writing, files
  <2>2. ASSUME NEW v \in Trainers, Writing(v) PROVE key[v] # key[w]
    BY <2>1, <2>2, OneWriter DEF Writing, InBlock
  <2>3. QED BY <2>1, <2>2 DEF ReadersOK, Reading, Writing, Cached, TrainersOK
<1>4. ASSUME NEW w \in Trainers, Encode(w) PROVE ReadersOK'
  <2>1. /\ ~Cached(key[w]) /\ pc' = [pc EXCEPT ![w] = "replaceTensors"]
        /\ data' = [data EXCEPT ![w] = source] /\ UNCHANGED <<tensors, manifest, key>>
    BY <1>4 DEF Encode, Goto, files
  <2>2. \A v \in Trainers : Reading(v) => key[v] # key[w]
    BY <2>1 DEF ReadersOK
  <2>3. QED BY <2>1, <2>2 DEF ReadersOK, Reading, Writing, Cached, TrainersOK
<1>5. ASSUME NEW w \in Trainers,
             ReplaceTensors(w) \/ SyncTensors(w) \/ ReplaceManifest(w) \/ SyncManifest(w)
      PROVE  ReadersOK'
  <2>1. /\ Writing(w) /\ InBlock(w) /\ UNCHANGED <<key, data>>
        /\ key[w] \in Versions /\ data[w] \in Versions
        /\ \A k \in Versions \ {key[w]} : tensors'[k] = tensors[k] /\ manifest'[k] = manifest[k]
    BY <1>5, OtherFiles
  <2>2. PICK q \in {"syncTensors", "replaceManifest", "syncManifest", "readManifest"} :
          pc' = [pc EXCEPT ![w] = q]
    BY <1>5, OtherFiles
  <2>3. ASSUME NEW v \in Trainers, v # w, Reading(v)'
        PROVE  /\ Reading(v) /\ pc'[v] = pc[v] /\ key[v] # key[w] /\ key[v] \in Versions
               /\ tensors'[key[v]] = tensors[key[v]] /\ manifest'[key[v]] = manifest[key[v]]
    <3>1. Reading(v) /\ pc'[v] = pc[v]
      BY <2>2, <2>3 DEF Reading, TrainersOK
    <3>2. key[v] # key[w] /\ key[v] \in Versions
      BY <2>1, <3>1 DEF ReadersOK, Reading, TrainersOK
    <3>3. QED BY <2>1, <3>1, <3>2
  <2>4. \A v \in Trainers : Writing(v)' => Writing(v)
    BY <2>1, <2>2 DEF Writing, TrainersOK
  <2>5. CASE q # "readManifest"
    <3>1. ~Reading(w)'
      BY <2>2, <2>5 DEF Reading, TrainersOK
    <3>2. QED BY <2>1, <2>3, <2>4, <3>1 DEF ReadersOK, Cached
  <2>6. CASE q = "readManifest"
    <3>1. pc'[w] = "readManifest" /\ ~Writing(w)'
      BY <2>2, <2>6 DEF TrainersOK, Writing
    <3>2. Cached(key[w])'
      <4>1. \/ pc[w] = "replaceManifest" /\ tensors' = tensors /\ manifest'[key[w]] = data[w]
            \/ pc[w] = "syncManifest" /\ tensors' = tensors /\ manifest' = manifest
        BY <1>5, <3>1 DEF ReplaceTensors, SyncTensors, ReplaceManifest, SyncManifest, Goto, TrainersOK,
           FilesOK
      <4>2. QED BY <2>1, <4>1, CacheAssumption DEF WritersOK, Cached
    <3>3. \A v \in Trainers : Writing(v)' => key[v] # key[w]
      BY <2>1, <2>4, <3>1, OneWriter DEF Writing, InBlock
    <3>4. QED BY <2>1, <2>3, <2>4, <3>1, <3>2, <3>3 DEF ReadersOK, Cached
  <2>7. QED BY <2>5, <2>6
<1>6. ASSUME NEW w \in Trainers, ReadManifest(w) \/ VerifyTensors(w) \/ LoadTensors(w)
      PROVE  ReadersOK'
  <2>1. /\ Reading(w) /\ UNCHANGED <<tensors, manifest, key>>
        /\ data' = [data EXCEPT ![w] = data'[w]] /\ key[w] \in Versions
    BY <1>6 DEF ReadManifest, VerifyTensors, LoadTensors, Reading, files, TrainersOK
  <2>2. PICK q \in {"readTensors", "loadTensors", "loaded", "corrupt"} : pc' = [pc EXCEPT ![w] = q]
    BY <1>6 DEF ReadManifest, VerifyTensors, LoadTensors, Goto
  <2>3. /\ q = "readTensors" => data'[w] = manifest[key[w]]
        /\ q \in {"loadTensors", "loaded"} => data'[w] = tensors[key[w]]
    BY <1>6, <2>2 DEF ReadManifest, VerifyTensors, LoadTensors, Goto, TrainersOK
  <2>4. QED BY <2>1, <2>2, <2>3 DEF ReadersOK, Reading, Writing, Cached, TrainersOK
<1>7. CASE PowerLoss
  BY <1>7 DEF PowerLoss, ReadersOK, Reading
<1>8. CASE Edit \/ UNCHANGED vars
  BY <1>8 DEF Edit, vars, files, ReadersOK, Reading, Writing, Cached
<1>9. QED BY <1>2, <1>3, <1>4, <1>5, <1>6, <1>7, <1>8 DEF Next, Continue

LEMMA PairsInvariance == Spec => [](CacheOK /\ WritersOK /\ ReadersOK)
BY CacheOKInvariance, PairsInit, WritersStep, ReadersStep, PTL DEF Spec

\* Trainers that computed the same key train on the same tensors.
THEOREM SameTensors == Spec => []SameKeySameTensors
<1>1. ReadersOK => SameKeySameTensors
  BY DEF ReadersOK, Reading, SameKeySameTensors
<1>2. QED BY <1>1, PairsInvariance, PTL

-----------------------------------------------------------------------------
(* Pairs that agree.  Without a power loss a manifest names the tensors beside  *)
(* it; without an edit there is one version of everything.                      *)

UnlostOK ==
  losses = 0 =>
    /\ \A k \in Versions : manifest[k] # Nil => tensors[k] = manifest[k]
    /\ \A w \in Trainers :
         /\ pc[w] \in {"replaceTensors", "syncTensors", "replaceManifest"} => manifest[key[w]] = Nil
         /\ pc[w] \in {"syncTensors", "replaceManifest"} => tensors[key[w]] = data[w]

UneditedOK ==
  edits = 0 =>
    /\ \A w \in Trainers : key[w] \in {source, Nil} /\ data[w] \in {source, Nil}
    /\ \A k \in Versions :
         onDisk.tensors[k] \subseteq {source, Nil} /\ onDisk.manifest[k] \subseteq {source, Nil}

LEMMA AgreeInit == Init => UnlostOK /\ UneditedOK /\ NeverCorrupt
BY DEF Init, UnlostOK, UneditedOK, NeverCorrupt

LEMMA UnlostStep == CacheOK /\ UnlostOK /\ [Next]_vars => UnlostOK'
<1> SUFFICES ASSUME CacheOK, UnlostOK, [Next]_vars, losses' = 0 PROVE UnlostOK'
  BY DEF UnlostOK
<1> USE DEF CacheOK
<1>1. losses = 0 \/ PowerLoss
  BY DEF Next, Continue, Inspect, Enter, Hit, Encode, ReplaceTensors, SyncTensors, ReplaceManifest,
         SyncManifest, ReadManifest, VerifyTensors, LoadTensors, Fault, Kill, Edit, vars, budgets
<1>2. losses = 0
  BY <1>1 DEF PowerLoss, BudgetsOK
\* A step that leaves the files alone, of a trainer that does not begin to write.
<1>3. ASSUME NEW w \in Trainers, pc' = [pc EXCEPT ![w] = pc'[w]],
             key' = [key EXCEPT ![w] = key'[w]], data' = [data EXCEPT ![w] = data'[w]],
             UNCHANGED <<tensors, manifest>>,
             pc'[w] \notin {"replaceTensors", "syncTensors", "replaceManifest"}
      PROVE  UnlostOK'
  BY <1>2, <1>3 DEF UnlostOK, TrainersOK
<1>4. ASSUME NEW w \in Trainers,
             Inspect(w) \/ Enter(w) \/ Hit(w) \/ SyncManifest(w) \/ ReadManifest(w)
               \/ VerifyTensors(w) \/ LoadTensors(w) \/ Fault(w) \/ Kill(w)
      PROVE  UnlostOK'
  BY <1>3, <1>4 DEF Inspect, Enter, Hit, SyncManifest, ReadManifest, VerifyTensors, LoadTensors,
                    Fault, Kill, Goto, files, TrainersOK
<1>5. ASSUME NEW w \in Trainers, Encode(w) PROVE UnlostOK'
  <2>1. /\ ~Cached(key[w]) /\ key[w] \in Versions /\ pc' = [pc EXCEPT ![w] = "replaceTensors"]
        /\ data' = [data EXCEPT ![w] = source] /\ UNCHANGED <<tensors, manifest, key>>
    BY <1>5 DEF Encode, Goto, files, TrainersOK
  <2>2. manifest[key[w]] = Nil
    BY <1>2, <2>1 DEF UnlostOK, Cached
  <2>3. QED BY <1>2, <2>1, <2>2 DEF UnlostOK, TrainersOK
<1>6. ASSUME NEW w \in Trainers, ReplaceTensors(w) \/ SyncTensors(w) \/ ReplaceManifest(w)
      PROVE  UnlostOK'
  <2>1. /\ Writing(w) /\ InBlock(w) /\ UNCHANGED <<key, data>>
        /\ key[w] \in Versions /\ data[w] \in Versions
        /\ \A k \in Versions \ {key[w]} : tensors'[k] = tensors[k] /\ manifest'[k] = manifest[k]
    BY <1>6, OtherFiles
  <2>2. PICK q \in Labels : pc' = [pc EXCEPT ![w] = q]
    BY <1>6, OtherFiles DEF Labels
  <2>3. ASSUME NEW v \in Trainers, v # w,
               pc'[v] \in {"replaceTensors", "syncTensors", "replaceManifest"}
        PROVE  /\ pc'[v] = pc[v] /\ tensors'[key[v]] = tensors[key[v]]
               /\ manifest'[key[v]] = manifest[key[v]]
    <3>1. pc'[v] = pc[v] /\ InBlock(v) /\ key[v] \in Versions
      BY <2>2, <2>3 DEF InBlock, TrainersOK
    <3>2. key[v] # key[w]
      BY <2>1, <2>3, <3>1, OneWriter
    <3>3. QED BY <2>1, <3>1, <3>2
  <2>4. /\ manifest'[key[w]] # Nil => tensors'[key[w]] = manifest'[key[w]]
        /\ pc'[w] \in {"replaceTensors", "syncTensors", "replaceManifest"} =>
             manifest'[key[w]] = Nil
        /\ pc'[w] \in {"syncTensors", "replaceManifest"} => tensors'[key[w]] = data[w]
    BY <1>2, <1>6, <2>1 DEF ReplaceTensors, SyncTensors, ReplaceManifest, Goto, UnlostOK,
       TrainersOK, FilesOK
  <2>5. QED BY <1>2, <2>1, <2>3, <2>4 DEF UnlostOK
<1>7. CASE PowerLoss
  BY <1>2, <1>7 DEF PowerLoss
<1>8. CASE Edit \/ UNCHANGED vars
  BY <1>2, <1>8 DEF Edit, vars, files, UnlostOK
<1>9. QED BY <1>4, <1>5, <1>6, <1>7, <1>8 DEF Next, Continue

LEMMA UneditedStep == CacheOK /\ UneditedOK /\ [Next]_vars => UneditedOK'
<1> SUFFICES ASSUME CacheOK, UneditedOK, [Next]_vars, edits' = 0 PROVE UneditedOK'
  BY DEF UneditedOK
<1> USE DEF CacheOK
<1>1. /\ edits = 0 /\ source' = source
  <2>1. CASE Edit
    BY <2>1 DEF Edit, BudgetsOK
  <2>2. CASE ~Edit
    BY <2>2 DEF Next, Continue, Inspect, Enter, Hit, Encode, ReplaceTensors, SyncTensors,
       ReplaceManifest, SyncManifest, ReadManifest, VerifyTensors, LoadTensors, Fault, Kill,
       PowerLoss, vars, budgets
  <2>3. QED BY <2>1, <2>2
<1>2. \A k \in Versions : tensors[k] \in {source, Nil} /\ manifest[k] \in {source, Nil}
  BY <1>1 DEF UneditedOK, FilesOK
<1>3. ASSUME NEW w \in Trainers, Inspect(w) \/ Enter(w) \/ Hit(w) \/ Encode(w) \/ ReadManifest(w)
                                   \/ VerifyTensors(w) \/ LoadTensors(w) \/ Fault(w) \/ Kill(w)
      PROVE  UneditedOK'
  <2>1. onDisk' = onDisk
    BY <1>3 DEF Inspect, Enter, Hit, Encode, ReadManifest, VerifyTensors, LoadTensors, Fault,
                Kill, files
  <2>2. \A v \in Trainers : key'[v] \in {source, Nil} /\ data'[v] \in {source, Nil}
    BY <1>1, <1>2, <1>3 DEF Inspect, Enter, Hit, Encode, ReadManifest, VerifyTensors, LoadTensors,
                Fault, Kill, UneditedOK, TrainersOK
  <2>3. QED BY <1>1, <2>1, <2>2 DEF UneditedOK
<1>4. ASSUME NEW w \in Trainers, ReplaceTensors(w) \/ ReplaceManifest(w) PROVE UneditedOK'
  <2>1. UNCHANGED <<key, data>> /\ key[w] \in Versions /\ data[w] \in {source, Nil}
    BY <1>1, <1>4, OtherFiles DEF UneditedOK
  <2>2. \A k \in Versions : /\ onDisk'.tensors[k] \subseteq onDisk.tensors[k] \cup {data[w]}
                            /\ onDisk'.manifest[k] \subseteq onDisk.manifest[k] \cup {data[w]}
    BY <1>4, <2>1 DEF ReplaceTensors, ReplaceManifest, Bytes, FilesOK
  <2>3. QED BY <1>1, <2>1, <2>2 DEF UneditedOK
<1>5. ASSUME NEW w \in Trainers, SyncTensors(w) \/ SyncManifest(w) PROVE UneditedOK'
  BY <1>1, <1>2, <1>5 DEF SyncTensors, SyncManifest, SyncDirectory, UneditedOK
<1>6. CASE PowerLoss
  <2>1. \A k \in Versions : tensors'[k] \in {source, Nil} /\ manifest'[k] \in {source, Nil}
    BY <1>1, <1>6 DEF PowerLoss, UneditedOK
  <2>2. /\ onDisk' = [tensors |-> [k \in Versions |-> {tensors'[k]}],
                      manifest |-> [k \in Versions |-> {manifest'[k]}]]
        /\ \A w \in Trainers : key'[w] = Nil /\ data'[w] = Nil
    BY <1>6 DEF PowerLoss
  <2>3. QED BY <1>1, <2>1, <2>2 DEF UneditedOK
<1>7. CASE Edit
  BY <1>7 DEF Edit, BudgetsOK
<1>8. CASE UNCHANGED vars
  BY <1>1, <1>8 DEF vars, files, UneditedOK
<1>9. QED BY <1>3, <1>4, <1>5, <1>6, <1>7, <1>8 DEF Next, Continue

AgreeInv == CacheOK /\ WritersOK /\ ReadersOK /\ UnlostOK /\ UneditedOK

LEMMA AgreeInvariance == Spec => []AgreeInv
BY PairsInvariance, AgreeInit, UnlostStep, UneditedStep, PTL DEF Spec, AgreeInv

\* Neither an edit nor a power loss is taken back.
LEMMA CausesRemain == AgreeInv /\ [Next]_vars /\ OneCause' => OneCause
BY DEF AgreeInv, CacheOK, BudgetsOK, OneCause, Next, Continue, Inspect, Enter, Hit, Encode,
       ReplaceTensors, SyncTensors, ReplaceManifest, SyncManifest, ReadManifest, VerifyTensors,
       LoadTensors, Fault, Kill, PowerLoss, Edit, vars, budgets

\* A complete pair that no one is writing agrees.
LEMMA PairAgrees ==
  ASSUME AgreeInv, OneCause, NEW k \in Versions, Cached(k) PROVE tensors[k] = manifest[k]
<1>1. CASE losses = 0 BY <1>1 DEF AgreeInv, UnlostOK, Cached
<1>2. CASE edits = 0
  <2>1. tensors[k] \in {source, Nil} /\ manifest[k] \in {source, Nil}
    BY <1>2 DEF AgreeInv, UneditedOK, CacheOK, FilesOK
  <2>2. QED BY <2>1 DEF Cached
<1>3. QED BY <1>1, <1>2 DEF OneCause

LEMMA CorruptStep == AgreeInv /\ NeverCorrupt /\ [Next]_vars => NeverCorrupt'
<1> SUFFICES ASSUME AgreeInv, NeverCorrupt, [Next]_vars, OneCause', NEW w \in Trainers
             PROVE  pc'[w] # "corrupt"
  BY DEF NeverCorrupt
<1> USE DEF AgreeInv
<1>1. OneCause /\ pc[w] # "corrupt"
  BY CausesRemain DEF NeverCorrupt
<1>2. ASSUME NEW v \in Trainers, ReadManifest(v) PROVE pc'[w] # "corrupt"
  <2>1. manifest[key[v]] # Nil
    BY <1>2 DEF ReadManifest, ReadersOK, Reading, Cached
  <2>2. QED BY <1>1, <1>2, <2>1 DEF ReadManifest, Goto, CacheOK, TrainersOK
<1>3. ASSUME NEW v \in Trainers, VerifyTensors(v) PROVE pc'[w] # "corrupt"
  <2>1. Cached(key[v]) /\ data[v] = manifest[key[v]] /\ key[v] \in Versions
    BY <1>3 DEF VerifyTensors, ReadersOK, Reading, CacheOK, TrainersOK
  <2>2. tensors[key[v]] = data[v]
    BY <1>1, <2>1, PairAgrees
  <2>3. QED BY <1>1, <1>3, <2>2 DEF VerifyTensors, Goto, CacheOK, TrainersOK
<1>4. ASSUME NEW v \in Trainers,
             Inspect(v) \/ Enter(v) \/ Hit(v) \/ Encode(v) \/ ReplaceTensors(v) \/ SyncTensors(v)
               \/ ReplaceManifest(v) \/ SyncManifest(v) \/ LoadTensors(v) \/ Fault(v) \/ Kill(v)
      PROVE  pc'[w] # "corrupt"
  BY <1>1, <1>4 DEF Inspect, Enter, Hit, Encode, ReplaceTensors, SyncTensors, ReplaceManifest,
     SyncManifest, LoadTensors, Fault, Kill, Goto, CacheOK, TrainersOK
<1>5. CASE PowerLoss \/ Edit \/ UNCHANGED vars
  BY <1>1, <1>5 DEF PowerLoss, Edit, vars
<1>6. QED BY <1>2, <1>3, <1>4, <1>5 DEF Next, Continue

\* For any number of trainers, kills, failures, and edits or power losses, the cache
\* verifies whenever it is read.
THEOREM CacheVerifies == Spec => []NeverCorrupt
BY AgreeInvariance, AgreeInit, CorruptStep, PTL DEF Spec

LEMMA FinalStep ==
  ASSUME AgreeInv, [Next]_vars, OneCause, losses' = losses, NEW k \in Versions, Cached(k)
  PROVE  tensors'[k] = tensors[k] /\ manifest'[k] = manifest[k]
<1> USE DEF AgreeInv
<1>1. ASSUME NEW w \in Trainers, ReplaceTensors(w) \/ ReplaceManifest(w)
      PROVE  tensors'[k] = tensors[k] /\ manifest'[k] = manifest[k]
  <2>1. /\ Writing(w) /\ key[w] \in Versions /\ data[w] \in Versions
        /\ k # key[w] => tensors'[k] = tensors[k] /\ manifest'[k] = manifest[k]
    BY <1>1, OtherFiles
  <2>2. CASE k = key[w] /\ losses = 0
    <3>1. manifest[k] = Nil
      BY <1>1, <2>2 DEF UnlostOK, ReplaceTensors, ReplaceManifest
    <3>2. QED BY <3>1 DEF Cached
  <2>3. CASE k = key[w] /\ edits = 0
    <3>1. /\ tensors[k] \in {source, Nil} /\ manifest[k] \in {source, Nil}
          /\ data[w] \in {source, Nil}
      BY <2>3 DEF UneditedOK, CacheOK, FilesOK
    <3>2. tensors[k] = data[w] /\ manifest[k] = data[w]
      BY <2>1, <3>1, CacheAssumption DEF Cached
    <3>3. QED BY <1>1, <2>3, <3>2 DEF ReplaceTensors, ReplaceManifest
  <2>4. QED BY <2>1, <2>2, <2>3 DEF OneCause
<1>2. CASE ~PowerLoss /\ \A w \in Trainers : ~ReplaceTensors(w) /\ ~ReplaceManifest(w)
  BY <1>2 DEF Next, Continue, Inspect, Enter, Hit, Encode, SyncTensors, SyncManifest, ReadManifest,
     VerifyTensors, LoadTensors, Fault, Kill, Edit, vars, files
<1>3. CASE PowerLoss
  BY <1>3 DEF PowerLoss, CacheOK, BudgetsOK
<1>4. QED BY <1>1, <1>2, <1>3

\* A complete pair is never written again, under the same condition.
THEOREM PairIsFinal == Spec => CompletePairIsFinal
<1>1. AgreeInv /\ [Next]_vars =>
        [OneCause /\ losses' = losses =>
           \A k \in Versions : Cached(k) => tensors'[k] = tensors[k] /\ manifest'[k] = manifest[k]]_vars
  BY FinalStep
<1>2. QED BY <1>1, AgreeInvariance, PTL DEF Spec, CompletePairIsFinal
================================================================================
