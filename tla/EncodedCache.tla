----------------------------- MODULE EncodedCache -----------------------------
(***************************************************************************)
(* The encoded-dataset cache (EncodedDataset): trainers of several          *)
(* processes hash the dataset into a cache key, encode it under a           *)
(* per-key process lock if the cached pair (tensors, manifest) is not       *)
(* there, and read the pair back after the lock is released.  A process may *)
(* be killed anywhere, the encoder may fail, the machine may lose power with *)
(* directory entries that are not on disk, and the user may edit the dataset *)
(* while a trainer is between hashing and reading it.                       *)
(*                                                                          *)
(* What is encoded, the dataset's content and the encoders' weights, is a   *)
(* version; a tensor file's digest is the version it encodes.               *)
(***************************************************************************)
EXTENDS Integers

CONSTANTS
  Trainers,
  Versions,      \* contents the dataset may have; a cache key is one of them
  Nil,
  Torn,          \* in a file whose bytes did not reach the disk
  MaxEdits, MaxKills, MaxFaults, MaxPowerLosses   \* bounds on what goes wrong

ASSUME CacheAssumption ==
  /\ MaxEdits \in Nat /\ MaxKills \in Nat /\ MaxFaults \in Nat /\ MaxPowerLosses \in Nat
  /\ Nil \notin Versions \cup Trainers \cup {Torn}

VARIABLES
  source,     \* the dataset directory's content
  tensors,    \* tensors[k]: what <key>.safetensors encodes, Nil if absent
  manifest,   \* manifest[k]: the tensorDigest <key>.json records, Nil if absent
  onDisk,     \* for each file, what a power loss may leave of it
  lock,       \* lock[k]: the trainer that holds <key>.lock, Nil if free
  pc,
  key,        \* cache_key, from inspect_dataset
  data,       \* what the trainer has encoded, then what it has read
  edits, kills, faults, losses

files == <<tensors, manifest, onDisk>>
budgets == <<edits, kills, faults, losses>>
vars == <<source, files, lock, pc, key, data, budgets>>

-----------------------------------------------------------------------------
Goto(w, label) == pc' = [pc EXCEPT ![w] = label]
Resting(w) == pc[w] \in {"idle", "loaded", "corrupt"}

\* inspect_dataset: every image and caption is read and hashed.
Inspect(w) ==
  /\ Resting(w)
  /\ key' = [key EXCEPT ![w] = source]
  /\ data' = [data EXCEPT ![w] = Nil]
  /\ Goto(w, "lock")
  /\ UNCHANGED <<source, files, lock, budgets>>

\* Mutant: the lock is not taken.
EnterWithoutLock(w) ==
  /\ pc[w] = "lock"
  /\ Goto(w, "locked")
  /\ UNCHANGED <<source, files, lock, key, data, budgets>>

\* advisory_file_lock: flock(LOCK_EX) waits for the holder.
Enter(w) ==
  /\ pc[w] = "lock"
  /\ lock[key[w]] = Nil
  /\ lock' = [lock EXCEPT ![key[w]] = w]
  /\ Goto(w, "locked")
  /\ UNCHANGED <<source, files, key, data, budgets>>

\* Mutant: leaving the block keeps the lock.
StillHeld(w) == lock

Released(w) == [lock EXCEPT ![key[w]] = IF @ = w THEN Nil ELSE @]

Cached(k) == tensors[k] # Nil /\ manifest[k] # Nil

Hit(w) ==
  /\ pc[w] = "locked"
  /\ Cached(key[w])
  /\ lock' = Released(w)
  /\ Goto(w, "readManifest")
  /\ UNCHANGED <<source, files, key, data, budgets>>

\* Pixels and captions are read again, and encoded.
Encode(w) ==
  /\ pc[w] = "locked"
  /\ ~Cached(key[w])
  /\ data' = [data EXCEPT ![w] = source]
  /\ Goto(w, "replaceTensors")
  /\ UNCHANGED <<source, files, lock, key, budgets>>

\* Mutant: the bytes are not synced before the file is renamed.
BytesUnsynced(v) == {v, Torn}

\* What may be on disk in the place of a file that has just been renamed there, for
\* its bytes are synced first.
Bytes(v) == {v}

\* fsync_directory: both files of every key are in one directory.
SyncDirectory ==
  onDisk' = [tensors |-> [k \in Versions |-> {tensors[k]}],
             manifest |-> [k \in Versions |-> {manifest[k]}]]

\* atomic_replace of the tensors; a file with the same bytes is left as it is.
ReplaceTensors(w) ==
  /\ pc[w] = "replaceTensors"
  /\ \/ /\ tensors[key[w]] = data[w]
        /\ Goto(w, "replaceManifest")
        /\ UNCHANGED <<tensors, onDisk>>
     \/ /\ tensors[key[w]] # data[w]
        /\ tensors' = [tensors EXCEPT ![key[w]] = data[w]]
        /\ onDisk' = [onDisk EXCEPT !.tensors[key[w]] = @ \cup Bytes(data[w])]
        /\ Goto(w, "syncTensors")
  /\ UNCHANGED <<source, manifest, lock, key, data, budgets>>

SyncTensors(w) ==
  /\ pc[w] = "syncTensors"
  /\ SyncDirectory
  /\ Goto(w, "replaceManifest")
  /\ UNCHANGED <<source, tensors, manifest, lock, key, data, budgets>>

\* The manifest makes the pair complete; leaving the block releases the lock.
ReplaceManifest(w) ==
  /\ pc[w] = "replaceManifest"
  /\ \/ /\ manifest[key[w]] = data[w]
        /\ lock' = Released(w)
        /\ Goto(w, "readManifest")
        /\ UNCHANGED <<manifest, onDisk>>
     \/ /\ manifest[key[w]] # data[w]
        /\ manifest' = [manifest EXCEPT ![key[w]] = data[w]]
        /\ onDisk' = [onDisk EXCEPT !.manifest[key[w]] = @ \cup Bytes(data[w])]
        /\ Goto(w, "syncManifest")
        /\ UNCHANGED lock
  /\ UNCHANGED <<source, tensors, key, data, budgets>>

SyncManifest(w) ==
  /\ pc[w] = "syncManifest"
  /\ SyncDirectory
  /\ lock' = Released(w)
  /\ Goto(w, "readManifest")
  /\ UNCHANGED <<source, tensors, manifest, key, data, budgets>>

\* The pair is read back with no lock held: first the manifest...
ReadManifest(w) ==
  /\ pc[w] = "readManifest"
  /\ data' = [data EXCEPT ![w] = manifest[key[w]]]
  /\ Goto(w, IF manifest[key[w]] = Nil THEN "corrupt" ELSE "readTensors")
  /\ UNCHANGED <<source, files, lock, key, budgets>>

\* ...then the tensors, twice: once to verify the digest, once to load them.
VerifyTensors(w) ==
  /\ pc[w] = "readTensors"
  /\ Goto(w, IF tensors[key[w]] = data[w] THEN "loadTensors" ELSE "corrupt")
  /\ UNCHANGED <<source, files, lock, key, data, budgets>>

LoadTensors(w) ==
  /\ pc[w] = "loadTensors"
  /\ data' = [data EXCEPT ![w] = tensors[key[w]]]
  /\ Goto(w, "loaded")
  /\ UNCHANGED <<source, files, lock, key, budgets>>

-----------------------------------------------------------------------------
\* An exception inside the block: the encoder fails or returns a wrong batch.
Fault(w) ==
  /\ pc[w] = "locked"
  /\ ~Cached(key[w])
  /\ faults < MaxFaults
  /\ faults' = faults + 1
  /\ lock' = Released(w)
  /\ Goto(w, "idle")
  /\ UNCHANGED <<source, files, key, data, edits, kills, losses>>

\* The system drops a dead process's lock.
Kill(w) ==
  /\ pc[w] # "idle"
  /\ kills < MaxKills
  /\ kills' = kills + 1
  /\ lock' = IF key[w] = Nil THEN lock ELSE Released(w)
  /\ key' = [key EXCEPT ![w] = Nil]
  /\ data' = [data EXCEPT ![w] = Nil]
  /\ Goto(w, "idle")
  /\ UNCHANGED <<source, files, edits, faults, losses>>

\* Every trainer stops; of each file that was renamed since the directory was last
\* synced there is the new one or one that was there before.
PowerLoss ==
  /\ losses < MaxPowerLosses
  /\ losses' = losses + 1
  /\ tensors' \in {f \in [Versions -> UNION {onDisk.tensors[k] : k \in Versions}] :
                    \A k \in Versions : f[k] \in onDisk.tensors[k]}
  /\ manifest' \in {f \in [Versions -> UNION {onDisk.manifest[k] : k \in Versions}] :
                     \A k \in Versions : f[k] \in onDisk.manifest[k]}
  /\ onDisk' = [tensors |-> [k \in Versions |-> {tensors'[k]}],
                manifest |-> [k \in Versions |-> {manifest'[k]}]]
  /\ lock' = [k \in Versions |-> Nil]
  /\ pc' = [w \in Trainers |-> "idle"]
  /\ key' = [w \in Trainers |-> Nil] /\ data' = [w \in Trainers |-> Nil]
  /\ UNCHANGED <<source, edits, kills, faults>>

Edit ==
  /\ edits < MaxEdits
  /\ edits' = edits + 1
  /\ \E v \in Versions \ {source} : source' = v
  /\ UNCHANGED <<files, lock, pc, key, data, kills, faults, losses>>

Init ==
  /\ source \in Versions
  /\ tensors = [k \in Versions |-> Nil]
  /\ manifest = [k \in Versions |-> Nil]
  /\ lock = [k \in Versions |-> Nil]
  /\ pc = [w \in Trainers |-> "idle"]
  /\ key = [w \in Trainers |-> Nil]
  /\ data = [w \in Trainers |-> Nil]
  /\ onDisk = [tensors |-> [k \in Versions |-> {Nil}], manifest |-> [k \in Versions |-> {Nil}]]
  /\ edits = 0 /\ kills = 0 /\ faults = 0 /\ losses = 0

Continue(w) ==
  \/ Enter(w) \/ Hit(w) \/ Encode(w) \/ ReplaceTensors(w) \/ SyncTensors(w)
  \/ ReplaceManifest(w) \/ SyncManifest(w) \/ ReadManifest(w) \/ VerifyTensors(w) \/ LoadTensors(w)

Next ==
  \/ \E w \in Trainers : Inspect(w) \/ Continue(w) \/ Fault(w) \/ Kill(w)
  \/ Edit \/ PowerLoss

Spec == Init /\ [][Next]_vars

\* A process is scheduled; flock wakes some waiter and starves none.
FairSpec == Spec /\ \A w \in Trainers : SF_vars(Continue(w))

-----------------------------------------------------------------------------
(* Properties. *)

InBlock(w) ==
  pc[w] \in {"locked", "replaceTensors", "syncTensors", "replaceManifest", "syncManifest"}

\* Not both an edit and a power loss: together they can leave the manifest of one
\* version where tensors of another are written next.
OneCause == edits = 0 \/ losses = 0

\* Types, and who holds a lock: exactly the trainer inside the key's block.
TypeOK ==
  /\ source \in Versions
  /\ tensors \in [Versions -> Versions \cup {Nil}]
  /\ manifest \in [Versions -> Versions \cup {Nil}]
  /\ onDisk \in [{"tensors", "manifest"} -> [Versions -> SUBSET (Versions \cup {Nil})]]
  /\ \A k \in Versions : tensors[k] \in onDisk.tensors[k] /\ manifest[k] \in onDisk.manifest[k]
  /\ lock \in [Versions -> Trainers \cup {Nil}]
  /\ \A k \in Versions, w \in Trainers : lock[k] = w <=> InBlock(w) /\ key[w] = k
  /\ pc \in [Trainers -> {"idle", "lock", "locked", "replaceTensors", "syncTensors",
                          "replaceManifest", "syncManifest", "readManifest", "readTensors",
                          "loadTensors", "loaded", "corrupt"}]
  /\ key \in [Trainers -> Versions \cup {Nil}]
  /\ data \in [Trainers -> Versions \cup {Nil}]
  /\ edits \in 0..MaxEdits /\ kills \in 0..MaxKills /\ faults \in 0..MaxFaults
  /\ losses \in 0..MaxPowerLosses

\* A cache written by this code always verifies: a kill or a power loss anywhere, or
\* an edit, never leaves a pair whose digests disagree, and the reads after the lock
\* never see one half of another trainer's write.
NeverCorrupt == OneCause => \A w \in Trainers : pc[w] # "corrupt"

\* Trainers that computed the same key train on the same tensors, whoever
\* encoded them and however many of them died trying.
SameKeySameTensors ==
  \A v, w \in Trainers :
    pc[v] = "loaded" /\ pc[w] = "loaded" /\ key[v] = key[w] => data[v] = data[w]

\* Once complete, a cached pair is never written again; only a power loss can undo
\* a write.
CompletePairIsFinal ==
  [][OneCause /\ losses' = losses =>
       \A k \in Versions : Cached(k) => tensors'[k] = tensors[k] /\ manifest'[k] = manifest[k]]_vars

\* A trainer that has hashed the dataset gets its tensors, or dies or fails:
\* no one waits for a lock whose holder is gone.
LoadsFinish == \A w \in Trainers : pc[w] = "lock" ~> Resting(w)

\* The manifest's datasetDigest is the digest of what was encoded: the tensors
\* under a key encode the dataset that has that key.
CacheHoldsItsKey ==
  \A w \in Trainers : pc[w] = "loaded" => data[w] = key[w]
===============================================================================
