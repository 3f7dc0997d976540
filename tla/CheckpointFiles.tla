--------------------------- MODULE CheckpointFiles ---------------------------
(***************************************************************************)
(* ContentAddressedCheckpointStore on a POSIX file system: several worker   *)
(* processes write checkpoints (shards, then the manifest that names them), *)
(* each file through atomic_replace, and then tell the ledger.  A process   *)
(* may be killed between any two of these steps, and the machine may lose   *)
(* power.  A process also exports checkpoints as LoRA files, to a path of   *)
(* the user's choice that any export may replace.                           *)
(*                                                                          *)
(* A path is the digest of the bytes that belong there, so a file is either *)
(* whole or torn.  The directory holds more than the disk does: an entry    *)
(* made by os.replace survives a power loss for certain only once its       *)
(* directory has been fsynced, and bytes never fsynced may come back torn.  *)
(***************************************************************************)
EXTENDS Integers, Sequences, SequencesExt

CONSTANTS
  Writers,       \* worker processes
  Checkpoints,   \* manifest digests
  ShardsOf,      \* ShardsOf[c]: the shards of c, in the order write takes them
  Nil,
  InitialRoots,  \* the directories at the start: "missing", or "durable" (left by earlier runs)
  MaxKills, MaxPowerLosses   \* bounds on what goes wrong

Shards == UNION {ToSet(ShardsOf[c]) : c \in Checkpoints}
Paths == Shards \cup Checkpoints

ASSUME FilesAssumption ==
  /\ ShardsOf \in [Checkpoints -> Seq(Shards)] /\ Shards \cap Checkpoints = {}
  /\ Nil \notin Checkpoints /\ "partial" \notin Checkpoints
  /\ InitialRoots \subseteq {"missing", "durable"}
  /\ MaxKills \in Nat /\ MaxPowerLosses \in Nat

VARIABLES
  root,      \* the store's directories: "missing", "visible" or "durable"
  visible,   \* paths a process sees
  durable,   \* paths whose directory entry is on disk
  flushed,   \* paths whose bytes are on disk
  torn,      \* paths whose bytes were lost
  temp,      \* each writer's temporary file: "none", "written" or "synced"
  pc,        \* "collision": resting after a call that raised one
  writing,   \* the checkpoint a writer is writing
  plan,      \* the paths it has still to write
  named,     \* checkpoints the ledger names
  current,   \* those named since the last power loss
  exports,   \* the directory of the exports, as root
  lora,      \* the checkpoint whose export is at the path, Nil if nothing is there
  onDisk,    \* what a power loss may leave there
  kills, losses

disk == <<root, visible, durable, flushed, torn>>
procs == <<temp, pc, writing, plan>>
exported == <<exports, lora, onDisk>>
vars == <<disk, procs, named, current, exported, kills, losses>>

-----------------------------------------------------------------------------
Goto(w, label) == pc' = [pc EXCEPT ![w] = label]

\* Mutant: the manifest before the shards it names.
ManifestFirst(c) == <<c>> \o ShardsOf[c]

PlanOf(c) == Append(ShardsOf[c], c)

\* durable_mkdir of the constructor.  A directory that exists is left alone,
\* whether or not its creator has fsynced it yet.
OpenStore(w) ==
  /\ pc[w] = "closed"
  /\ IF root = "missing"
     THEN root' = "visible" /\ Goto(w, "syncRoot")
     ELSE root' = root /\ Goto(w, "ready")
  /\ UNCHANGED <<visible, durable, flushed, torn, temp, writing, plan, named, current,
                 exported, kills, losses>>

SyncRoot(w) ==
  /\ pc[w] = "syncRoot"
  /\ root' = "durable"
  /\ Goto(w, "ready")
  /\ UNCHANGED <<visible, durable, flushed, torn, temp, writing, plan, named, current,
                 exported, kills, losses>>

\* Mutant: a checkpoint whose manifest exists is taken to be complete.
StartUnlessPresent(w, c) ==
  /\ pc[w] \in {"ready", "collision"}
  /\ writing' = [writing EXCEPT ![w] = c]
  /\ IF c \in visible
     THEN plan' = [plan EXCEPT ![w] = <<>>] /\ Goto(w, "name")
     ELSE plan' = [plan EXCEPT ![w] = PlanOf(c)] /\ Goto(w, "check")
  /\ UNCHANGED <<disk, temp, named, current, exported, kills, losses>>

StartWrite(w, c) ==
  /\ pc[w] \in {"ready", "collision"}
  /\ writing' = [writing EXCEPT ![w] = c]
  /\ plan' = [plan EXCEPT ![w] = PlanOf(c)]
  /\ Goto(w, "check")
  /\ UNCHANGED <<disk, temp, named, current, exported, kills, losses>>

\* Mutant: the end of the plan is not noticed.
NextFileForever(w) ==
  /\ plan' = [plan EXCEPT ![w] = Tail(@)]
  /\ Goto(w, "check")

\* The file at the head of the plan is done.
NextFile(w) ==
  /\ plan' = [plan EXCEPT ![w] = Tail(@)]
  /\ Goto(w, IF Tail(plan[w]) = <<>> THEN "name" ELSE "check")

\* _atomic_write finds the path: the same bytes are left as they are, other
\* bytes are a collision and the call raises.  Nothing is fsynced here.
KeepExisting(w) ==
  /\ pc[w] = "check"
  /\ Head(plan[w]) \in visible
  /\ IF Head(plan[w]) \in torn
     THEN Goto(w, "collision") /\ plan' = plan
     ELSE NextFile(w)
  /\ UNCHANGED <<disk, temp, writing, named, current, exported, kills, losses>>

\* Mutant: the temporary file is not fsynced.
WriteTempUnsynced(w) ==
  /\ pc[w] = "check"
  /\ Head(plan[w]) \notin visible
  /\ temp' = [temp EXCEPT ![w] = "written"]
  /\ Goto(w, "replace")
  /\ UNCHANGED <<disk, writing, plan, named, current, exported, kills, losses>>

\* atomic_replace: the bytes go to a temporary file, which is fsynced.
WriteTemp(w) ==
  /\ pc[w] = "check"
  /\ Head(plan[w]) \notin visible
  /\ temp' = [temp EXCEPT ![w] = "synced"]
  /\ Goto(w, "replace")
  /\ UNCHANGED <<disk, writing, plan, named, current, exported, kills, losses>>

\* os.replace: the path appears at once, with all its bytes.
Replace(w) ==
  /\ pc[w] = "replace"
  /\ LET p == Head(plan[w]) IN
       /\ visible' = visible \cup {p}
       /\ flushed' = IF temp[w] = "synced" THEN flushed \cup {p} ELSE flushed \ {p}
       /\ torn' = torn \ {p}
  /\ temp' = [temp EXCEPT ![w] = "none"]
  /\ Goto(w, "syncDir")
  /\ UNCHANGED <<root, durable, writing, plan, named, current, exported, kills, losses>>

DirectoryOf(p) == IF p \in Shards THEN Shards ELSE Checkpoints

\* fsync_directory of the path's parent: every entry of it reaches the disk.
SyncDirectory(w) ==
  /\ pc[w] = "syncDir"
  /\ durable' = durable \cup (visible \cap DirectoryOf(Head(plan[w])))
  /\ NextFile(w)
  /\ UNCHANGED <<root, visible, flushed, torn, temp, writing, named, current, exported,
                 kills, losses>>

\* set_recovery_checkpoint, or create_session: the ledger names the manifest.
NameCheckpoint(w) ==
  /\ pc[w] = "name"
  /\ named' = named \cup {writing[w]}
  /\ current' = current \cup {writing[w]}
  /\ writing' = [writing EXCEPT ![w] = Nil]
  /\ Goto(w, "ready")
  /\ UNCHANGED <<disk, temp, plan, exported, kills, losses>>

-----------------------------------------------------------------------------
(* Exports.  A checkpoint's export is a function of its adapter and its      *)
(* digests, so it stands for the bytes.                                      *)

\* _verify_handle finds the checkpoint in the ledger and loads it.
Loadable(c) ==
  /\ c \in visible \ torn
  /\ ToSet(ShardsOf[c]) \subseteq visible \ torn

ExportReturns(w) == Goto(w, "ready") /\ writing' = [writing EXCEPT ![w] = Nil]

StartExport(w, c) ==
  /\ pc[w] \in {"ready", "collision"}
  /\ c \in named /\ Loadable(c)
  /\ writing' = [writing EXCEPT ![w] = c]
  /\ Goto(w, "export")
  /\ UNCHANGED <<disk, temp, plan, named, current, exported, kills, losses>>

\* durable_mkdir of the path's parent.
MakeExports(w) ==
  /\ pc[w] = "export"
  /\ IF exports = "missing"
     THEN exports' = "visible" /\ Goto(w, "syncExports")
     ELSE exports' = exports /\ Goto(w, "checkExport")
  /\ UNCHANGED <<disk, temp, writing, plan, named, current, lora, onDisk, kills, losses>>

SyncExports(w) ==
  /\ pc[w] = "syncExports"
  /\ exports' = "durable"
  /\ Goto(w, "checkExport")
  /\ UNCHANGED <<disk, temp, writing, plan, named, current, lora, onDisk, kills, losses>>

\* atomic_replace: the same bytes are left, with no fsync.
KeepExport(w) ==
  /\ pc[w] = "checkExport" /\ lora = writing[w]
  /\ ExportReturns(w)
  /\ UNCHANGED <<disk, temp, plan, named, current, exported, kills, losses>>

\* Mutant: the file is written in its place.
WriteExportInPlace(w) ==
  /\ pc[w] = "checkExport" /\ lora # writing[w]
  /\ temp' = [temp EXCEPT ![w] = "synced"]
  /\ lora' = "partial"
  /\ Goto(w, "replaceExport")
  /\ UNCHANGED <<disk, writing, plan, named, current, exports, onDisk, kills, losses>>

WriteExport(w) ==
  /\ pc[w] = "checkExport" /\ lora # writing[w]
  /\ temp' = [temp EXCEPT ![w] = "synced"]
  /\ Goto(w, "replaceExport")
  /\ UNCHANGED <<disk, writing, plan, named, current, exported, kills, losses>>

ReplaceExport(w) ==
  /\ pc[w] = "replaceExport"
  /\ lora' = writing[w]
  /\ onDisk' = onDisk \cup {IF temp[w] = "synced" THEN writing[w] ELSE "partial"}
  /\ temp' = [temp EXCEPT ![w] = "none"]
  /\ Goto(w, "syncExport")
  /\ UNCHANGED <<disk, writing, plan, named, current, exports, kills, losses>>

SyncExport(w) ==
  /\ pc[w] = "syncExport"
  /\ onDisk' = {lora}
  /\ ExportReturns(w)
  /\ UNCHANGED <<disk, temp, plan, named, current, exports, lora, kills, losses>>

-----------------------------------------------------------------------------
Kill(w) ==
  /\ kills < MaxKills
  /\ pc[w] # "closed"
  /\ kills' = kills + 1
  /\ pc' = [pc EXCEPT ![w] = "closed"]
  /\ temp' = [temp EXCEPT ![w] = "none"]
  /\ writing' = [writing EXCEPT ![w] = Nil]
  /\ plan' = [plan EXCEPT ![w] = <<>>]
  /\ UNCHANGED <<disk, named, current, exported, losses>>

\* Every process stops.  Of the entries that were not on disk some are there
\* and some are not; a directory that was not may be gone with all it held.
PowerLoss ==
  /\ losses < MaxPowerLosses
  /\ losses' = losses + 1
  /\ \E kept \in SUBSET (visible \ durable), rootKept, exportsKept \in BOOLEAN :
       /\ root = "durable" => rootKept
       /\ root' = IF root = "missing" \/ ~rootKept THEN "missing" ELSE "durable"
       /\ visible' = IF rootKept THEN durable \cup kept ELSE {}
       /\ rootKept /\ exports = "durable" => exportsKept
       /\ IF rootKept /\ exportsKept /\ exports # "missing"
          THEN exports' = "durable" /\ lora' \in onDisk
          ELSE exports' = "missing" /\ lora' = Nil
  /\ onDisk' = {lora'}
  /\ durable' = visible'
  /\ \E lost \in SUBSET (visible' \ flushed) : torn' = (torn \cap visible') \cup lost
  /\ flushed' = visible'
  /\ temp' = [w \in Writers |-> "none"]
  /\ pc' = [w \in Writers |-> "closed"]
  /\ writing' = [w \in Writers |-> Nil]
  /\ plan' = [w \in Writers |-> <<>>]
  /\ current' = {}
  /\ UNCHANGED <<named, kills>>

Init ==
  /\ root \in InitialRoots
  /\ visible = {} /\ durable = {} /\ flushed = {} /\ torn = {}
  /\ temp = [w \in Writers |-> "none"]
  /\ pc = [w \in Writers |-> "closed"]
  /\ writing = [w \in Writers |-> Nil]
  /\ plan = [w \in Writers |-> <<>>]
  /\ named = {} /\ current = {}
  /\ exports = "missing" /\ lora = Nil /\ onDisk = {Nil}
  /\ kills = 0 /\ losses = 0

Continue(w) ==
  \/ OpenStore(w) \/ SyncRoot(w)
  \/ KeepExisting(w) \/ WriteTemp(w) \/ Replace(w) \/ SyncDirectory(w)
  \/ NameCheckpoint(w)
  \/ MakeExports(w) \/ SyncExports(w)
  \/ KeepExport(w) \/ WriteExport(w) \/ ReplaceExport(w) \/ SyncExport(w)

Next ==
  \/ \E w \in Writers :
       Continue(w) \/ Kill(w) \/ \E c \in Checkpoints : StartWrite(w, c) \/ StartExport(w, c)
  \/ PowerLoss

Spec == Init /\ [][Next]_vars

-----------------------------------------------------------------------------
(* Properties. *)

\* Types; what is on disk is also seen; a writer at a file has a file to write.
TypeOK ==
  /\ root \in {"missing", "visible", "durable"}
  /\ visible \subseteq Paths /\ flushed \subseteq visible
  /\ durable \subseteq visible /\ torn \subseteq visible
  /\ root = "missing" => visible = {}
  /\ current \subseteq named /\ named \subseteq Checkpoints
  /\ pc \in [Writers -> {"closed", "syncRoot", "ready", "check", "replace", "syncDir",
                         "name", "collision", "export", "syncExports", "checkExport",
                         "replaceExport", "syncExport"}]
  /\ exports \in {"missing", "visible", "durable"}
  /\ exports = "missing" => lora = Nil
  /\ \A w \in Writers : pc[w] \in {"check", "replace", "syncDir"} => plan[w] # <<>>

\* A checkpoint the ledger has named since the machine last came up can be
\* loaded, whatever was killed while it was written, by whichever writer, and
\* whatever an earlier power loss left behind.
NamedLoadable == \A c \in current : Loadable(c)

\* While the machine stays up a manifest is never seen before its shards.
ManifestLast ==
  losses = 0 => \A c \in Checkpoints \cap visible : ToSet(ShardsOf[c]) \subseteq visible

\* No retry ever finds its content-addressed path taken by other bytes: neither
\* a kill nor a power loss leaves a torn file under a final name.
NoCollision == \A w \in Writers : pc[w] # "collision"

\* What is at the export path is at every moment, also after a kill or a power
\* loss in the middle of an export, the whole export of a checkpoint of the ledger.
ExportWhole == {lora} \cup onDisk \subseteq named \cup {Nil}

\* A checkpoint whose files and directories have all been fsynced.
Settled(c) ==
  /\ root = "durable" /\ Loadable(c)
  /\ ToSet(PlanOf(c)) \subseteq durable

\* Nothing takes a settled checkpoint away: no kill, power loss, collision, nor another
\* writer that places the files they share.
SettledForGood == [][\A c \in Checkpoints : Settled(c) => Settled(c)']_vars

\* "Durable filesystem publication": what the ledger names can be loaded after
\* a power loss.
NamedSurvivesPowerLoss == \A c \in named : Loadable(c)
=============================================================================
