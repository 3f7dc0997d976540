------------------------ MODULE CheckpointFiles_proofs ------------------------
(***************************************************************************)
(* Proofs about CheckpointFiles for any number of processes, checkpoints,   *)
(* shards, kills and power losses.                                          *)
(***************************************************************************)
EXTENDS CheckpointFiles, TLAPS

-----------------------------------------------------------------------------
(* Sequences of paths. *)

\* The files of a sequence are its head and those of its tail.
LEMMA HeadAndTail ==
  ASSUME NEW S, NEW s \in Seq(S), s # <<>>
  PROVE  /\ Head(s) \in S /\ Tail(s) \in Seq(S)
         /\ ToSet(s) = {Head(s)} \cup ToSet(Tail(s))
<1>1. Len(s) \in Nat \ {0} /\ Head(s) = s[1] /\ Tail(s) \in Seq(S) /\ Len(Tail(s)) = Len(s) - 1
  OBVIOUS
<1>2. \A i \in 1..Len(Tail(s)) : Tail(s)[i] = s[i + 1]
  OBVIOUS
<1>3. ASSUME NEW i \in 1..Len(s) PROVE s[i] \in {Head(s)} \cup ToSet(Tail(s))
  <2>1. CASE i = 1 BY <1>1, <2>1
  <2>2. CASE i # 1
    <3>1. i - 1 \in 1..Len(Tail(s)) BY <1>1, <2>2
    <3>2. s[i] = Tail(s)[i - 1] BY <1>2, <3>1
    <3>3. QED BY <3>1, <3>2 DEF ToSet
  <2>3. QED BY <2>1, <2>2
<1>4. ASSUME NEW x \in ToSet(Tail(s)) PROVE x \in ToSet(s)
  <2>1. PICK i \in 1..Len(Tail(s)) : x = Tail(s)[i] BY <1>1 DEF ToSet
  <2>2. i + 1 \in 1..Len(s) /\ x = s[i + 1] BY <1>1, <1>2, <2>1
  <2>3. QED BY <2>2 DEF ToSet
<1>5. Head(s) \in ToSet(s) BY <1>1 DEF ToSet
<1>6. ToSet(s) \subseteq {Head(s)} \cup ToSet(Tail(s)) BY <1>3 DEF ToSet
<1>7. QED BY <1>1, <1>4, <1>5, <1>6

LEMMA EmptyToSet == ToSet(<<>>) = {}
BY DEF ToSet

\* A plan that ends with the manifest: shards, then the checkpoint.
EndsWith(s, c) ==
  /\ s \in Seq(Paths)
  /\ s # <<>> => s[Len(s)] = c /\ \A i \in 1..(Len(s) - 1) : s[i] \in Shards

LEMMA PlanEnds ==
  ASSUME NEW c \in Checkpoints
  PROVE  EndsWith(PlanOf(c), c) /\ PlanOf(c) # <<>> /\ ToSet(PlanOf(c)) = ToSet(ShardsOf[c]) \cup {c}
<1> DEFINE s == ShardsOf[c]
<1>1. s \in Seq(Shards)
  BY FilesAssumption
<1>2. /\ Append(s, c) \in Seq(Paths) /\ Len(Append(s, c)) = Len(s) + 1 /\ Len(s) \in Nat
      /\ Append(s, c)[Len(s) + 1] = c /\ \A i \in 1..Len(s) : Append(s, c)[i] = s[i] /\ s[i] \in Shards
  BY <1>1 DEF Paths
<1>3. ToSet(Append(s, c)) = ToSet(s) \cup {c}
  BY <1>1, <1>2 DEF ToSet
<1>4. Append(s, c) # <<>>
  BY <1>2
<1>5. EndsWith(Append(s, c), c)
  BY <1>2 DEF EndsWith
<1>6. QED BY <1>3, <1>4, <1>5 DEF PlanOf

LEMMA TailEnds ==
  ASSUME NEW c, NEW s, EndsWith(s, c), s # <<>>
  PROVE  EndsWith(Tail(s), c) /\ (Head(s) \notin Shards => Tail(s) = <<>> /\ Head(s) = c)
<1>1. /\ Len(s) \in Nat \ {0} /\ Tail(s) \in Seq(Paths) /\ Len(Tail(s)) = Len(s) - 1
      /\ \A i \in 1..Len(Tail(s)) : Tail(s)[i] = s[i + 1]
  BY DEF EndsWith
<1>2. EndsWith(Tail(s), c)
  <2>1. Tail(s) # <<>> => Len(Tail(s)) \in 1..Len(Tail(s)) BY <1>1
  <2>2. QED BY <1>1, <2>1 DEF EndsWith
<1>3. Head(s) \notin Shards => Len(s) = 1 /\ Head(s) = c
  BY <1>1 DEF EndsWith
<1>4. QED BY <1>1, <1>2, <1>3

-----------------------------------------------------------------------------
(* Invariants. *)

Labels == {"closed", "syncRoot", "ready", "check", "replace", "syncDir", "name", "collision",
           "export", "syncExports", "checkExport", "replaceExport", "syncExport"}

\* A writer that has files to write, one that is about to tell the ledger too, and one
\* inside an export.
Placing(w) == pc[w] \in {"check", "replace", "syncDir"}
Writes(w) == Placing(w) \/ pc[w] = "name"
Exporting(w) == pc[w] \in {"export", "syncExports", "checkExport", "replaceExport", "syncExport"}

\* Files: every entry is whole and flushed, and is in a directory that is there.
FilesInv ==
  /\ root \in {"missing", "visible", "durable"}
  /\ visible \subseteq Paths /\ durable \subseteq visible
  /\ flushed = visible /\ torn = {}
  /\ root = "missing" => visible = {}

\* The ledger: what it has named since the machine came up is there.
LedgerInv ==
  /\ losses \in Nat /\ current \subseteq named /\ named \subseteq Checkpoints
  /\ \A c \in current : c \in visible /\ ToSet(ShardsOf[c]) \subseteq visible
  /\ ManifestLast

\* Processes: what a writer has passed is there.
WritersInv ==
  /\ pc \in [Writers -> Labels]
  /\ temp \in [Writers -> {"none", "written", "synced"}]
  /\ writing \in [Writers -> Checkpoints \cup {Nil}]
  /\ plan \in [Writers -> Seq(Paths)]
  /\ \A w \in Writers :
       /\ pc[w] # "collision"
       /\ pc[w] # "closed" => root # "missing"
       /\ pc[w] \in {"replace", "replaceExport"} => temp[w] = "synced"
       /\ Placing(w) => plan[w] # <<>>
       /\ pc[w] = "name" => plan[w] = <<>>
       /\ pc[w] = "syncDir" => Head(plan[w]) \in visible
       /\ Writes(w) =>
            /\ writing[w] \in Checkpoints /\ EndsWith(plan[w], writing[w])
            /\ ToSet(ShardsOf[writing[w]]) \cup {writing[w]} \subseteq visible \cup ToSet(plan[w])

\* Exports.
ExportInv ==
  /\ exports \in {"missing", "visible", "durable"}
  /\ exports = "missing" => lora = Nil
  /\ ExportWhole
  /\ \A w \in Writers :
       /\ Exporting(w) => writing[w] \in named
       /\ pc[w] \in {"syncExports", "checkExport", "replaceExport", "syncExport"} => exports # "missing"

StoreInv == FilesInv /\ LedgerInv /\ WritersInv /\ ExportInv

LEMMA StoreInit == Init => StoreInv
<1> SUFFICES ASSUME Init PROVE StoreInv
  OBVIOUS
<1>1. FilesInv BY FilesAssumption DEF Init, FilesInv
<1>2. LedgerInv BY DEF Init, LedgerInv, ManifestLast
<1>3. WritersInv BY DEF Init, WritersInv, Labels, Placing, Writes
<1>4. ExportInv BY DEF Init, ExportInv, ExportWhole, Exporting
<1>5. QED BY <1>1, <1>2, <1>3, <1>4 DEF StoreInv

LEMMA PathSets == Shards \subseteq Paths /\ Checkpoints \subseteq Paths
BY DEF Paths

\* A step that leaves the files and the ledger alone.
LEMMA FilesKept ==
  ASSUME StoreInv, UNCHANGED <<disk, named, current, losses>> PROVE FilesInv' /\ LedgerInv'
BY DEF StoreInv, FilesInv, LedgerInv, disk, ManifestLast

\* A step of a writer that writes no checkpoint after it, with the files unchanged.
LEMMA WriterRests ==
  ASSUME StoreInv, UNCHANGED <<visible>>, root' # "missing", NEW w \in Writers,
         pc' = [pc EXCEPT ![w] = pc'[w]], temp' = [temp EXCEPT ![w] = temp'[w]],
         writing' = [writing EXCEPT ![w] = writing'[w]],
         plan' = [plan EXCEPT ![w] = plan'[w]],
         pc'[w] \in Labels \ {"collision", "check", "replace", "syncDir", "name"},
         temp'[w] \in {"none", "written", "synced"},
         pc'[w] = "replaceExport" => temp'[w] = "synced",
         writing'[w] \in Checkpoints \cup {Nil}, plan'[w] \in Seq(Paths)
  PROVE  WritersInv'
BY DEF StoreInv, WritersInv, Placing, Writes, Labels

\* A step of a writer that exports nothing after it, with the export unchanged.
LEMMA ExportRests ==
  ASSUME StoreInv, UNCHANGED exported, named \subseteq named', NEW w \in Writers,
         pc' = [pc EXCEPT ![w] = pc'[w]], writing' = [writing EXCEPT ![w] = writing'[w]],
         ~Exporting(w)'
  PROVE  ExportInv'
BY DEF StoreInv, WritersInv, ExportInv, ExportWhole, Exporting, exported

\* A step of a writer that goes on with a checkpoint: what it has passed is there.
LEMMA WriterMoves ==
  ASSUME StoreInv, visible \subseteq visible', root' # "missing", NEW w \in Writers,
         pc' = [pc EXCEPT ![w] = pc'[w]], temp' = [temp EXCEPT ![w] = temp'[w]],
         writing' = [writing EXCEPT ![w] = writing'[w]],
         plan' = [plan EXCEPT ![w] = plan'[w]],
         pc'[w] \in {"check", "replace", "syncDir", "name"},
         temp'[w] \in {"none", "written", "synced"},
         pc'[w] = "replace" => temp'[w] = "synced",
         pc'[w] = "name" <=> plan'[w] = <<>>,
         pc'[w] = "syncDir" => Head(plan'[w]) \in visible',
         writing'[w] \in Checkpoints, EndsWith(plan'[w], writing'[w]),
         ToSet(ShardsOf[writing'[w]]) \cup {writing'[w]} \subseteq visible' \cup ToSet(plan'[w])
  PROVE  WritersInv'
<1>1. /\ pc' \in [Writers -> Labels] /\ temp' \in [Writers -> {"none", "written", "synced"}]
      /\ writing' \in [Writers -> Checkpoints \cup {Nil}] /\ plan' \in [Writers -> Seq(Paths)]
  BY DEF StoreInv, WritersInv, Labels, EndsWith
<1>2. ASSUME NEW v \in Writers, v # w
      PROVE  /\ pc'[v] = pc[v] /\ temp'[v] = temp[v] /\ writing'[v] = writing[v] /\ plan'[v] = plan[v]
  BY <1>2 DEF StoreInv, WritersInv
<1>3. QED BY <1>1, <1>2 DEF StoreInv, WritersInv, Placing, Writes

\* The file at the head of the plan is there: the writer goes to the next one.
LEMMA WriterNext ==
  ASSUME StoreInv, NEW w \in Writers, Placing(w), Head(plan[w]) \in visible, NextFile(w),
         UNCHANGED <<visible, root, temp, writing>>
  PROVE  WritersInv'
<1>1. /\ root # "missing" /\ plan[w] # <<>> /\ plan[w] \in Seq(Paths) /\ EndsWith(plan[w], writing[w])
      /\ writing[w] \in Checkpoints /\ temp[w] \in {"none", "written", "synced"}
      /\ ToSet(ShardsOf[writing[w]]) \cup {writing[w]} \subseteq visible \cup ToSet(plan[w])
  BY DEF StoreInv, WritersInv, Placing, Writes
<1>2. /\ ToSet(plan[w]) = {Head(plan[w])} \cup ToSet(Tail(plan[w]))
      /\ EndsWith(Tail(plan[w]), writing[w])
  BY <1>1, HeadAndTail, TailEnds
<1>3. /\ plan'[w] = Tail(plan[w]) /\ plan' = [plan EXCEPT ![w] = plan'[w]]
      /\ pc' = [pc EXCEPT ![w] = pc'[w]]
      /\ pc'[w] = IF plan'[w] = <<>> THEN "name" ELSE "check"
  BY DEF NextFile, Goto, StoreInv, WritersInv
<1>4. temp' = [temp EXCEPT ![w] = temp'[w]] /\ writing' = [writing EXCEPT ![w] = writing'[w]]
  BY DEF StoreInv, WritersInv
<1>5. QED BY <1>1, <1>2, <1>3, <1>4, WriterMoves

LEMMA StoreStep == StoreInv /\ [Next]_vars => StoreInv'
<1> SUFFICES ASSUME StoreInv, [Next]_vars PROVE StoreInv'
  OBVIOUS
<1>0. /\ FilesInv /\ LedgerInv /\ WritersInv /\ ExportInv
      /\ pc \in [Writers -> Labels] /\ temp \in [Writers -> {"none", "written", "synced"}]
      /\ writing \in [Writers -> Checkpoints \cup {Nil}] /\ plan \in [Writers -> Seq(Paths)]
  BY DEF StoreInv, WritersInv
<1>1. ASSUME NEW w \in Writers, OpenStore(w) \/ SyncRoot(w) PROVE StoreInv'
  <2>1. /\ UNCHANGED <<visible, durable, flushed, torn, temp, writing, plan, named, current,
                       exported, losses>>
        /\ root' \in {"visible", "durable"} \/ (root' = root /\ pc[w] = "closed" /\ root # "missing")
        /\ pc' = [pc EXCEPT ![w] = pc'[w]] /\ pc'[w] \in {"syncRoot", "ready"}
    BY <1>0, <1>1 DEF OpenStore, SyncRoot, Goto, FilesInv
  <2>2. FilesInv' BY <1>0, <2>1 DEF FilesInv
  <2>3. LedgerInv' BY <1>0, <2>1 DEF LedgerInv, ManifestLast
  <2>4. WritersInv'
    BY <1>0, <2>1, WriterRests DEF Labels, FilesInv
  <2>5. ExportInv' BY <1>0, <2>1, ExportRests DEF Exporting
  <2>6. QED BY <2>2, <2>3, <2>4, <2>5 DEF StoreInv
<1>2. ASSUME NEW w \in Writers, NEW c \in Checkpoints, StartWrite(w, c) PROVE StoreInv'
  <2>1. /\ UNCHANGED <<disk, temp, named, current, exported, losses>>
        /\ writing' = [writing EXCEPT ![w] = c] /\ plan' = [plan EXCEPT ![w] = PlanOf(c)]
        /\ pc' = [pc EXCEPT ![w] = "check"] /\ pc[w] # "closed"
    BY <1>2 DEF StartWrite, Goto
  <2>2. FilesInv' /\ LedgerInv' BY <2>1, FilesKept
  <2>3. WritersInv'
    <3>1. /\ EndsWith(PlanOf(c), c) /\ PlanOf(c) # <<>>
          /\ ToSet(ShardsOf[c]) \cup {c} \subseteq visible \cup ToSet(PlanOf(c))
      BY PlanEnds
    <3>2. root # "missing" /\ UNCHANGED <<root, visible>>
      BY <1>0, <2>1 DEF WritersInv, disk
    <3>3. /\ plan'[w] = PlanOf(c) /\ writing'[w] = c /\ pc'[w] = "check"
          /\ temp' = [temp EXCEPT ![w] = temp'[w]] /\ temp'[w] \in {"none", "written", "synced"}
      BY <1>0, <2>1
    <3>4. QED BY <2>1, <3>1, <3>2, <3>3, WriterMoves
  <2>4. ExportInv' BY <1>0, <2>1, ExportRests DEF Exporting
  <2>5. QED BY <2>2, <2>3, <2>4 DEF StoreInv
<1>3. ASSUME NEW w \in Writers, KeepExisting(w) PROVE StoreInv'
  <2>1. /\ UNCHANGED <<disk, temp, writing, named, current, exported, losses>>
        /\ Placing(w) /\ Head(plan[w]) \in visible /\ NextFile(w)
    BY <1>0, <1>3 DEF KeepExisting, FilesInv, Placing
  <2>2. FilesInv' /\ LedgerInv' BY <2>1, FilesKept
  <2>3. WritersInv' BY <2>1, WriterNext DEF disk
  <2>4. pc' = [pc EXCEPT ![w] = pc'[w]] /\ ~Exporting(w)'
    BY <1>0, <2>1 DEF NextFile, Goto, Exporting
  <2>5. ExportInv' BY <1>0, <2>1, <2>4, ExportRests
  <2>6. QED BY <2>2, <2>3, <2>5 DEF StoreInv
<1>4. ASSUME NEW w \in Writers, WriteTemp(w) PROVE StoreInv'
  <2>1. /\ UNCHANGED <<disk, writing, plan, named, current, exported, losses>>
        /\ temp' = [temp EXCEPT ![w] = "synced"] /\ pc' = [pc EXCEPT ![w] = "replace"]
        /\ pc[w] = "check"
    BY <1>4 DEF WriteTemp, Goto
  <2>2. FilesInv' /\ LedgerInv' BY <2>1, FilesKept
  <2>3. /\ root # "missing" /\ plan[w] # <<>> /\ EndsWith(plan[w], writing[w])
        /\ writing[w] \in Checkpoints
        /\ ToSet(ShardsOf[writing[w]]) \cup {writing[w]} \subseteq visible \cup ToSet(plan[w])
    BY <1>0, <2>1 DEF WritersInv, Placing, Writes
  <2>4. WritersInv' BY <1>0, <2>1, <2>3, WriterMoves DEF disk
  <2>5. ExportInv' BY <1>0, <2>1, ExportRests DEF Exporting
  <2>6. QED BY <2>2, <2>4, <2>5 DEF StoreInv
<1>5. ASSUME NEW w \in Writers, Replace(w) PROVE StoreInv'
  <2> DEFINE p == Head(plan[w])
             c == writing[w]
  <2>1. /\ UNCHANGED <<root, durable, writing, plan, named, current, exported, losses>>
        /\ visible' = visible \cup {p} /\ torn' = torn \ {p} /\ pc[w] = "replace"
        /\ temp' = [temp EXCEPT ![w] = "none"] /\ pc' = [pc EXCEPT ![w] = "syncDir"]
    BY <1>5 DEF Replace, Goto
  <2>2. /\ root # "missing" /\ plan[w] # <<>> /\ EndsWith(plan[w], c) /\ c \in Checkpoints
        /\ temp[w] = "synced"
        /\ ToSet(ShardsOf[c]) \cup {c} \subseteq visible \cup ToSet(plan[w])
    BY <1>0, <2>1 DEF WritersInv, Placing, Writes
  <2>3. flushed' = flushed \cup {p}
    BY <1>5, <2>2 DEF Replace
  <2>4. /\ p \in Paths /\ ToSet(plan[w]) = {p} \cup ToSet(Tail(plan[w]))
        /\ p \notin Shards => Tail(plan[w]) = <<>> /\ p = c
    BY <1>0, <2>2, HeadAndTail, TailEnds
  <2>5. FilesInv' BY <1>0, <2>1, <2>2, <2>3, <2>4 DEF FilesInv
  <2>6. ManifestLast'
    <3>1. ASSUME NEW d \in Checkpoints \cap visible', losses = 0
          PROVE  ToSet(ShardsOf[d]) \subseteq visible'
      <4>1. CASE d \in visible
        BY <1>0, <2>1, <3>1, <4>1 DEF LedgerInv, ManifestLast
      <4>2. CASE d \notin visible
        <5>1. d = p /\ p \notin Shards
          BY <2>1, <3>1, <4>2, FilesAssumption
        <5>2. d = c /\ ToSet(plan[w]) = {p}
          BY <2>4, <5>1, EmptyToSet
        <5>3. QED BY <2>1, <2>2, <5>2
      <4>3. QED BY <4>1, <4>2
    <3>2. QED BY <2>1, <3>1 DEF ManifestLast
  <2>7. LedgerInv' BY <1>0, <2>1, <2>6 DEF LedgerInv
  <2>8. WritersInv' BY <1>0, <2>1, <2>2, WriterMoves
  <2>9. ExportInv' BY <1>0, <2>1, ExportRests DEF Exporting
  <2>10. QED BY <2>5, <2>7, <2>8, <2>9 DEF StoreInv
<1>6. ASSUME NEW w \in Writers, SyncDirectory(w) PROVE StoreInv'
  <2>1. /\ UNCHANGED <<root, visible, flushed, torn, temp, writing, named, current, exported, losses>>
        /\ durable' \subseteq durable \cup visible /\ NextFile(w) /\ Placing(w)
        /\ Head(plan[w]) \in visible
    BY <1>0, <1>6 DEF SyncDirectory, Placing, WritersInv
  <2>2. FilesInv' BY <1>0, <2>1 DEF FilesInv
  <2>3. LedgerInv' BY <1>0, <2>1 DEF LedgerInv, ManifestLast
  <2>4. WritersInv' BY <2>1, WriterNext
  <2>5. pc' = [pc EXCEPT ![w] = pc'[w]] /\ ~Exporting(w)'
    BY <1>0, <2>1 DEF NextFile, Goto, Exporting
  <2>6. ExportInv' BY <1>0, <2>1, <2>5, ExportRests
  <2>7. QED BY <2>2, <2>3, <2>4, <2>6 DEF StoreInv
<1>7. ASSUME NEW w \in Writers, NameCheckpoint(w) PROVE StoreInv'
  <2>1. /\ UNCHANGED <<disk, temp, plan, exported, losses>> /\ pc[w] = "name"
        /\ named' = named \cup {writing[w]} /\ current' = current \cup {writing[w]}
        /\ writing' = [writing EXCEPT ![w] = Nil] /\ pc' = [pc EXCEPT ![w] = "ready"]
    BY <1>7 DEF NameCheckpoint, Goto
  <2>2. /\ writing[w] \in Checkpoints /\ plan[w] = <<>> /\ root # "missing"
        /\ ToSet(ShardsOf[writing[w]]) \cup {writing[w]} \subseteq visible \cup ToSet(plan[w])
    BY <1>0, <2>1 DEF WritersInv, Writes
  <2>3. ToSet(plan[w]) = {}
    BY <2>2, EmptyToSet
  <2>4. FilesInv' BY <1>0, <2>1 DEF FilesInv, disk
  <2>5. LedgerInv' BY <1>0, <2>1, <2>2, <2>3 DEF LedgerInv, ManifestLast, disk
  <2>6. WritersInv' BY <1>0, <2>1, <2>2, WriterRests DEF disk, Labels
  <2>7. ExportInv' BY <1>0, <2>1, ExportRests DEF Exporting
  <2>8. QED BY <2>4, <2>5, <2>6, <2>7 DEF StoreInv
<1>8. ASSUME NEW w \in Writers, NEW c \in Checkpoints, StartExport(w, c) PROVE StoreInv'
  <2>1. /\ UNCHANGED <<disk, temp, plan, named, current, exported, losses>> /\ c \in named
        /\ writing' = [writing EXCEPT ![w] = c] /\ pc' = [pc EXCEPT ![w] = "export"]
        /\ root # "missing"
    BY <1>0, <1>8 DEF StartExport, Goto, WritersInv
  <2>2. FilesInv' /\ LedgerInv' BY <2>1, FilesKept
  <2>3. WritersInv' BY <1>0, <2>1, WriterRests DEF disk, Labels
  <2>4. ExportInv' BY <1>0, <2>1 DEF ExportInv, ExportWhole, Exporting, exported
  <2>5. QED BY <2>2, <2>3, <2>4 DEF StoreInv
<1>9. ASSUME NEW w \in Writers,
             MakeExports(w) \/ SyncExports(w) \/ KeepExport(w) \/ WriteExport(w)
               \/ ReplaceExport(w) \/ SyncExport(w)
      PROVE  StoreInv'
  <2>1. /\ UNCHANGED <<disk, plan, named, current, losses>>
        /\ writing' = [writing EXCEPT ![w] = writing'[w]] /\ writing'[w] \in {writing[w], Nil}
        /\ pc' = [pc EXCEPT ![w] = pc'[w]]
        /\ pc'[w] \in {"syncExports", "checkExport", "ready", "replaceExport", "syncExport"}
        /\ temp' = [temp EXCEPT ![w] = temp'[w]] /\ temp'[w] \in {"none", "written", "synced"}
        /\ pc'[w] = "replaceExport" => temp'[w] = "synced"
        /\ Exporting(w)
    BY <1>0, <1>9 DEF MakeExports, SyncExports, KeepExport, WriteExport, ReplaceExport, SyncExport,
       ExportReturns, Goto, Exporting
  <2>2. FilesInv' /\ LedgerInv' BY <2>1, FilesKept
  <2>3. WritersInv'
    <3>1. root # "missing" /\ UNCHANGED <<root, visible>>
      BY <1>0, <2>1 DEF WritersInv, disk, Exporting
    <3>2. /\ plan' = [plan EXCEPT ![w] = plan'[w]] /\ plan'[w] \in Seq(Paths)
          /\ writing'[w] \in Checkpoints \cup {Nil}
      BY <1>0, <2>1
    <3>3. QED BY <2>1, <3>1, <3>2, WriterRests DEF Labels
  <2>4. /\ Exporting(w)' => writing'[w] = writing[w]
        /\ pc'[w] \in {"syncExports", "checkExport", "replaceExport", "syncExport"} =>
             exports' # "missing"
        /\ exports' \in {exports, "visible", "durable"} /\ (exports' = "missing" => exports = "missing")
    BY <1>0, <1>9 DEF MakeExports, SyncExports, KeepExport, WriteExport, ReplaceExport, SyncExport,
       ExportReturns, Goto, Exporting, exported, ExportInv
  <2>5. lora' \in {lora, writing[w]} /\ onDisk' \subseteq onDisk \cup {lora, writing[w]}
    BY <1>0, <1>9 DEF MakeExports, SyncExports, KeepExport, WriteExport, ReplaceExport, SyncExport,
       exported, WritersInv
  <2>6. exports' = "missing" => lora' = lora
    BY <1>0, <1>9 DEF MakeExports, SyncExports, KeepExport, WriteExport, ReplaceExport, SyncExport,
       exported, ExportInv
  <2>7. ExportWhole' BY <1>0, <2>1, <2>5 DEF ExportInv, ExportWhole
  <2>8. ExportInv'
    BY <1>0, <2>1, <2>4, <2>6, <2>7 DEF ExportInv, Exporting
  <2>9. QED BY <2>2, <2>3, <2>8 DEF StoreInv
<1>10. ASSUME NEW w \in Writers, Kill(w) PROVE StoreInv'
  <2>1. /\ UNCHANGED <<disk, named, current, exported, losses>> /\ pc[w] # "closed"
        /\ pc' = [pc EXCEPT ![w] = "closed"] /\ temp' = [temp EXCEPT ![w] = "none"]
        /\ writing' = [writing EXCEPT ![w] = Nil] /\ plan' = [plan EXCEPT ![w] = <<>>]
    BY <1>10 DEF Kill
  <2>2. FilesInv' /\ LedgerInv' BY <2>1, FilesKept
  <2>3. root # "missing" BY <1>0, <2>1 DEF WritersInv
  <2>4. WritersInv'
    <3>1. /\ pc'[w] = "closed" /\ temp'[w] = "none" /\ writing'[w] = Nil /\ plan'[w] = <<>>
          /\ <<>> \in Seq(Paths) /\ UNCHANGED <<root, visible>>
      BY <1>0, <2>1 DEF disk
    <3>2. QED BY <2>1, <2>3, <3>1, WriterRests DEF Labels
  <2>5. ExportInv' BY <1>0, <2>1, ExportRests DEF Exporting
  <2>6. QED BY <2>2, <2>4, <2>5 DEF StoreInv
<1>11. CASE PowerLoss
  <2>1. /\ pc' = [w \in Writers |-> "closed"] /\ temp' = [w \in Writers |-> "none"]
        /\ writing' = [w \in Writers |-> Nil] /\ plan' = [w \in Writers |-> <<>>]
        /\ current' = {} /\ named' = named /\ losses' = losses + 1 /\ flushed' = visible'
        /\ durable' = visible' /\ onDisk' = {lora'}
    BY <1>11 DEF PowerLoss
  <2>2. PICK kept \in SUBSET (visible \ durable), rootKept \in BOOLEAN, exportsKept \in BOOLEAN :
          /\ root = "durable" => rootKept
          /\ root' = IF root = "missing" \/ ~rootKept THEN "missing" ELSE "durable"
          /\ visible' = IF rootKept THEN durable \cup kept ELSE {}
          /\ IF rootKept /\ exportsKept /\ exports # "missing"
             THEN exports' = "durable" /\ lora' \in onDisk
             ELSE exports' = "missing" /\ lora' = Nil
    BY <1>11 DEF PowerLoss
  <2>3. visible' \subseteq visible
    BY <1>0, <2>2 DEF FilesInv
  <2>4. torn' = {}
    BY <1>0, <1>11, <2>3 DEF PowerLoss, FilesInv
  <2>5. FilesInv'
    BY <1>0, <2>1, <2>2, <2>3, <2>4 DEF FilesInv
  <2>6. LedgerInv'
    BY <1>0, <2>1 DEF LedgerInv, ManifestLast
  <2>7. WritersInv'
    BY <2>1 DEF WritersInv, Labels, Placing, Writes
  <2>8. ExportInv'
    BY <1>0, <2>1, <2>2 DEF ExportInv, ExportWhole, Exporting
  <2>9. QED BY <2>5, <2>6, <2>7, <2>8 DEF StoreInv
<1>12. CASE UNCHANGED vars
  <2>1. FilesInv' /\ LedgerInv' BY <1>12, FilesKept DEF vars
  <2>2. WritersInv' BY <1>0, <1>12 DEF vars, procs, disk, WritersInv, Placing, Writes
  <2>3. ExportInv' BY <1>0, <1>12 DEF vars, procs, exported, ExportInv, ExportWhole, Exporting
  <2>4. QED BY <2>1, <2>2, <2>3 DEF StoreInv
<1>13. QED
  BY <1>1, <1>2, <1>3, <1>4, <1>5, <1>6, <1>7, <1>8, <1>9, <1>10, <1>11, <1>12 DEF Next, Continue

LEMMA StoreInvariance == Spec => []StoreInv
BY StoreInit, StoreStep, PTL DEF Spec

\* Types, and what is on disk is seen.
THEOREM FilesTypes == Spec => []TypeOK
<1>1. StoreInv => TypeOK
  BY DEF StoreInv, FilesInv, LedgerInv, WritersInv, ExportInv, TypeOK, Labels, Placing
<1>2. QED BY <1>1, StoreInvariance, PTL

\* Whatever is killed, and whatever an earlier power loss left behind, what the ledger
\* has named since can be loaded.
THEOREM LoadableWhileUp == Spec => []NamedLoadable
<1>1. StoreInv => NamedLoadable
  BY DEF StoreInv, FilesInv, LedgerInv, NamedLoadable, Loadable
<1>2. QED BY <1>1, StoreInvariance, PTL

\* A manifest is never seen before its shards.
THEOREM ManifestAfterShards == Spec => []ManifestLast
<1>1. StoreInv => ManifestLast
  BY DEF StoreInv, LedgerInv
<1>2. QED BY <1>1, StoreInvariance, PTL

\* No content-addressed path ever holds other bytes, after any number of kills and
\* power losses.
THEOREM NeverCollides == Spec => []NoCollision
<1>1. StoreInv => NoCollision
  BY DEF StoreInv, WritersInv, NoCollision
<1>2. QED BY <1>1, StoreInvariance, PTL

\* The export path holds nothing or a whole export, at every moment.
THEOREM WholeExports == Spec => []ExportWhole
<1>1. StoreInv => ExportWhole
  BY DEF StoreInv, ExportInv
<1>2. QED BY <1>1, StoreInvariance, PTL
\* What has been fsynced, files and directories, stays loadable after any number of kills
\* and power losses: only the files that a retry finds and does not fsync can be lost.
THEOREM SettledStays == Spec => SettledForGood
<1>1. ASSUME StoreInv, StoreInv', Next, NEW c \in Checkpoints, Settled(c) PROVE Settled(c)'
  <2>1. ToSet(ShardsOf[c]) \cup {c} = ToSet(PlanOf(c))
    BY PlanEnds
  <2>2. root' = "durable" /\ durable \subseteq durable'
    <3>1. CASE PowerLoss
      BY <1>1, <3>1 DEF PowerLoss, Settled
    <3>2. ASSUME NEW w \in Writers, Continue(w) \/ Kill(w) \/ \E d \in Checkpoints : StartWrite(w, d) \/ StartExport(w, d)
          PROVE  root' = "durable" /\ durable \subseteq durable'
      BY <1>1, <3>2 DEF Settled, Continue, OpenStore, SyncRoot, KeepExisting, WriteTemp, Replace,
         SyncDirectory, NameCheckpoint, MakeExports, SyncExports, KeepExport, WriteExport,
         ReplaceExport, SyncExport, Kill, StartWrite, StartExport, disk
    <3> QED
      BY <1>1, <3>1, <3>2 DEF Next
  <2>3. ToSet(PlanOf(c)) \subseteq visible' \ torn'
    BY <1>1, <2>2 DEF StoreInv, FilesInv, Settled
  <2>4. ToSet(PlanOf(c)) \subseteq durable'
    BY <1>1, <2>2 DEF Settled
  <2>5. c \in visible' \ torn' /\ ToSet(ShardsOf[c]) \subseteq visible' \ torn'
    BY <2>1, <2>3
  <2> QED
    BY <2>2, <2>4, <2>5 DEF Settled, Loadable
<1>2. StoreInv /\ StoreInv' /\ [Next]_vars => [\A c \in Checkpoints : Settled(c) => Settled(c)']_vars
  BY <1>1
<1> QED
  BY <1>2, StoreInvariance, PTL DEF Spec, SettledForGood
===============================================================================
