--------------------------- MODULE TrainingGraph ---------------------------
(***************************************************************************)
(* The training nodes in a graph, over the fake backend: a create node (or  *)
(* a handle given as a literal) feeds a fold that passes the session handle *)
(* through one advance node per interval, and a complete node may take the  *)
(* last handle.  No node is cached (idempotent=False): a re-run executes    *)
(* every node again and relies on the ledger to replay what was committed.  *)
(* Several workers run graphs against one session; a node that raises fails *)
(* its run, and anybody may start it again.                                 *)
(***************************************************************************)
EXTENDS FakeTrainer, FiniteSets, Functions

CONSTANTS
  Graphs,    \* [config: Nil for a graph that is given its first handle,
             \*  intervals: sequence of [steps, note], finish: BOOLEAN]
  MaxStep    \* bound: no run is started that would go beyond this step

ASSUME GraphAssumption ==
  /\ MaxStep \in Nat
  /\ \A g \in Graphs : /\ Len(g.intervals) \in Nat
                        /\ DOMAIN g.intervals = 1..Len(g.intervals)
  /\ \A g \in Graphs : \A i \in 1..Len(g.intervals) : g.intervals[i].steps \in Nat
  /\ \A g \in Graphs, step \in 0..MaxStep : Manifest(g.config, step) # Nil

VARIABLES
  run        \* the run the worker executes: its graph, its first handle (Nil
             \* for a create node), the node it is at and the handle port

vars == <<ledgerVars, trainerVars, run>>

-----------------------------------------------------------------------------
Handles == {HandleOf(rows[i]) : i \in 1..Len(rows)}
\* Handle literals: a committed one, or one with a forged watermark.
Literals == Handles \cup {[h EXCEPT !.seq = h.seq + 7] : h \in Handles}

\* Steps of the first k intervals of a graph, one by one, and how many they are.
StepsOf(g, k) == UNION {{i} \X (1..g.intervals[i].steps) : i \in 1..k}
StepsUpTo(g, k) == Cardinality(StepsOf(g, k))

TotalSteps(g) == StepsUpTo(g, Len(g.intervals))

Fresh(g) == [graph |-> g, first |-> Nil, at |-> 0, port |-> Nil]
FromLiteral(g, h) == [graph |-> g, first |-> h, at |-> 1, port |-> h]

StartRun(w, r) ==
  /\ run[w] = Nil
  /\ run' = [run EXCEPT ![w] = r]
  /\ UNCHANGED <<ledgerVars, trainerVars>>

StartGraph(w, g) ==
  g.config # Nil /\ TotalSteps(g) <= MaxStep /\ StartRun(w, Fresh(g))
StartLiteral(w, g, h) ==
  g.config = Nil /\ h.step + TotalSteps(g) <= MaxStep /\ StartRun(w, FromLiteral(g, h))

\* CreateTrainingSession.execute
ExecuteCreate(w) ==
  /\ run[w] # Nil /\ run[w].at = 0
  /\ Create(w, run[w].graph.config)
  /\ UNCHANGED run

AtAdvance(r) == r.at \in 1..Len(r.graph.intervals)

\* Mutant: the loop's first handle is fed to every iteration.
AdvanceFromFirst(w) ==
  /\ run[w] # Nil /\ AtAdvance(run[w])
  /\ LET r == run[w]
         interval == r.graph.intervals[r.at]
         h == IF rows # <<>> THEN HandleOf(rows[1]) ELSE r.port
     IN Advance(w, h, interval.steps, interval.note)
  /\ UNCHANGED run

\* AdvanceTraining.execute, in one iteration of the fold.
ExecuteAdvance(w) ==
  /\ run[w] # Nil /\ AtAdvance(run[w])
  /\ LET r == run[w]
         interval == r.graph.intervals[r.at]
     IN Advance(w, r.port, interval.steps, interval.note)
  /\ UNCHANGED run

AtComplete(r) == r.at = Len(r.graph.intervals) + 1 /\ r.graph.finish

\* CompleteTrainingSession.execute
ExecuteComplete(w) ==
  /\ run[w] # Nil /\ AtComplete(run[w])
  /\ Complete(w, run[w].port)
  /\ UNCHANGED run

\* The node's outputs: the handle goes to the port of the next node.
NodeReturns(w) ==
  /\ run[w] # Nil /\ pc[w] = "returned"
  /\ run' = [run EXCEPT ![w].at = @ + 1, ![w].port = call[w]]
  /\ Goto(w, "idle")
  /\ call' = [call EXCEPT ![w] = Nil]
  /\ UNCHANGED <<ledgerVars, fence, mark, stepsRun, answers, mishaps>>

\* The exception fails the run (ExecutionError).
RunFails(w) ==
  /\ pc[w] = "raised"
  /\ run' = [run EXCEPT ![w] = Nil]
  /\ Goto(w, "idle")
  /\ UNCHANGED <<ledgerVars, fence, call, mark, stepsRun, answers, mishaps>>

\* Every node of the graph has been executed.
AtEnd(r) == r.at > Len(r.graph.intervals) /\ ~AtComplete(r)

RunEnds(w) ==
  /\ run[w] # Nil /\ pc[w] = "idle" /\ AtEnd(run[w])
  /\ run' = [run EXCEPT ![w] = Nil]
  /\ UNCHANGED <<ledgerVars, trainerVars>>

Init == TrainerInit /\ run = [w \in Workers |-> Nil]

Execute(w) ==
  \/ ExecuteCreate(w) \/ ExecuteAdvance(w) \/ ExecuteComplete(w)
  \/ NodeReturns(w) \/ RunFails(w) \/ RunEnds(w)
  \/ (Continue(w) /\ UNCHANGED run)

Next == \E w \in Workers :
  \/ \E g \in Graphs : StartGraph(w, g) \/ \E h \in Literals : StartLiteral(w, g, h)
  \/ Execute(w)
  \/ (Disturb(w) /\ UNCHANGED run)

Spec == Init /\ [][Next]_vars

\* The engine and the process are scheduled and every store call returns.
FairSpec == Spec /\ \A w \in Workers : WF_vars(Execute(w))

\* Every worker is given every graph again and again.
RerunSpec ==
  FairSpec /\ \A w \in Workers, g \in Graphs : SF_vars(StartGraph(w, g))

-----------------------------------------------------------------------------
(* Properties. *)

Labels == {"idle", "created", "fence", "claim", "poll", "record", "pauseRecord",
           "pause", "cover", "commit", "answer", "seal", "returned", "raised"}

\* Every variable has its type; no cursor passes the bound on runs.
TypeOK ==
  /\ pc \in [Workers -> Labels]
  /\ fence \in [Workers -> 0..epoch]
  /\ stepsRun \in Nat
  /\ \A i \in 1..Len(rows) : rows[i].step \in 0..MaxStep
  /\ \A w \in Workers : /\ mark[w].current \in 0..MaxStep
                        /\ mark[w].covered \in 0..journal
                        /\ run[w] # Nil => run[w].at \in 0..(Len(run[w].graph.intervals) + 2)

\* The first k intervals of a graph are the checkpoints after the i-th row.
PathFrom(g, k, i) ==
  i + k <= Len(rows)
    /\ \A j \in 0..k : rows[i + j].step = rows[i].step + StepsUpTo(g, j)

\* The graph begins with a create node, or is given its first handle.
Creates(r) == r.graph.config # Nil

\* The handle a run carries through its loop is the checkpoint its own intervals
\* lead to from its first handle, with nothing skipped or stepped over in
\* between, whatever other graphs, re-runs and takeovers do to the session.
\* (complete may hand back a later head than the one it was given.)
PortOnPath ==
  \A w \in Workers :
    LET r == run[w] IN
      r # Nil /\ r.at \in 1..(Len(r.graph.intervals) + 1)
              /\ (r.at = 1 => Creates(r)) =>
        \E i \in 1..Len(rows) :
          /\ Creates(r) => i = 1
          /\ ~Creates(r) => r.first = HandleOf(rows[i])
          /\ PathFrom(r.graph, r.at - 1, i)
          /\ r.port = HandleOf(rows[i + r.at - 1])

\* The work an operation has to show: its steps, or those its recovery
\* checkpoint saves.
Progress(o) ==
  IF IsCommitted(o) THEN o.steps
  ELSE IF ops[o].recovery # Nil THEN ops[o].recovery.step - o.input.step
  ELSE 0

\* "Only the remaining steps": over all instances, no more steps are executed
\* than the ledger has work to show for, and one more for each fence handed out
\* (the step that was running when the holder was killed or overtaken).
StepsShown == UNION {{o} \X (1..Progress(o)) : o \in DOMAIN ops}

StepsRerunBounded == stepsRun <= Cardinality(StepsShown) + epoch

\* What a takeover resumes from is inside its advance although the trainer does
\* not check it, and short of the target unless only the commit is missing.
RecoveryInAdvance ==
  \A o \in DOMAIN ops : ops[o].recovery # Nil =>
    /\ ops[o].recovery.config = sessionConfig
    /\ ops[o].recovery.step \in o.input.step .. (o.input.step + o.steps)

Done == {[from |-> o.input.step, steps |-> o.steps, note |-> o.note,
          to |-> ops[o].output.step] : o \in {x \in DOMAIN ops : IsCommitted(x)}}

IndexOf(step) == CHOOSE i \in 1..Len(rows) : rows[i].step = step

AsIndices(d) == [d EXCEPT !.from = IndexOf(d.from), !.to = IndexOf(d.to)]

Answered == {[from |-> a.op.handle.step, steps |-> a.op.steps, note |-> a.op.note,
              to |-> a.handle.step] : a \in {b \in answers : b.op.kind = "advance"}}

Intervals == UNION {Range(g.intervals) : g \in Graphs}

Trajectory == INSTANCE CommittedTrajectory WITH
  Configs <- {g.config : g \in Graphs} \ {Nil},
  Requests <- {interval.steps : interval \in Intervals},
  Notes <- {interval.note : interval \in Intervals},
  config <- sessionConfig,
  trajectory <- [i \in 1..Len(rows) |-> rows[i].step],
  sealed <- completed,
  done <- {AsIndices(d) : d \in Done},
  answered <- {AsIndices(d) : d \in Answered}

\* The fake backend keeps the promise the SD1.5 service keeps.
ImplementsTrajectory == Trajectory!Spec

OperationsOf(g) ==
  {[input |-> Manifest(g.config, StepsUpTo(g, k - 1)), steps |-> g.intervals[k].steps,
    note |-> g.intervals[k].note] : k \in 1..Len(g.intervals)}

Committed(g) == \A o \in OperationsOf(g) : o \in DOMAIN ops /\ IsCommitted(o)

\* "Committed operations return their recorded outcome under any fence": once the
\* advances of a graph are committed, every worker that keeps re-running it gets
\* to its end, also one whose fence has been overtaken for good.  (Completing
\* takes the newest fence: graphs that complete are not promised this.)
RerunsFinish ==
  \A w \in Workers, g \in {x \in Graphs : ~x.finish /\ x.config # Nil} :
    Committed(g) ~> (run[w] # Nil /\ run[w].graph = g /\ AtEnd(run[w]))

\* An operation of the graph waits to be resumed at a step the scan does not reach.
BeyondScan(g) ==
  \E o \in OperationsOf(g) \cap DOMAIN ops :
    ~IsCommitted(o) /\ ops[o].recovery # Nil /\ ops[o].recovery.step >= ScanLimit

\* "A replacement instance acquires a new fence and resumes from the latest
\* recovery checkpoint": with its graph re-run, a session is trained to the end of
\* the graph whoever is killed, paused or overtaken, unless a worker was stopped
\* between a publication and the commit at a step beyond the scan, for good.
RerunsCommit ==
  \A g \in {x \in Graphs : ~x.finish /\ x.config # Nil} :
    (sessionConfig = g.config ~> Committed(g)) \/ <>[]BeyondScan(g)
=============================================================================
