---------------------- MODULE CommittedTrajectory_proofs ----------------------
(***************************************************************************)
(* What the promise of CommittedTrajectory comes to, for every set of       *)
(* configurations, requests and notes.  Whatever implements it inherits     *)
(* these theorems: the service and the fake backend both do.                *)
(***************************************************************************)
EXTENDS CommittedTrajectory, SequenceTheorems, TLAPS

-----------------------------------------------------------------------------
(* The invariant. *)

\* A session begins with a checkpoint, and nothing is before it.
Begun ==
  /\ config = Nil => trajectory = <<>> /\ done = {}
  /\ config # Nil => Len(trajectory) >= 1

TrajectoryOK ==
  /\ \E S : trajectory \in Seq(S)
  /\ Begun
  /\ ExactlyOnce

-----------------------------------------------------------------------------
(* The steps. *)

LEMMA OpenKeeps ==
  ASSUME Nil \notin Configs, TrajectoryOK, NEW c \in Configs, Open(c)
  PROVE  TrajectoryOK'
<1>1. config' # Nil /\ trajectory' = <<0>> /\ done' = {}
  BY DEF Open, TrajectoryOK, Begun
<1>2. trajectory' \in Seq({0}) /\ Len(trajectory') = 1
  BY <1>1
<1>3. ~\E i : i \in 2..1
  OBVIOUS
<1> QED
  BY <1>1, <1>2, <1>3 DEF TrajectoryOK, Begun, ExactlyOnce

\* An advance adds the one checkpoint it is responsible for.
LEMMA AdvanceKeeps ==
  ASSUME TrajectoryOK, NEW n, NEW note, Advance(n, note)
  PROVE  TrajectoryOK'
<1>1. PICK S : trajectory \in Seq(S)
  BY DEF TrajectoryOK
<1>2. PICK k, step, d : /\ k = Len(trajectory) /\ step = trajectory[Len(trajectory)] + n
                        /\ d = [from |-> k, steps |-> n, note |-> note, to |-> k + 1]
  OBVIOUS
<1>3. trajectory' = Append(trajectory, step) /\ done' = done \cup {d} /\ config' = config /\ config # Nil
  BY <1>2 DEF Advance
<1>4. k \in Nat /\ k >= 1
  BY <1>1, <1>2, <1>3 DEF TrajectoryOK, Begun
<1>5. /\ trajectory' \in Seq(S \cup {step}) /\ Len(trajectory') = k + 1
      /\ trajectory'[k + 1] = step
      /\ \A i \in 1..k : trajectory'[i] = trajectory[i]
  <2>1. trajectory \in Seq(S \cup {step})
    BY <1>1
  <2> QED
    BY <1>2, <1>3, <2>1, AppendProperties
<1>6. \A e \in done : /\ e.to \in 2..k /\ e.from = e.to - 1
                      /\ trajectory[e.to] = trajectory[e.from] + e.steps
  BY <1>2 DEF TrajectoryOK, ExactlyOnce
<1>7. \A i \in 2..k : \E e \in done : {x \in done : x.to = i} = {e}
  BY <1>2 DEF TrajectoryOK, ExactlyOnce
<1>8. d.from = k /\ d.to = k + 1 /\ d.steps = n
  BY <1>2
<1>9. ASSUME NEW i \in 2..(k + 1)
      PROVE  \E e \in done' : {x \in done' : x.to = i} = {e}
  <2>1. CASE i = k + 1
    <3>1. {x \in done' : x.to = i} = {d}
      BY <1>3, <1>4, <1>6, <1>8, <2>1
    <3> QED
      BY <1>3, <3>1
  <2>2. CASE i # k + 1
    <3>1. i \in 2..k
      BY <1>4, <2>2
    <3>2. {x \in done' : x.to = i} = {x \in done : x.to = i}
      BY <1>3, <1>8, <2>2
    <3> QED
      BY <1>3, <1>7, <3>1, <3>2
  <2> QED
    BY <2>1, <2>2
<1>10. ASSUME NEW e \in done'
       PROVE  /\ e.to \in 2..(k + 1) /\ e.from = e.to - 1
              /\ trajectory'[e.to] = trajectory'[e.from] + e.steps
  <2>1. CASE e = d
    <3>1. trajectory'[k + 1] = trajectory'[k] + n
      BY <1>2, <1>4, <1>5
    <3> QED
      BY <1>4, <1>8, <2>1, <3>1
  <2>2. CASE e \in done
    <3>1. e.to \in 2..k /\ e.from = e.to - 1 /\ trajectory[e.to] = trajectory[e.from] + e.steps
      BY <1>6, <2>2
    <3>2. e.to \in 1..k /\ e.from \in 1..k /\ e.to \in 2..(k + 1)
      BY <1>4, <3>1
    <3> QED
      BY <1>5, <3>1, <3>2
  <2> QED
    BY <1>3, <2>1, <2>2
<1>11. ExactlyOnce'
  BY <1>5, <1>9, <1>10 DEF ExactlyOnce
<1>12. Begun'
  BY <1>3, <1>4, <1>5 DEF Begun
<1>13. \E T : trajectory' \in Seq(T)
  BY <1>5
<1> QED
  BY <1>11, <1>12, <1>13 DEF TrajectoryOK

LEMMA TrajectoryInvariance ==
  ASSUME Nil \notin Configs
  PROVE  Spec => []TrajectoryOK
<1>1. Init => TrajectoryOK
  <2> SUFFICES ASSUME Init PROVE TrajectoryOK
    OBVIOUS
  <2>1. trajectory = <<>> /\ trajectory \in Seq({}) /\ Len(trajectory) = 0 /\ done = {} /\ config = Nil
    BY DEF Init
  <2> QED
    BY <2>1 DEF TrajectoryOK, Begun, ExactlyOnce
<1>2. TrajectoryOK /\ [Next]_vars => TrajectoryOK'
  <2>1. ASSUME TrajectoryOK, UNCHANGED <<config, trajectory, done>> PROVE TrajectoryOK'
    BY <2>1 DEF TrajectoryOK, Begun, ExactlyOnce
  <2>2. ASSUME TrajectoryOK, NEW d \in done, Answer(d) PROVE TrajectoryOK'
    BY <2>1, <2>2 DEF Answer
  <2>3. ASSUME TrajectoryOK, CompleteSession PROVE TrajectoryOK'
    BY <2>1, <2>3 DEF CompleteSession
  <2> QED
    BY <2>1, <2>2, <2>3, OpenKeeps, AdvanceKeeps DEF Next, vars
<1> QED
  BY <1>1, <1>2, PTL DEF Spec

\* No checkpoint is reached by two advances, or by none, and no checkpoint is advanced from
\* twice, whoever answers, retries or completes.
THEOREM OnceEach == ASSUME Nil \notin Configs PROVE Spec => []ExactlyOnce
<1>1. TrajectoryOK => ExactlyOnce
  BY DEF TrajectoryOK
<1> QED
  BY <1>1, TrajectoryInvariance, PTL
=============================================================================
