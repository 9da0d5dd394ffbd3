---------------------- MODULE MissionContinuity_proofs ----------------------
(***************************************************************************)
(* Proofs about MissionContinuity for any set of missions, runs and        *)
(* commitments, and any number of events and checkpoints.                  *)
(***************************************************************************)
EXTENDS MissionContinuity, TLAPS, WellFoundedInduction

-----------------------------------------------------------------------------
(* The largest anchored count *)

\* A bounded set of naturals that has an element has a largest one.
LEMMA LargestExists ==
  ASSUME NEW S, S \subseteq Nat, S # {}, NEW b \in Nat, \A k \in S : k <= b
  PROVE  \E n \in S : \A k \in S : k <= n
<1> DEFINE T == {n \in Nat : \A k \in S : k <= n}
<1> DEFINE R == OpToRel(<, Nat)
<1>1. T \subseteq Nat /\ T # {}
  OBVIOUS
<1>2. IsWellFoundedOn(R, Nat)
  BY NatLessThanWellFounded
<1>3. \E x \in T : \A y \in T : ~ (<<y, x>> \in R)
  <2> HIDE DEF T, R
  <2> QED BY <1>1, <1>2, WFMin
<1>4. PICK x \in T : \A y \in T : ~ (<<y, x>> \in R)
  BY <1>3
<1>5. \A y \in T : ~ (y < x)
  <2>1. \A y, z \in Nat : y < z => <<y, z>> \in R
    BY DEF OpToRel
  <2> QED BY <2>1, <1>4, <1>1
<1>6. x \in Nat /\ \A k \in S : k <= x
  BY <1>4
<1>7. PICK k \in S : x = 0 \/ ~ (k <= x - 1)
  <2>1. CASE x = 0
    BY <2>1
  <2>2. CASE x # 0
    <3>1. x - 1 \in Nat /\ x - 1 < x
      BY <2>2, <1>6
    <3> QED BY <3>1, <1>5
  <2> QED BY <2>1, <2>2
<1>8. k = x
  <2>1. k \in Nat /\ k <= x
    BY <1>6
  <2> QED BY <2>1, <1>6, <1>7
<1> QED BY <1>6, <1>8

\* Anchored is what recoveryBoundaryTx selects: the largest anchor of r.
LEMMA AnchoredIsLargest ==
  ASSUME NEW chain \in Seq(Checkpoint), NEW r \in Runs, NEW b \in Nat,
         \A i \in DOMAIN chain : chain[i].run = r => chain[i].count <= b
  PROVE  /\ Anchored(chain, r) \in Nat
         /\ Anchored(chain, r) # 0 =>
               \E i \in DOMAIN chain : chain[i].run = r /\ chain[i].count = Anchored(chain, r)
         /\ \A i \in DOMAIN chain : chain[i].run = r => chain[i].count <= Anchored(chain, r)
<1> DEFINE S == AnchoredCounts(chain, r)
<1>1. \A i \in DOMAIN chain : chain[i] \in Checkpoint
  OBVIOUS
<1>2. S \subseteq Nat /\ S # {} /\ \A k \in S : k <= b
  BY <1>1 DEF AnchoredCounts, Checkpoint
<1>3. \E n \in S : \A k \in S : k <= n
  <2> HIDE DEF S
  <2> QED BY <1>2, LargestExists
<1>4. Anchored(chain, r) \in S /\ \A k \in S : k <= Anchored(chain, r)
  BY <1>3 DEF Anchored
<1> QED BY <1>2, <1>4 DEF AnchoredCounts

-----------------------------------------------------------------------------
(* Type correctness *)

LEMMA CitationsType == Citations \subseteq SUBSET Event
  BY CitedAssumption DEF Citations, Event

LEMMA NoCommitmentsType == NoCommitments \in Commitments
<1>1. NoCommitments \in [{} -> Commitment]
  BY DEF NoCommitments
<1> QED BY <1>1 DEF Commitments

\* The state a rejection carries forward is well typed.
LEMMA PriorType ==
  ASSUME TypeOK, NEW m \in Missions, NEW r \in Runs
  PROVE  PriorCommitments(m) \in Commitments /\ PriorEvidence(m, r) \in SUBSET Event
<1>1. checkpoints[m] \in Seq(Checkpoint)
  BY DEF TypeOK
<1>2. checkpoints[m] # <<>> => Last(checkpoints[m]) \in Checkpoint
  BY <1>1 DEF Last
<1> QED BY <1>2, NoCommitmentsType DEF PriorCommitments, PriorEvidence, Checkpoint

\* A checkpoint of the right shape, from whichever operation it comes.
WellFormed(m, r, c) ==
    /\ c \in Checkpoint
    /\ c.run = r
    /\ c.count = runs[r].count
    /\ c.derived => /\ c.from = Anchored(checkpoints[m], r)
                    /\ Recoverable(m, r)
                    /\ c.decision = "rejected" => c.commitments = PriorCommitments(m)

LEMMA RecoveryBoundary ==
  ASSUME TypeOK, NEW m \in Missions, NEW r \in Runs, Recoverable(m, r)
  PROVE  /\ Anchored(checkpoints[m], r) \in Nat
         /\ Anchored(checkpoints[m], r) < runs[r].count
         /\ Anchored(checkpoints[m], r) # 0 =>
               \E i \in DOMAIN checkpoints[m] :
                   /\ checkpoints[m][i].run = r
                   /\ checkpoints[m][i].count = Anchored(checkpoints[m], r)
         /\ \A i \in DOMAIN checkpoints[m] :
               checkpoints[m][i].run = r =>
                   checkpoints[m][i].count <= Anchored(checkpoints[m], r)
<1> DEFINE chain == checkpoints[m]
<1>1. chain \in Seq(Checkpoint) /\ runs[r].count \in Nat
  BY DEF TypeOK, Run
<1>2. \A i \in DOMAIN chain : chain[i].run = r => chain[i].count <= runs[r].count
  BY <1>1 DEF Recoverable, Verify, Chained
<1>3. /\ Anchored(chain, r) \in Nat
      /\ Anchored(chain, r) # 0 =>
            \E i \in DOMAIN chain : chain[i].run = r /\ chain[i].count = Anchored(chain, r)
      /\ \A i \in DOMAIN chain : chain[i].run = r => chain[i].count <= Anchored(chain, r)
  BY <1>1, <1>2, AnchoredIsLargest
<1>4. runs[r].count # 0 /\ \A i \in DOMAIN chain : chain[i].run = r => ~ (chain[i].count >= runs[r].count)
  BY DEF Recoverable, Uncheckpointed, Covered
<1>5. Anchored(chain, r) < runs[r].count
  BY <1>1, <1>2, <1>3, <1>4
<1> QED BY <1>3, <1>5

\* Every step of the three checkpoint operations appends a well-formed one.
LEMMA CheckpointSteps ==
  ASSUME TypeOK, NEW m \in Missions, NEW r \in Runs,
         \/ \E commitments \in Commitments, evidence \in Citations :
               \/ \E claim \in Claims \cup {NoClaim} :
                     CreateCheckpoint(m, r, commitments, evidence, claim)
               \/ AcceptRecovery(m, r, commitments, evidence)
         \/ RejectRecovery(m, r)
  PROVE  \E c \in Checkpoint : WellFormed(m, r, c) /\ Checkpointed(m, r, c)
<1>1. runs[r].count \in Nat
  BY DEF TypeOK, Run
<1>2. CASE \E commitments \in Commitments, evidence \in Citations,
                 claim \in Claims \cup {NoClaim} :
              CreateCheckpoint(m, r, commitments, evidence, claim)
  <2>1. PICK commitments \in Commitments, evidence \in Citations,
             claim \in Claims \cup {NoClaim} :
              CreateCheckpoint(m, r, commitments, evidence, claim)
    BY <1>2
  <2> DEFINE c == [run |-> r, count |-> runs[r].count,
                   commitments |-> commitments, evidence |-> evidence,
                   decision |-> claim[1], from |-> claim[2], derived |-> FALSE]
  <2>4. claim[1] \in {"none", "accepted", "rejected"} /\ claim[2] \in Nat
    BY ClaimsAssumption DEF NoClaim
  <2>2. c \in Checkpoint
    BY <1>1, <2>4, CitationsType DEF Checkpoint
  <2>3. WellFormed(m, r, c) /\ Checkpointed(m, r, c)
    BY <2>1, <2>2 DEF WellFormed, CreateCheckpoint
  <2> QED BY <2>2, <2>3
<1>3. CASE \E commitments \in Commitments, evidence \in Citations :
              AcceptRecovery(m, r, commitments, evidence)
  <2>1. PICK commitments \in Commitments, evidence \in Citations :
              AcceptRecovery(m, r, commitments, evidence)
    BY <1>3
  <2> DEFINE c == [run |-> r, count |-> runs[r].count,
                   commitments |-> commitments, evidence |-> evidence,
                   decision |-> "accepted", from |-> Anchored(checkpoints[m], r),
                   derived |-> TRUE]
  <2>2. Recoverable(m, r) /\ Checkpointed(m, r, c)
    BY <2>1 DEF AcceptRecovery
  <2>3. c \in Checkpoint
    BY <1>1, <2>2, CitationsType, RecoveryBoundary DEF Checkpoint
  <2>4. WellFormed(m, r, c)
    BY <2>2, <2>3 DEF WellFormed
  <2> QED BY <2>2, <2>3, <2>4
<1>4. CASE RejectRecovery(m, r)
  <2> DEFINE c == Rejection(m, r)
  <2>2. Recoverable(m, r) /\ Checkpointed(m, r, c)
    BY <1>4 DEF RejectRecovery
  <2>3. c \in Checkpoint
    BY <1>1, <2>2, PriorType, RecoveryBoundary DEF Checkpoint, Rejection
  <2>4. WellFormed(m, r, c)
    BY <2>2, <2>3 DEF WellFormed, Rejection
  <2> QED BY <2>2, <2>3, <2>4
<1> QED BY <1>2, <1>3, <1>4

\* The steps that change a run row and nothing else.
RunStep(r) == \/ \E m \in Missions \cup {None}, i \in Identities \cup {None} : Start(r, m, i)
              \/ StartImported(r)
              \/ \E m \in Missions, parent \in Runs : UpdateRunIdentity(r, m, parent)
              \/ AppendEvent(r) \/ MarkIdle(r) \/ Complete(r)

CheckpointStep(m, r) ==
    \/ \E commitments \in Commitments, evidence \in Citations :
          \/ \E claim \in Claims \cup {NoClaim} :
                CreateCheckpoint(m, r, commitments, evidence, claim)
          \/ AcceptRecovery(m, r, commitments, evidence)
    \/ RejectRecovery(m, r)

\* Each of the n events of the run carries what the metadata declares.
Whole(n, a) == a.bound = IF a.declared = None THEN {}
                         ELSE {<<k, a.declared>> : k \in 0..(n - 1)}

\* Then every prefix of the run verifies.
LEMMA WholeVerifies ==
  ASSUME NEW a, NEW count \in Nat, NEW n \in Nat, Whole(count, a), n <= count,
         a.declared \notin Malformed
  PROVE  AttributionVerifies(a, n)
<1>1. CASE a.declared = None
  BY <1>1 DEF Whole, AttributionVerifies
<1>2. CASE a.declared # None
  <2>1. a.bound = {<<k, a.declared>> : k \in 0..(count - 1)}
    BY <1>2 DEF Whole
  <2>2. \A b \in a.bound : b[2] = a.declared
    BY <2>1
  <2>3. ASSUME n > 0
        PROVE  \E b \in a.bound : b[1] < n
    <3>1. <<0, a.declared>> \in a.bound
      BY <2>1, <2>3
    <3> QED BY <3>1, <2>3
  <2> QED BY <2>2, <2>3 DEF AttributionVerifies
<1> QED BY <1>1, <1>2

LEMMA WholeExtended ==
  ASSUME NEW a \in Attribution, NEW n \in Nat, Whole(n, a)
  PROVE  Whole(n + 1, Declared(a.declared, a.bound \cup {<<n, i>> : i \in {a.declared} \ {None}}))
<1> DEFINE bound == a.bound \cup {<<n, i>> : i \in {a.declared} \ {None}}
<1>1. CASE a.declared = None
  BY <1>1 DEF Whole, Declared
<1>2. CASE a.declared # None
  <2>1. a.bound = {<<k, a.declared>> : k \in 0..(n - 1)}
    BY <1>2 DEF Whole
  <2>2. 0..(n + 1 - 1) = 0..(n - 1) \cup {n}
    OBVIOUS
  <2>3. bound = {<<k, a.declared>> : k \in 0..(n + 1 - 1)}
    <3>1. bound = a.bound \cup {<<n, a.declared>>}
      BY <1>2
    <3> QED BY <3>1, <2>1, <2>2
  <2> QED BY <1>2, <2>3 DEF Whole, Declared
<1> QED BY <1>1, <1>2

\* What such a step does to the row and the attribution of a run: the run
\* stays an imported or an observed one; an observed one keeps its mission and
\* its attribution; and no event is lost.
LEMMA RunStepRow ==
  ASSUME TypeOK, NEW r \in Runs, RunStep(r)
  PROVE  /\ UNCHANGED <<status, checkpoints, attached>>
         /\ \E x \in Run, a \in Attribution :
               /\ runs' = [runs EXCEPT ![r] = x]
               /\ attribution' = [attribution EXCEPT ![r] = a]
               /\ (runs[r].imported \/ Whole(runs[r].count, attribution[r])) =>
                      (x.imported \/ Whole(x.count, a))
               /\ x.status = "absent" => runs[r].status = "absent" /\ x.count = runs[r].count
               /\ \/ runs[r].status = "absent" /\ x.count = 0
                  \/ /\ x.count = runs[r].count
                     /\ x.mission = runs[r].mission
                     /\ x.imported = runs[r].imported
                  \/ x.count = runs[r].count /\ x.imported
                  \/ /\ x.count = runs[r].count + 1
                     /\ x.mission = runs[r].mission
                     /\ x.imported = runs[r].imported
                     /\ MissionGate(r)
<1> DEFINE R == runs[r]
<1> DEFINE A == attribution[r]
<1>1. /\ R \in Run /\ runs \in [Runs -> Run] /\ R.count \in Nat
      /\ A \in Attribution /\ attribution \in [Runs -> Attribution]
      /\ attribution = [attribution EXCEPT ![r] = A]
  BY DEF TypeOK, Run
<1>8. \A i \in Identities \cup {None} : Declared(i, {}) \in Attribution /\ Whole(0, Declared(i, {}))
  BY DEF Declared, Attribution, Whole
<1>2. CASE \E m \in Missions \cup {None}, i \in Identities \cup {None} : Start(r, m, i)
  <2>1. PICK m \in Missions \cup {None}, i \in Identities \cup {None} : Start(r, m, i)
    BY <1>2
  <2> DEFINE x == RunRow("active", 0, m, FALSE)
  <2>2. /\ runs' = [runs EXCEPT ![r] = x] /\ R.status = "absent"
        /\ attribution' = [attribution EXCEPT ![r] = Declared(i, {})]
        /\ UNCHANGED <<status, checkpoints, attached>>
    BY <2>1 DEF Start
  <2>3. x \in Run /\ x.count = 0 /\ x.status = "active"
    BY DEF RunRow, Run
  <2> QED BY <2>2, <2>3, <1>8
<1>3. CASE StartImported(r)
  <2> DEFINE x == RunRow("active", 0, None, TRUE)
  <2>1. /\ runs' = [runs EXCEPT ![r] = x] /\ R.status = "absent"
        /\ attribution' = [attribution EXCEPT ![r] = Declared(None, {})]
        /\ UNCHANGED <<status, checkpoints, attached>>
    BY <1>3 DEF StartImported
  <2>2. x \in Run /\ x.count = 0 /\ x.status = "active"
    BY DEF RunRow, Run
  <2> QED BY <2>1, <2>2, <1>8
<1>4. CASE \E m \in Missions, parent \in Runs : UpdateRunIdentity(r, m, parent)
  <2>1. PICK m \in Missions, parent \in Runs : UpdateRunIdentity(r, m, parent)
    BY <1>4
  <2> DEFINE x == RunRow(R.status, R.count, m, TRUE)
  <2> DEFINE a == Declared(IF attribution[parent].declared = None THEN A.declared
                           ELSE attribution[parent].declared, A.bound)
  <2>2. /\ runs' = [runs EXCEPT ![r] = x] /\ R.imported
        /\ UNCHANGED <<status, checkpoints, attached>>
    BY <1>1, <2>1 DEF UpdateRunIdentity
  <2>3. attribution' = [attribution EXCEPT ![r] = a]
    BY <1>1, <2>1 DEF UpdateRunIdentity
  <2>4. x \in Run /\ x.count = R.count /\ x.imported /\ x.status = R.status
    BY <1>1 DEF RunRow, Run
  <2>5. a \in Attribution
    <3>1. attribution[parent] \in Attribution
      BY <1>1
    <3> QED BY <1>1, <3>1 DEF Declared, Attribution
  <2> HIDE DEF x, a
  <2> QED BY <2>2, <2>3, <2>4, <2>5
<1>5. CASE AppendEvent(r)
  <2> DEFINE x == RunRow("active", R.count + 1, R.mission, R.imported)
  <2> DEFINE a == Declared(A.declared, A.bound \cup {<<R.count, i>> : i \in {A.declared} \ {None}})
  <2>1. /\ runs' = [runs EXCEPT ![r] = x] /\ MissionGate(r)
        /\ UNCHANGED <<status, checkpoints, attached>>
    BY <1>1, <1>5 DEF AppendEvent
  <2>2. attribution' = [attribution EXCEPT ![r] = a]
    BY <1>1, <1>5 DEF AppendEvent
  <2>3. /\ x \in Run /\ x.count = R.count + 1 /\ x.status = "active"
        /\ x.mission = R.mission /\ x.imported = R.imported
    BY <1>1 DEF RunRow, Run
  <2>4. a \in Attribution
    BY <1>1 DEF Declared, Attribution
  <2>5. Whole(R.count, A) => Whole(x.count, a)
    BY <1>1, <2>3, WholeExtended
  <2> HIDE DEF x, a
  <2> QED BY <2>1, <2>2, <2>3, <2>4, <2>5
<1>6. CASE MarkIdle(r) \/ Complete(r)
  <2>1. PICK s \in {"idle", "completed"} :
           /\ runs' = [runs EXCEPT ![r] = RunRow(s, R.count, R.mission, R.imported)]
           /\ UNCHANGED <<status, checkpoints, attribution, attached>>
    BY <1>1, <1>6 DEF MarkIdle, Complete
  <2> DEFINE x == RunRow(s, R.count, R.mission, R.imported)
  <2>2. /\ x \in Run /\ x.count = R.count /\ x.status # "absent"
        /\ x.mission = R.mission /\ x.imported = R.imported
    BY <1>1 DEF RunRow, Run
  <2>3. attribution' = [attribution EXCEPT ![r] = A]
    BY <1>1, <2>1
  <2> HIDE DEF x
  <2> QED BY <1>1, <2>1, <2>2, <2>3 DEF x
<1> QED BY <1>2, <1>3, <1>4, <1>5, <1>6 DEF RunStep

LEMMA NextSteps ==
  ASSUME Next
  PROVE  \/ \E m \in Missions : StartMission(m)
         \/ \E m \in Missions : CompleteMission(m)
         \/ \E r \in Runs : RunStep(r)
         \/ \E m \in Missions, r \in Runs : CheckpointStep(m, r)
  BY DEF Next, RunStep, CheckpointStep

LEMMA TypeStep == TypeOK /\ [Next]_vars => TypeOK'
<1> SUFFICES ASSUME TypeOK, [Next]_vars PROVE TypeOK'
  OBVIOUS
<1>1. CASE UNCHANGED vars
  BY <1>1 DEF vars, TypeOK
<1>2. ASSUME NEW m \in Missions, StartMission(m) \/ CompleteMission(m) PROVE TypeOK'
  BY <1>2 DEF TypeOK, StartMission, CompleteMission
<1>3. ASSUME NEW r \in Runs, RunStep(r) PROVE TypeOK'
  <2>1. PICK x \in Run, a \in Attribution : /\ runs' = [runs EXCEPT ![r] = x]
                                            /\ attribution' = [attribution EXCEPT ![r] = a]
    BY <1>3, RunStepRow
  <2>2. UNCHANGED <<status, checkpoints, attached>>
    BY <1>3, RunStepRow
  <2> QED BY <2>1, <2>2 DEF TypeOK
<1>4. ASSUME NEW m \in Missions, NEW r \in Runs, CheckpointStep(m, r) PROVE TypeOK'
  <2>1. PICK c \in Checkpoint : Checkpointed(m, r, c)
    BY <1>4, CheckpointSteps DEF CheckpointStep
  <2>2. Append(checkpoints[m], c) \in Seq(Checkpoint)
    BY DEF TypeOK
  <2> QED BY <2>1, <2>2 DEF Checkpointed, MayCheckpoint, TypeOK
<1> QED BY <1>1, <1>2, <1>3, <1>4, NextSteps

\* Type correctness: no sequence of operations leaves the tables in a shape
\* the code cannot read back.
THEOREM TypeCorrect == Spec => []TypeOK
<1>1. Init => TypeOK
  <2>1. NoRun \in Run /\ Declared(None, {}) \in Attribution
    BY DEF NoRun, RunRow, Run, Declared, Attribution
  <2> QED BY <2>1 DEF Init, TypeOK
<1> QED BY <1>1, TypeStep, PTL DEF Spec

-----------------------------------------------------------------------------
(* Verification, recovery and completion *)

\* A run that was never started has no events.
AbsentEmpty == \A r \in Runs : runs[r].status = "absent" => runs[r].count = 0

\* All events of an observed run carry the attribution it was started with.
ObservedBound ==
    \A r \in Runs : ~runs[r].imported => Whole(runs[r].count, attribution[r])

Inv == AbsentEmpty /\ ObservedBound /\ ContinuityVerifies /\ RecoverySound /\ OwnWorkReconciled

LEMMA InitInv == Init => Inv
  BY DEF Init, NoRun, RunRow, Declared, Inv, AbsentEmpty, ObservedBound, Whole,
         ContinuityVerifies, Chained, RecoverySound, OwnWorkReconciled

\* Runs only grow, so checkpoints that verified keep verifying; and a run of a
\* completed mission does not grow.
LEMMA RunStepInv ==
  ASSUME TypeOK, Inv, NEW r \in Runs, RunStep(r)
  PROVE  Inv'
<1>1. UNCHANGED <<status, checkpoints, attached>>
  BY RunStepRow
<1>2. PICK x \in Run, a \in Attribution :
         /\ runs' = [runs EXCEPT ![r] = x]
         /\ attribution' = [attribution EXCEPT ![r] = a]
         /\ (runs[r].imported \/ Whole(runs[r].count, attribution[r])) =>
                (x.imported \/ Whole(x.count, a))
         /\ x.status = "absent" => runs[r].status = "absent" /\ x.count = runs[r].count
         /\ \/ runs[r].status = "absent" /\ x.count = 0
            \/ /\ x.count = runs[r].count
               /\ x.mission = runs[r].mission
               /\ x.imported = runs[r].imported
            \/ x.count = runs[r].count /\ x.imported
            \/ /\ x.count = runs[r].count + 1
               /\ x.mission = runs[r].mission
               /\ x.imported = runs[r].imported
               /\ MissionGate(r)
  BY RunStepRow
<1>3. runs \in [Runs -> Run] /\ \A q \in Runs : runs[q].count \in Nat
  BY DEF TypeOK, Run
<1>4. runs'[r] = x /\ \A q \in Runs \ {r} : runs'[q] = runs[q]
  BY <1>2, <1>3
<1>5. \A q \in Runs : runs'[q].count \in Nat /\ runs[q].count <= runs'[q].count
  BY <1>2, <1>3, <1>4 DEF Inv, AbsentEmpty, Run
<1>6. AbsentEmpty'
  BY <1>2, <1>4 DEF Inv, AbsentEmpty
<1>10. \A q \in Runs : ~runs'[q].imported => Whole(runs'[q].count, attribution'[q])
  <2>1. attribution'[r] = a /\ \A q \in Runs \ {r} : attribution'[q] = attribution[q]
    BY <1>2 DEF TypeOK
  <2>2. \A q \in Runs : runs[q].imported \/ Whole(runs[q].count, attribution[q])
    BY DEF Inv, ObservedBound
  <2> QED BY <2>1, <2>2, <1>2, <1>4
<1>11. ObservedBound'
  BY <1>10 DEF ObservedBound, Whole
<1>7. ContinuityVerifies'
  <2>1. ASSUME NEW m \in Missions, NEW i \in DOMAIN checkpoints[m]
        PROVE  /\ checkpoints[m][i].count <= runs'[checkpoints[m][i].run].count
               /\ WellAttributed(checkpoints[m][i].run)' =>
                     AttributionVerifies(attribution'[checkpoints[m][i].run],
                                         checkpoints[m][i].count)
    <3>1. checkpoints[m] \in Seq(Checkpoint)
      BY DEF TypeOK
    <3>4. checkpoints[m][i] \in Checkpoint /\ i \in 1..Len(checkpoints[m])
      BY <3>1
    <3>2. checkpoints[m][i].run \in Runs /\ checkpoints[m][i].count \in Nat
      BY <3>4 DEF Checkpoint
    <3>3. checkpoints[m][i].count <= runs[checkpoints[m][i].run].count
      BY <3>4 DEF Inv, ContinuityVerifies, Chained
    <3>5. checkpoints[m][i].count <= runs'[checkpoints[m][i].run].count
      BY <3>2, <3>3, <1>3, <1>5
    <3>6. ASSUME WellAttributed(checkpoints[m][i].run)'
          PROVE  AttributionVerifies(attribution'[checkpoints[m][i].run], checkpoints[m][i].count)
      BY <1>1, <3>2, <3>5, <3>6, <1>5, <1>10, WholeVerifies DEF WellAttributed
    <3> QED BY <3>5, <3>6
  <2>2. \A m \in Missions : checkpoints[m] \in Seq(Checkpoint)
    BY DEF TypeOK
  <2>3. ASSUME NEW m \in Missions
        PROVE  /\ Chained(checkpoints[m])'
               /\ \A i \in DOMAIN checkpoints[m] :
                     Within(checkpoints[m][i].evidence, checkpoints[m][i].run,
                            checkpoints[m][i].count)
    BY <1>1, <2>1, <2>2 DEF Inv, ContinuityVerifies, Chained
  <2> QED BY <1>1, <2>1, <2>3 DEF ContinuityVerifies, AttributionVerifies, WellAttributed
<1>8. RecoverySound'
  BY <1>1 DEF Inv, RecoverySound
<1>9. OwnWorkReconciled'
  <2> SUFFICES ASSUME NEW m \in Missions, NEW q \in Runs,
                      status[m] = "completed", MissionsOf(q)' = {m}, ~runs'[q].imported
               PROVE  Covered(checkpoints[m], q, runs'[q].count)
    BY <1>1 DEF OwnWorkReconciled
  <2>1. CASE q # r
    <3>1. runs'[q] = runs[q] /\ MissionsOf(q) = {m}
      BY <2>1, <1>1, <1>4 DEF MissionsOf
    <3> QED BY <3>1 DEF Inv, OwnWorkReconciled
  <2>2. CASE q = r /\ runs'[q].count = 0
    BY <2>2 DEF Covered
  <2>3. CASE q = r /\ x.mission = runs[r].mission /\ x.imported = runs[r].imported
    <3>1. MissionsOf(q) = {m} /\ ~runs[q].imported
      BY <2>3, <1>1, <1>4 DEF MissionsOf
    <3>2. ~MissionGate(r)
      <4>1. \A n \in Missions : Associated(n, r) => n \in MissionsOf(r)
        BY NoneAssumption DEF Associated, MissionsOf
      <4>2. Associated(m, r)
        BY <3>1, <2>3 DEF MissionsOf, Associated
      <4>3. \A n \in Missions : Associated(n, r) => status[n] = "completed"
        BY <4>1, <3>1, <2>3
      <4> QED BY <4>2, <4>3 DEF MissionGate
    <3>3. runs'[q].count = runs[q].count \/ runs'[q].count = 0
      BY <1>2, <1>4, <2>3, <3>2
    <3>4. Covered(checkpoints[m], q, runs[q].count)
      BY <3>1 DEF Inv, OwnWorkReconciled
    <3> QED BY <3>3, <3>4 DEF Covered
  <2> QED BY <1>2, <1>4, <2>1, <2>2, <2>3
<1> QED BY <1>6, <1>11, <1>7, <1>8, <1>9 DEF Inv

\* What a mission's chain looks like after a checkpoint.
LEMMA Appended ==
  ASSUME TypeOK, NEW m \in Missions, NEW r \in Runs, NEW c \in Checkpoint,
         Checkpointed(m, r, c)
  PROVE  /\ \A n \in Missions \ {m} : checkpoints'[n] = checkpoints[n]
         /\ checkpoints[m] \in Seq(Checkpoint)
         /\ Len(checkpoints'[m]) = Len(checkpoints[m]) + 1
         /\ DOMAIN checkpoints'[m] = 1..(Len(checkpoints[m]) + 1)
         /\ \A i \in 1..Len(checkpoints[m]) : checkpoints'[m][i] = checkpoints[m][i]
         /\ checkpoints'[m][Len(checkpoints[m]) + 1] = c
         /\ UNCHANGED <<status, runs, attribution>>
<1>1. checkpoints \in [Missions -> Seq(Checkpoint)]
  BY DEF TypeOK
<1>2. checkpoints' = [checkpoints EXCEPT ![m] = Append(checkpoints[m], c)]
  BY DEF Checkpointed
<1>3. checkpoints'[m] = Append(checkpoints[m], c)
  BY <1>1, <1>2
<1>4. checkpoints[m] \in Seq(Checkpoint)
  BY <1>1
<1>5. /\ Len(Append(checkpoints[m], c)) = Len(checkpoints[m]) + 1
      /\ DOMAIN Append(checkpoints[m], c) = 1..(Len(checkpoints[m]) + 1)
      /\ \A i \in 1..Len(checkpoints[m]) : Append(checkpoints[m], c)[i] = checkpoints[m][i]
      /\ Append(checkpoints[m], c)[Len(checkpoints[m]) + 1] = c
  BY <1>4
<1>6. \A n \in Missions \ {m} : checkpoints'[n] = checkpoints[n]
  BY <1>1, <1>2
<1>7. UNCHANGED <<status, runs, attribution>>
  BY DEF Checkpointed
<1> QED BY <1>3, <1>4, <1>5, <1>6, <1>7

LEMMA CheckpointStepInv ==
  ASSUME TypeOK, Inv, NEW m \in Missions, NEW r \in Runs, NEW c \in Checkpoint,
         WellFormed(m, r, c), Checkpointed(m, r, c)
  PROVE  Inv'
<1> DEFINE chain == checkpoints[m]
<1> DEFINE chain2 == checkpoints'[m]
<1> DEFINE k == Len(chain) + 1
<1>1. /\ chain \in Seq(Checkpoint) /\ Len(chain) \in Nat
      /\ DOMAIN chain = 1..Len(chain)
      /\ Len(chain2) = k /\ DOMAIN chain2 = 1..k
      /\ \A i \in 1..Len(chain) : chain2[i] = chain[i]
      /\ chain2[k] = c
      /\ \A n \in Missions \ {m} : checkpoints'[n] = checkpoints[n]
      /\ UNCHANGED <<status, runs, attribution>>
  BY Appended
<1>2. /\ \A i \in 1..Len(chain) : Before(chain2, i) = Before(chain, i)
      /\ Before(chain2, k) = PriorCommitments(m)
  <2>1. \A i \in 1..Len(chain) : Before(chain2, i) = Before(chain, i)
    BY <1>1 DEF Before
  <2>2. CASE chain = <<>>
    BY <1>1, <2>2 DEF Before, PriorCommitments
  <2>3. CASE chain # <<>>
    <3>1. Len(chain) \in 1..Len(chain) /\ k # 1 /\ k - 1 = Len(chain)
      BY <1>1, <2>3
    <3>2. Before(chain2, k) = chain[Len(chain)].commitments
      BY <1>1, <3>1 DEF Before
    <3>3. PriorCommitments(m) = chain[Len(chain)].commitments
      BY <2>3 DEF PriorCommitments, Last
    <3> QED BY <2>1, <3>2, <3>3
  <2> QED BY <2>1, <2>2, <2>3
<1>3. AbsentEmpty' /\ ObservedBound'
  BY <1>1 DEF Inv, AbsentEmpty, ObservedBound, Whole
<1>4. ContinuityVerifies'
  <2>1. Carries(Before(chain2, k), c.commitments)
    <3>1. CASE chain = <<>>
      BY <3>1, <1>2 DEF PriorCommitments, NoCommitments, Carries
    <3>2. CASE chain # <<>>
      BY <3>2, <1>2 DEF PriorCommitments, Checkpointed, MayCheckpoint
    <3> QED BY <3>1, <3>2
  <2>2. /\ c.count <= runs[c.run].count
        /\ Within(c.evidence, c.run, c.count)
        /\ WellAttributed(c.run) => AttributionVerifies(attribution[c.run], c.count)
    <3>1. c.run = r /\ c.count = runs[r].count /\ runs[r].count \in Nat
      BY DEF WellFormed, TypeOK, Run
    <3>2. WellAttributed(r) => AttributionVerifies(attribution[r], runs[r].count)
      BY <3>1, WholeVerifies DEF Inv, ObservedBound, WellAttributed
    <3> QED BY <3>1, <3>2 DEF Checkpointed, MayCheckpoint
  <2>3. \A i \in 1..Len(chain) :
           /\ Carries(Before(chain, i), chain[i].commitments)
           /\ chain[i].count <= runs[chain[i].run].count
           /\ Within(chain[i].evidence, chain[i].run, chain[i].count)
           /\ WellAttributed(chain[i].run) =>
                 AttributionVerifies(attribution[chain[i].run], chain[i].count)
    BY <1>1 DEF Inv, ContinuityVerifies, Chained
  <2>4. ASSUME NEW i \in 1..k
        PROVE  /\ Carries(Before(chain2, i), chain2[i].commitments)
               /\ chain2[i].count <= runs[chain2[i].run].count
               /\ Within(chain2[i].evidence, chain2[i].run, chain2[i].count)
               /\ WellAttributed(chain2[i].run) =>
                     AttributionVerifies(attribution[chain2[i].run], chain2[i].count)
    <3>1. CASE i = k
      BY <3>1, <1>1, <2>1, <2>2
    <3>2. CASE i \in 1..Len(chain)
      BY <3>2, <1>1, <1>2, <2>3
    <3> QED BY <3>1, <3>2, <1>1
  <2>5. ASSUME NEW n \in Missions
        PROVE  /\ \A i \in 1..Len(checkpoints'[n]) :
                     /\ Carries(Before(checkpoints'[n], i), checkpoints'[n][i].commitments)
                     /\ checkpoints'[n][i].count <= runs'[checkpoints'[n][i].run].count
               /\ \A i \in DOMAIN checkpoints'[n] :
                     /\ Within(checkpoints'[n][i].evidence, checkpoints'[n][i].run,
                               checkpoints'[n][i].count)
                     /\ WellAttributed(checkpoints'[n][i].run) =>
                           AttributionVerifies(attribution[checkpoints'[n][i].run],
                                               checkpoints'[n][i].count)
    <3>1. CASE n = m
      BY <3>1, <1>1, <2>4
    <3>2. CASE n # m
      BY <3>2, <1>1 DEF Inv, ContinuityVerifies, Chained
    <3> QED BY <3>1, <3>2
  <2> QED BY <2>5, <1>1 DEF ContinuityVerifies, Chained, AttributionVerifies, WellAttributed
<1>5. RecoverySound'
  <2>1. ASSUME c.derived
        PROVE  /\ c.from < c.count
               /\ \A j \in 1..Len(chain) : chain[j].run = r => chain[j].count <= c.from
               /\ c.from # 0 =>
                     \E j \in 1..Len(chain) : chain[j].run = r /\ chain[j].count = c.from
    BY <2>1, <1>1, RecoveryBoundary DEF WellFormed
  <2>2. ASSUME NEW i \in 1..k, chain2[i].derived
        PROVE  /\ chain2[i].from < chain2[i].count
               /\ \A j \in 1..(i - 1) : chain2[j].run = chain2[i].run =>
                                           chain2[j].count <= chain2[i].from
               /\ chain2[i].from # 0 =>
                     \E j \in 1..(i - 1) : /\ chain2[j].run = chain2[i].run
                                           /\ chain2[j].count = chain2[i].from
               /\ chain2[i].decision = "rejected" =>
                     chain2[i].commitments = Before(chain2, i)
    <3>1. CASE i = k
      <4>1. chain2[i] = c /\ c.run = r /\ i - 1 = Len(chain)
        BY <3>1, <1>1 DEF WellFormed
      <4>2. c.decision = "rejected" => c.commitments = Before(chain2, i)
        BY <3>1, <1>1, <1>2, <2>2 DEF WellFormed
      <4> QED BY <4>1, <4>2, <2>1, <2>2, <1>1
    <3>2. CASE i \in 1..Len(chain)
      <4>1. chain2[i] = chain[i] /\ i \in DOMAIN chain
        BY <3>2, <1>1
      <4>2. \A j \in 1..(i - 1) : chain2[j] = chain[j]
        BY <3>2, <1>1
      <4>3. /\ chain[i].from < chain[i].count
            /\ \A j \in 1..(i - 1) : chain[j].run = chain[i].run =>
                                        chain[j].count <= chain[i].from
            /\ chain[i].from # 0 =>
                  \E j \in 1..(i - 1) : /\ chain[j].run = chain[i].run
                                        /\ chain[j].count = chain[i].from
            /\ chain[i].decision = "rejected" => chain[i].commitments = Before(chain, i)
        BY <2>2, <4>1 DEF Inv, RecoverySound
      <4> QED BY <4>1, <4>2, <4>3, <3>2, <1>2
    <3> QED BY <3>1, <3>2, <1>1
  <2>3. ASSUME NEW n \in Missions, NEW i \in DOMAIN checkpoints'[n],
               checkpoints'[n][i].derived
        PROVE  /\ checkpoints'[n][i].from < checkpoints'[n][i].count
               /\ \A j \in {l \in 1..(i - 1) : checkpoints'[n][l].run = checkpoints'[n][i].run} :
                     checkpoints'[n][j].count <= checkpoints'[n][i].from
               /\ checkpoints'[n][i].from # 0 =>
                     \E j \in {l \in 1..(i - 1) : checkpoints'[n][l].run = checkpoints'[n][i].run} :
                         checkpoints'[n][j].count = checkpoints'[n][i].from
               /\ checkpoints'[n][i].decision = "rejected" =>
                     checkpoints'[n][i].commitments = Before(checkpoints'[n], i)
    <3>1. CASE n = m
      BY <3>1, <2>3, <1>1, <2>2
    <3>2. CASE n # m
      <4>1. checkpoints'[n] = checkpoints[n]
        BY <3>2, <1>1
      <4>2. /\ i \in DOMAIN checkpoints[n]
            /\ checkpoints[n][i].derived
        BY <4>1, <2>3
      <4>3. /\ checkpoints[n][i].from < checkpoints[n][i].count
            /\ \A j \in {l \in 1..(i - 1) : checkpoints[n][l].run = checkpoints[n][i].run} :
                  checkpoints[n][j].count <= checkpoints[n][i].from
            /\ checkpoints[n][i].from # 0 =>
                  \E j \in {l \in 1..(i - 1) : checkpoints[n][l].run = checkpoints[n][i].run} :
                      checkpoints[n][j].count = checkpoints[n][i].from
            /\ checkpoints[n][i].decision = "rejected" =>
                  checkpoints[n][i].commitments = Before(checkpoints[n], i)
        BY <4>2 DEF Inv, RecoverySound
      <4>4. Before(checkpoints'[n], i) = Before(checkpoints[n], i)
        BY <4>1
      <4> QED BY <4>1, <4>3, <4>4
    <3> QED BY <3>1, <3>2
  <2> QED BY <2>3 DEF RecoverySound
<1>6. OwnWorkReconciled'
  <2> SUFFICES ASSUME NEW n \in Missions, NEW q \in Runs,
                      status[n] = "completed", MissionsOf(q)' = {n}, ~runs[q].imported
               PROVE  Covered(checkpoints'[n], q, runs[q].count)
    BY <1>1 DEF OwnWorkReconciled
  <2>1. n # m /\ status[m] = "active"
    BY DEF Checkpointed, MayCheckpoint
  <2>2. attached' = [attached EXCEPT ![r] = m] /\ attached \in [Runs -> Missions \cup {None}]
    BY DEF Checkpointed, MayCheckpoint, TypeOK
  <2>3. q # r
    <3>1. SUFFICES ASSUME q = r PROVE FALSE
      OBVIOUS
    <3>2. m \in MissionsOf(q)'
      BY <3>1, <2>2, NoneAssumption DEF MissionsOf
    <3> QED BY <3>2, <2>1
  <2>4. MissionsOf(q) = {n}
    BY <2>2, <2>3, <1>1 DEF MissionsOf
  <2>5. Covered(checkpoints[n], q, runs[q].count)
    BY <2>4 DEF Inv, OwnWorkReconciled
  <2> QED BY <2>1, <2>5, <1>1
<1> QED BY <1>3, <1>4, <1>5, <1>6 DEF Inv

\* All of Inv but the last part is about these three tables only.
LEMMA RowsUnchanged ==
  ASSUME Inv, UNCHANGED <<checkpoints, runs, attribution>>
  PROVE  AbsentEmpty' /\ ObservedBound' /\ ContinuityVerifies' /\ RecoverySound'
<1>1. AbsentEmpty'
  BY DEF Inv, AbsentEmpty
<1>2. ObservedBound'
  BY DEF Inv, ObservedBound, Whole
<1>3. ContinuityVerifies'
  BY DEF Inv, ContinuityVerifies, Chained, AttributionVerifies, WellAttributed
<1>4. RecoverySound'
  BY DEF Inv, RecoverySound
<1> QED BY <1>1, <1>2, <1>3, <1>4

LEMMA MissionStepInv ==
  ASSUME TypeOK, Inv, NEW m \in Missions, StartMission(m) \/ CompleteMission(m)
  PROVE  Inv'
<1>1. UNCHANGED <<checkpoints, runs, attribution, attached>>
  BY DEF StartMission, CompleteMission
<1>2. AbsentEmpty' /\ ObservedBound' /\ ContinuityVerifies' /\ RecoverySound'
  BY <1>1, RowsUnchanged DEF Inv
<1>3. ASSUME NEW n \in Missions, NEW q \in Runs,
             status'[n] = "completed", MissionsOf(q) = {n}, ~runs[q].imported
      PROVE  Covered(checkpoints[n], q, runs[q].count)
  <2>1. CASE status[n] = "completed"
    BY <2>1, <1>3 DEF Inv, OwnWorkReconciled
  <2>2. CASE status[n] # "completed"
    <3>1. n = m /\ CompleteMission(m)
      BY <2>2, <1>3 DEF StartMission, CompleteMission, TypeOK
    <3>2. Associated(n, q)
      BY <1>3 DEF MissionsOf, Associated
    <3> QED BY <3>1, <3>2 DEF CompleteMission, Uncheckpointed
  <2> QED BY <2>1, <2>2
<1> QED BY <1>1, <1>2, <1>3 DEF Inv, OwnWorkReconciled, MissionsOf

LEMMA InvStep == TypeOK /\ Inv /\ [Next]_vars => Inv'
<1> SUFFICES ASSUME TypeOK, Inv, [Next]_vars PROVE Inv'
  OBVIOUS
<1>1. CASE UNCHANGED vars
  <2>1. UNCHANGED <<status, checkpoints, runs, attribution, attached>>
    BY <1>1 DEF vars
  <2>2. AbsentEmpty' /\ ObservedBound' /\ ContinuityVerifies' /\ RecoverySound'
    BY <2>1, RowsUnchanged DEF Inv
  <2>3. OwnWorkReconciled'
    BY <2>1 DEF Inv, OwnWorkReconciled, MissionsOf
  <2> QED BY <2>2, <2>3 DEF Inv
<1>2. ASSUME NEW m \in Missions, StartMission(m) \/ CompleteMission(m) PROVE Inv'
  BY <1>2, MissionStepInv
<1>3. ASSUME NEW r \in Runs, RunStep(r) PROVE Inv'
  BY <1>3, RunStepInv
<1>4. ASSUME NEW m \in Missions, NEW r \in Runs, CheckpointStep(m, r) PROVE Inv'
  BY <1>4, CheckpointSteps, CheckpointStepInv DEF CheckpointStep
<1> QED BY <1>1, <1>2, <1>3, <1>4, NextSteps

LEMMA Invariant == Spec => []Inv
  BY InitInv, InvStep, TypeCorrect, PTL DEF Spec

\* The continuity of every mission always passes the bundle verifier: no
\* sequence of checkpoints, recovery decisions, appends and completions loses,
\* redefines or reopens a commitment, or leaves an anchor or a citation that
\* its run does not contain; and the anchored prefix of an observed run that
\* was started with a well-formed attribution, or none, verifies.
THEOREM ContinuityCorrect == Spec => []ContinuityVerifies
<1>1. Inv => ContinuityVerifies
  BY DEF Inv
<1> QED BY <1>1, Invariant, PTL

\* Every decision that AcceptRecovery and RejectRecovery make covers exactly the
\* tail nobody had decided about, whatever extensions callers put into plain
\* checkpoints.
THEOREM RecoveryCorrect == Spec => []RecoverySound
<1>1. Inv => RecoverySound
  BY DEF Inv
<1> QED BY <1>1, Invariant, PTL

\* The work of a completed mission stays inside its final checkpoints, for runs
\* that belong to that mission alone.
THEOREM CompletionFinal == Spec => []OwnWorkReconciled
<1>1. Inv => OwnWorkReconciled
  BY DEF Inv
<1> QED BY <1>1, Invariant, PTL

-----------------------------------------------------------------------------
(* What lies between two checkpoints *)

LEMMA CarriesTransitive ==
  ASSUME NEW a, NEW b, NEW c, Carries(a, b), Carries(b, c)
  PROVE  Carries(a, c)
  BY DEF Carries

LEMMA CheckpointStepProgress ==
  ASSUME TypeOK, Inv, ProgressKept, NEW m \in Missions, NEW r \in Runs, NEW c \in Checkpoint,
         WellFormed(m, r, c), Checkpointed(m, r, c)
  PROVE  ProgressKept'
<1> DEFINE chain == checkpoints[m]
<1> DEFINE n == Len(chain)
<1>1. /\ chain \in Seq(Checkpoint) /\ n \in Nat /\ DOMAIN chain = 1..n
      /\ DOMAIN checkpoints'[m] = 1..(n + 1)
      /\ \A i \in 1..n : checkpoints'[m][i] = chain[i]
      /\ checkpoints'[m][n + 1] = c
      /\ \A k \in Missions \ {m} : checkpoints'[k] = checkpoints[k]
  BY Appended
<1>2. ASSUME NEW i \in 1..n
      PROVE  Carries(chain[i].commitments, c.commitments)
  <2>1. Carries(chain[i].commitments, chain[n].commitments)
    BY <1>1 DEF ProgressKept
  <2>2. Carries(chain[n].commitments, c.commitments)
    BY <1>1 DEF Checkpointed, MayCheckpoint, Last
  <2> QED BY <2>1, <2>2, CarriesTransitive
<1>3. ASSUME NEW i \in 1..n, chain[i].run = c.run
      PROVE  chain[i].count <= c.count
  <2>1. chain[i].count <= runs[chain[i].run].count
    BY <1>1 DEF Inv, ContinuityVerifies, Chained
  <2> QED BY <2>1, <1>3 DEF WellFormed
<1>4. Carries(c.commitments, c.commitments) /\ c.count <= c.count
  BY DEF Carries, Checkpoint
<1>5. ASSUME NEW j \in 1..(n + 1), NEW i \in 1..j
      PROVE  /\ Carries(checkpoints'[m][i].commitments, checkpoints'[m][j].commitments)
             /\ checkpoints'[m][i].run = checkpoints'[m][j].run =>
                   checkpoints'[m][i].count <= checkpoints'[m][j].count
  <2>1. CASE j \in 1..n
    <3>1. i \in 1..n
      BY <1>1, <2>1
    <3> QED BY <2>1, <3>1, <1>1 DEF ProgressKept
  <2>2. CASE j = n + 1 /\ i \in 1..n
    BY <2>2, <1>1, <1>2, <1>3
  <2>3. CASE j = n + 1 /\ i = n + 1
    BY <2>3, <1>1, <1>4
  <2> QED BY <1>1, <2>1, <2>2, <2>3
<1>6. ASSUME NEW k \in Missions, NEW j \in DOMAIN checkpoints'[k], NEW i \in 1..j
      PROVE  /\ Carries(checkpoints'[k][i].commitments, checkpoints'[k][j].commitments)
             /\ checkpoints'[k][i].run = checkpoints'[k][j].run =>
                   checkpoints'[k][i].count <= checkpoints'[k][j].count
  <2>1. CASE k = m
    BY <2>1, <1>1, <1>5
  <2>2. CASE k # m
    BY <2>2, <1>1 DEF ProgressKept
  <2> QED BY <2>1, <2>2
<1> QED BY <1>6 DEF ProgressKept, Carries

LEMMA ProgressStep == TypeOK /\ Inv /\ ProgressKept /\ [Next]_vars => ProgressKept'
<1> SUFFICES ASSUME TypeOK, Inv, ProgressKept, [Next]_vars PROVE ProgressKept'
  OBVIOUS
<1>1. CASE UNCHANGED checkpoints
  BY <1>1 DEF ProgressKept, Carries
<1>2. ASSUME NEW m \in Missions, StartMission(m) \/ CompleteMission(m)
      PROVE  UNCHANGED checkpoints
  BY <1>2 DEF StartMission, CompleteMission
<1>3. ASSUME NEW r \in Runs, RunStep(r) PROVE UNCHANGED checkpoints
  BY <1>3, RunStepRow
<1>4. ASSUME NEW m \in Missions, NEW r \in Runs, CheckpointStep(m, r) PROVE ProgressKept'
  BY <1>4, CheckpointSteps, CheckpointStepProgress DEF CheckpointStep
<1> QED BY <1>1, <1>2, <1>3, <1>4, NextSteps DEF vars

\* No commitment of a mission is lost, redefined or reopened between any two of
\* its checkpoints, near or far (continuity.go 174-198 compares neighbours), and
\* the anchors of a run never go back.
THEOREM ProgressNeverLost == Spec => []ProgressKept
<1>1. Init => ProgressKept
  BY DEF Init, ProgressKept
<1> QED BY <1>1, Invariant, ProgressStep, TypeCorrect, PTL DEF Spec

-----------------------------------------------------------------------------
(* A tail can always be decided about *)

\* The evidence a rejection repeats lies inside the run it anchors.
LEMMA PriorWithin ==
  ASSUME TypeOK, Inv, NEW m \in Missions, NEW r \in Runs
  PROVE  Within(PriorEvidence(m, r), r, runs[r].count)
<1> DEFINE chain == checkpoints[m]
<1>1. chain \in Seq(Checkpoint) /\ runs[r].count \in Nat
  BY DEF TypeOK, Run
<1>2. CASE chain # <<>> /\ Last(chain).run = r
  <2> DEFINE c == chain[Len(chain)]
  <2>1. Len(chain) \in DOMAIN chain /\ c \in Checkpoint /\ c.run = r
    BY <1>1, <1>2 DEF Last
  <2>2. Within(c.evidence, r, c.count) /\ c.count <= runs[r].count
    BY <1>1, <2>1 DEF Inv, ContinuityVerifies, Chained
  <2>3. c.count \in Nat /\ \A e \in c.evidence : e[2] \in Nat
    BY <2>1 DEF Checkpoint, Event
  <2> QED BY <1>1, <1>2, <2>2, <2>3 DEF PriorEvidence, Within, Last
<1>3. CASE ~ (chain # <<>> /\ Last(chain).run = r)
  BY <1>3 DEF PriorEvidence, Within
<1> QED BY <1>2, <1>3

\* Nothing that createCheckpointOnce and prepareRecoveryCheckpoint
\* (continuity.go 132-198, 283-365) may refuse a rejection for is ever true of a
\* tail of the mission's own, if no run it looks at is a native session or was
\* started with a malformed attribution: the way out that docs/continuity.md
\* names is open.
THEOREM RejectionAlwaysPossible == Spec => []RejectionPossible
<1>1. ASSUME TypeOK, Inv, NEW m \in Missions, NEW r \in Runs,
             status[m] = "active", Uncheckpointed(m, r), attached[r] \in {None, m},
             WellAttributed(r),
             \A i \in DOMAIN checkpoints[m] : WellAttributed(checkpoints[m][i].run),
             Len(checkpoints[m]) < MaxCheckpoints
      PROVE  Reconcilable(m, r)
  <2>1. runs[r].count \in Nat /\ runs[r].count # 0
    BY <1>1 DEF Uncheckpointed, Covered, TypeOK, Run
  <2>2. runs[r].status # "absent"
    BY <1>1, <2>1 DEF Inv, AbsentEmpty
  <2>3. AttributionVerifies(attribution[r], runs[r].count)
    BY <1>1, <2>1, WholeVerifies DEF Inv, ObservedBound, WellAttributed
  <2>4. Verify(checkpoints[m])
    BY <1>1 DEF Inv, ContinuityVerifies, Verify
  <2>5. Recoverable(m, r)
    BY <1>1, <2>3, <2>4 DEF Recoverable
  <2>6. Within(Rejection(m, r).evidence, r, runs[r].count)
    BY <1>1, PriorWithin DEF Rejection
  <2>7. checkpoints[m] # <<>> =>
            Carries(Last(checkpoints[m]).commitments, Rejection(m, r).commitments)
    BY DEF Rejection, PriorCommitments, Carries
  <2> QED BY <1>1, <2>2, <2>5, <2>6, <2>7 DEF Reconcilable, MayCheckpoint
<1>2. TypeOK /\ Inv => RejectionPossible
  BY <1>1 DEF RejectionPossible
<1> QED BY <1>2, Invariant, TypeCorrect, PTL
=============================================================================
