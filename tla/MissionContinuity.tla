-------------------------- MODULE MissionContinuity --------------------------
(***************************************************************************)
(* Missions, checkpoints, recovery decisions and completion                *)
(* (internal/store/continuity.go, internal/continuity/checkpoint.go) over  *)
(* the runs of the ledger.                                                 *)
(*                                                                         *)
(* Every operation here is one transaction that reads, checks and writes   *)
(* under one snapshot, so it is one action; RunLedger shows for Append     *)
(* what that rests on.  A refused call changes nothing and is no action.   *)
(*                                                                         *)
(* By RunLedger the events of a run are only ever extended, so a prefix of *)
(* a run, with its chain head, is represented by its length.  The evidence *)
(* a checkpoint cites, itself and through its commitments, is one set of   *)
(* events.  A commitment is its definition (description and acceptance     *)
(* criteria) and its status; 'blocked' is subject to the same rules as     *)
(* 'pending'.  Of the content of events only the attribution is kept that  *)
(* Append copies into them from the metadata of the run, because the       *)
(* verifier compares the two.                                              *)
(***************************************************************************)
EXTENDS Integers, Sequences, FiniteSets

CONSTANTS
    Missions, Runs,
    Identities,         \* attributions (chainproof.agent.v1) that callers declare
    Malformed,          \* those of them that ValidateExtension refuses
    CommitmentIds,      \* identifiers agents give to commitments
    Definitions,        \* what a commitment may be declared to mean
    CitedSequences,     \* sequence numbers of the events agents cite
    Claims,             \* chainproof.recovery.v1 extensions callers write themselves
    MaxEvents,          \* bound: events of one run
    MaxCheckpoints,     \* bound: checkpoints of one mission
    None

ASSUME BoundsAssumption == MaxEvents \in Nat /\ MaxCheckpoints \in Nat
ASSUME CitedAssumption == CitedSequences \subseteq Nat
ASSUME MalformedAssumption == Malformed \subseteq Identities
ASSUME ClaimsAssumption == Claims \subseteq ({"accepted", "rejected"} \X Nat)
ASSUME NoneAssumption == None \notin Missions \cup Identities

VARIABLES
    status,             \* missions.status, or "absent"
    checkpoints,        \* table checkpoints, in sequence order
    runs,               \* table runs
    attribution,        \* attribution in the metadata and the events of runs
    attached            \* table mission_runs: UNIQUE(run_id)

vars == <<status, checkpoints, runs, attribution, attached>>

-----------------------------------------------------------------------------
(* Rows *)

Commitment == [def : Definitions, status : {"pending", "completed"}]
Commitments == UNION {[S -> Commitment] : S \in SUBSET CommitmentIds}
Event == Runs \X Nat
\* decision, from: the recovery extension.  derived: the store derived it (a
\* history variable: what is stored does not tell it from one a caller wrote).
Checkpoint == [run : Runs, count : Nat, commitments : Commitments,
               evidence : SUBSET Event,
               decision : {"none", "accepted", "rejected"}, from : Nat,
               derived : BOOLEAN]

\* imported: created by the Codex collector for a native session file.
Run == [status : {"absent", "active", "idle", "completed"}, count : Nat,
        mission : Missions \cup {None}, imported : BOOLEAN]

RunRow(s, n, m, i) == [status |-> s, count |-> n, mission |-> m, imported |-> i]
NoRun == RunRow("absent", 0, None, FALSE)

\* declared: in runs.metadata.  bound: <<sequence, identity>> of the events
\* that carry one.
Attribution == [declared : Identities \cup {None}, bound : SUBSET (Nat \X Identities)]
Declared(i, bound) == [declared |-> i, bound |-> bound]

Last(chain) == chain[Len(chain)]

NoClaim == <<"none", 0>>

\* Defective variant (metadata.mission_id not consulted), to be caught by
\* OwnWorkReconciled.
AssociatedByCheckpoint(m, r) == attached[r] = m

\* mission_runs row, or metadata.mission_id.
Associated(m, r) == attached[r] = m \/ runs[r].mission = m

\* Some checkpoint of the chain anchors r at entry count n or later.
Covered(chain, r, n) ==
    n = 0 \/ \E i \in DOMAIN chain : chain[i].run = r /\ chain[i].count >= n

\* entry_count > COALESCE(MAX(anchored entry_count), 0)
Uncheckpointed(m, r) ==
    Associated(m, r) /\ ~Covered(checkpoints[m], r, runs[r].count)

\* The largest entry count at which the chain anchors r, 0 if it does not.
AnchoredCounts(chain, r) == {0} \cup {chain[i].count : i \in {j \in DOMAIN chain : chain[j].run = r}}
Anchored(chain, r) == CHOOSE n \in AnchoredCounts(chain, r) :
                          \A k \in AnchoredCounts(chain, r) : k <= n

\* validCommitmentTransition
Carries(old, new) ==
    \A c \in DOMAIN old :
        /\ c \in DOMAIN new
        /\ new[c].def = old[c].def
        /\ old[c].status = "completed" => new[c].status = "completed"

\* evidenceWithinAnchor
Within(evidence, r, n) == \A e \in evidence : e[1] = r /\ e[2] < n

NoCommitments == [c \in {} |-> None]

\* The commitments in force before the i-th checkpoint of a chain.
Before(chain, i) == IF i = 1 THEN NoCommitments ELSE chain[i - 1].commitments

\* continuity.Verify, and the anchor test of runBundleTx
Chained(chain) ==
    \A i \in 1..Len(chain) :
        /\ Carries(Before(chain, i), chain[i].commitments)
        /\ chain[i].count <= runs[chain[i].run].count

\* proof.VerifyBundle on the first n events of a run whose attribution is a:
\* it validates what the metadata declares now, and compares it with what the
\* events carry.
AttributionVerifies(a, n) ==
    LET seen == {b \in a.bound : b[1] < n}
    IN  /\ a.declared \notin Malformed
        /\ \A b \in seen : b[2] = a.declared
        /\ (a.declared # None /\ n > 0) => seen # {}

\* verifyMissionContinuityTx
Verify(chain) ==
    /\ Chained(chain)
    /\ \A i \in DOMAIN chain : AttributionVerifies(attribution[chain[i].run], chain[i].count)

-----------------------------------------------------------------------------
Init == /\ status = [m \in Missions |-> "absent"]
        /\ checkpoints = [m \in Missions |-> <<>>]
        /\ runs = [r \in Runs |-> NoRun]
        /\ attribution = [r \in Runs |-> Declared(None, {})]
        /\ attached = [r \in Runs |-> None]

StartMission(m) ==
    /\ status[m] = "absent"
    /\ status' = [status EXCEPT ![m] = "active"]
    /\ UNCHANGED <<checkpoints, runs, attribution, attached>>

\* The metadata of a run is stored unchecked: of its callers only the commands of
\* an agent that has a profile write a valid attribution themselves, the HTTP API
\* and Store.Start take what they are given.
\* CLI and server look at the mission's status before they call Start, in a
\* statement of its own: the mission may be completed by the time of the INSERT.
Start(r, m, i) ==
    /\ runs[r].status = "absent"
    /\ m # None => status[m] # "absent"
    /\ runs' = [runs EXCEPT ![r] = RunRow("active", 0, m, FALSE)]
    /\ attribution' = [attribution EXCEPT ![r] = Declared(i, {})]
    /\ UNCHANGED <<status, checkpoints, attached>>

\* The collector meets a new session file.
StartImported(r) ==
    /\ runs[r].status = "absent"
    /\ runs' = [runs EXCEPT ![r] = RunRow("active", 0, None, TRUE)]
    /\ attribution' = [attribution EXCEPT ![r] = Declared(None, {})]
    /\ UNCHANGED <<status, checkpoints, attached>>

\* The marker names a mission and a parent run (of any agent whose harness is
\* Codex) whose metadata names it too.
ValidAgentWorkLink(m, parent) ==
    /\ status[m] # "absent"
    /\ runs[parent].status # "absent"
    /\ runs[parent].mission = m

\* The collector meets such a marker in a session file: the run is linked to
\* the mission and inherits the parent's attribution, if it has one.  The run is
\* read before the transaction that writes it: one collector at a time.
UpdateRunIdentity(r, m, parent) ==
    /\ runs[r].imported
    /\ ValidAgentWorkLink(m, parent)
    /\ runs' = [runs EXCEPT ![r] = RunRow(@.status, @.count, m, TRUE)]
    /\ attribution' = [attribution EXCEPT ![r] =
           Declared(IF attribution[parent].declared = None THEN @.declared
                    ELSE attribution[parent].declared, @.bound)]
    /\ UNCHANGED <<status, checkpoints, attached>>

\* The SELECT ... LIMIT 1 over the missions of the run returns one of them.
MissionGate(r) ==
    LET missions == {m \in Missions : Associated(m, r)}
    IN  missions # {} => \E m \in missions : status[m] # "completed"

AppendEvent(r) ==
    /\ runs[r].status \in {"active", "idle"}
    /\ MissionGate(r)
    /\ runs[r].count < MaxEvents
    /\ runs' = [runs EXCEPT ![r] = RunRow("active", @.count + 1, @.mission, @.imported)]
    /\ attribution' = [attribution EXCEPT ![r] =
           Declared(@.declared, @.bound \cup {<<runs[r].count, i>> : i \in {@.declared} \ {None}})]
    /\ UNCHANGED <<status, checkpoints, attached>>

MarkIdle(r) ==
    /\ runs[r].status = "active"
    /\ runs' = [runs EXCEPT ![r] = RunRow("idle", @.count, @.mission, @.imported)]
    /\ UNCHANGED <<status, checkpoints, attribution, attached>>

Complete(r) ==
    /\ runs[r].status = "active"
    /\ runs' = [runs EXCEPT ![r] = RunRow("completed", @.count, @.mission, @.imported)]
    /\ UNCHANGED <<status, checkpoints, attribution, attached>>

-----------------------------------------------------------------------------
(* Checkpoints *)

\* Defective variant (commitments not compared with the previous ones), to be
\* caught by ContinuityVerifies.
MayCheckpointUncompared(m, r, checkpoint) ==
    /\ status[m] = "active"
    /\ runs[r].status # "absent"
    /\ Len(checkpoints[m]) < MaxCheckpoints
    /\ Within(checkpoint.evidence, r, runs[r].count)
    /\ attached[r] \in {None, m}

\* None of the refusals of createCheckpointOnce applies.
MayCheckpoint(m, r, checkpoint) ==
    /\ status[m] = "active"
    /\ runs[r].status # "absent"
    /\ Len(checkpoints[m]) < MaxCheckpoints
    /\ Within(checkpoint.evidence, r, runs[r].count)
    /\ checkpoints[m] # <<>> =>
           Carries(Last(checkpoints[m]).commitments, checkpoint.commitments)
    /\ attached[r] \in {None, m}

\* createCheckpointOnce, after the recovery preparation.
Checkpointed(m, r, checkpoint) ==
    /\ MayCheckpoint(m, r, checkpoint)
    /\ attached' = [attached EXCEPT ![r] = m]
    /\ checkpoints' = [checkpoints EXCEPT ![m] = Append(@, checkpoint)]
    /\ UNCHANGED <<status, runs, attribution>>

\* The reserved extension is refused in prepareRecoveryCheckpoint only: a plain
\* checkpoint stores the one its caller supplies.
CreateCheckpoint(m, r, commitments, evidence, claim) ==
    Checkpointed(m, r, [run |-> r, count |-> runs[r].count,
                        commitments |-> commitments, evidence |-> evidence,
                        decision |-> claim[1], from |-> claim[2],
                        derived |-> FALSE])

\* Defective variant (an empty tail may be decided about), to be caught by
\* RecoverySound.
RecoverableAlways(m, r) == Verify(checkpoints[m]) /\ Associated(m, r)

\* prepareRecoveryCheckpoint: there is a tail to decide about.
Recoverable(m, r) == /\ Uncheckpointed(m, r)
                     /\ Verify(checkpoints[m])
                     /\ AttributionVerifies(attribution[r], runs[r].count)

AcceptRecovery(m, r, commitments, evidence) ==
    /\ Recoverable(m, r)
    /\ Checkpointed(m, r, [run |-> r, count |-> runs[r].count,
                           commitments |-> commitments, evidence |-> evidence,
                           decision |-> "accepted",
                           from |-> Anchored(checkpoints[m], r),
                           derived |-> TRUE])

\* Defective variant (nil where an empty snapshot is meant), to be caught by
\* TypeOK.
PriorCommitmentsNil(m) ==
    IF checkpoints[m] = <<>> THEN None ELSE Last(checkpoints[m]).commitments

\* The state a rejection carries forward.
PriorCommitments(m) ==
    IF checkpoints[m] = <<>> THEN NoCommitments ELSE Last(checkpoints[m]).commitments

\* Defective variant (evidence of another run carried over), to be caught by
\* RejectionPossible.
PriorEvidenceAnyRun(m, r) ==
    IF checkpoints[m] # <<>> THEN Last(checkpoints[m]).evidence ELSE {}

PriorEvidence(m, r) ==
    IF checkpoints[m] # <<>> /\ Last(checkpoints[m]).run = r
    THEN Last(checkpoints[m]).evidence ELSE {}

Rejection(m, r) == [run |-> r, count |-> runs[r].count,
                    commitments |-> PriorCommitments(m),
                    evidence |-> PriorEvidence(m, r),
                    decision |-> "rejected",
                    from |-> Anchored(checkpoints[m], r),
                    derived |-> TRUE]

RejectRecovery(m, r) == Recoverable(m, r) /\ Checkpointed(m, r, Rejection(m, r))

CompleteMission(m) ==
    /\ status[m] = "active"
    /\ checkpoints[m] # <<>>
    /\ Verify(checkpoints[m])
    /\ \A r \in Runs : ~Uncheckpointed(m, r)
    /\ status' = [status EXCEPT ![m] = "completed"]
    /\ UNCHANGED <<checkpoints, runs, attribution, attached>>

\* What callers cite: nothing, or one event.
Citations == {{}} \cup {{<<r, n>>} : r \in Runs, n \in CitedSequences}

Next == \/ \E m \in Missions : StartMission(m) \/ CompleteMission(m)
        \/ \E r \in Runs :
              \/ \E m \in Missions \cup {None}, i \in Identities \cup {None} : Start(r, m, i)
              \/ StartImported(r)
              \/ \E m \in Missions, parent \in Runs : UpdateRunIdentity(r, m, parent)
              \/ AppendEvent(r) \/ MarkIdle(r) \/ Complete(r)
        \/ \E m \in Missions, r \in Runs :
              \/ \E commitments \in Commitments, evidence \in Citations :
                    \/ \E claim \in Claims \cup {NoClaim} :
                          CreateCheckpoint(m, r, commitments, evidence, claim)
                    \/ AcceptRecovery(m, r, commitments, evidence)
              \/ RejectRecovery(m, r)

Spec == Init /\ [][Next]_vars

-----------------------------------------------------------------------------
(* Properties *)

TypeOK ==
    /\ status \in [Missions -> {"absent", "active", "completed"}]
    /\ checkpoints \in [Missions -> Seq(Checkpoint)]
    /\ runs \in [Runs -> Run]
    /\ attribution \in [Runs -> Attribution]
    /\ attached \in [Runs -> Missions \cup {None}]

\* The checkpoints of every mission pass the verifier of exported bundles
\* (continuity.VerifyBundle), and keep passing while runs and other missions
\* go on: no commitment is lost, redefined or reopened along the chain, by a
\* recovery decision neither; every anchor is a prefix of its run; every cited
\* event lies inside the anchor that goes with it; and the anchored prefix
\* carries its run's attribution.  The last part excepts native sessions, whose
\* attribution the collector may change later, and runs started with a malformed
\* attribution, which nothing refuses before the verifier does.
WellAttributed(r) == ~runs[r].imported /\ attribution[r].declared \notin Malformed
ContinuityVerifies ==
    \A m \in Missions :
        /\ Chained(checkpoints[m])
        /\ \A i \in DOMAIN checkpoints[m] :
              LET c == checkpoints[m][i] IN
              /\ Within(c.evidence, c.run, c.count)
              /\ WellAttributed(c.run) => AttributionVerifies(attribution[c.run], c.count)

\* "Later events may be appended to the same active run without invalidating
\* an earlier checkpoint" (spec/continuity-v1.md): a chain that verifies keeps
\* verifying as long as nobody adds a checkpoint to it.
CheckpointsStayValid ==
    [][\A m \in Missions :
          (Verify(checkpoints[m]) /\ checkpoints'[m] = checkpoints[m]) =>
              Verify(checkpoints[m])']_vars

\* A recovery decision made by AcceptRecovery or RejectRecovery covers exactly
\* the tail that no earlier checkpoint of the mission covered, never an empty
\* one, and a rejection promotes nothing from the tail into the commitments;
\* whatever decisions callers claim in the checkpoints between.  Of those claims
\* nothing holds ("callers cannot supply it", docs/continuity.md; "reserve the
\* namespaced chainproof.recovery.v1 extension", spec/continuity-v1.md): the code
\* stores them with plain checkpoints.
RecoverySound ==
    \A m \in Missions : \A i \in DOMAIN checkpoints[m] :
        LET c == checkpoints[m][i]
            earlier == {j \in 1..(i - 1) : checkpoints[m][j].run = c.run}
        IN  c.derived =>
              /\ c.from < c.count
              /\ \A j \in earlier : checkpoints[m][j].count <= c.from
              /\ c.from # 0 => \E j \in earlier : checkpoints[m][j].count = c.from
              /\ c.decision = "rejected" => c.commitments = Before(checkpoints[m], i)

\* However many checkpoints, runs and recovery decisions lie between two
\* checkpoints of a mission, the later one still has every commitment of the
\* earlier one, with the same meaning and completed if it was, and anchors the
\* same run no earlier.  The verifier compares the commitments of neighbours
\* only, and says nothing of the order of anchors.
ProgressKept ==
    \A m \in Missions : \A j \in DOMAIN checkpoints[m] : \A i \in 1..j :
        LET old == checkpoints[m][i]
            new == checkpoints[m][j]
        IN  /\ Carries(old.commitments, new.commitments)
            /\ old.run = new.run => old.count <= new.count

\* "Use recovery acceptance or rejection first when any tail remains"
\* (docs/continuity.md): whatever was checkpointed before, no active mission is
\* stuck with a tail it can neither accept nor reject, as long as the run was
\* not checkpointed into another mission and neither a native session nor a run
\* with a malformed attribution is involved.
\* Reconcilable is when RejectRecovery is possible.
Reconcilable(m, r) == Recoverable(m, r) /\ MayCheckpoint(m, r, Rejection(m, r))
RejectionPossible ==
    \A m \in Missions, r \in Runs :
        (/\ status[m] = "active"
         /\ Uncheckpointed(m, r)
         /\ attached[r] \in {None, m}
         /\ WellAttributed(r)
         /\ \A i \in DOMAIN checkpoints[m] : WellAttributed(checkpoints[m][i].run)
         /\ Len(checkpoints[m]) < MaxCheckpoints) => Reconcilable(m, r)

\* The same without the exceptions.
EveryTailReconcilable ==
    \A m \in Missions, r \in Runs :
        (/\ status[m] = "active"
         /\ Uncheckpointed(m, r)
         /\ Len(checkpoints[m]) < MaxCheckpoints) => Reconcilable(m, r)

\* Nothing is ever added to a completed mission's work beyond its final
\* reconciled checkpoint, whether the run was named in its metadata, attached
\* by a checkpoint, or started after the completion; for runs that belong to
\* this mission alone and are not native sessions linked by the collector.
MissionsOf(r) == ({attached[r]} \cup {runs[r].mission}) \ {None}
OwnWorkReconciled ==
    \A m \in Missions, r \in Runs :
        (status[m] = "completed" /\ MissionsOf(r) = {m} /\ ~runs[r].imported) =>
            Covered(checkpoints[m], r, runs[r].count)
=============================================================================
