-------------------------- MODULE MissionTransfer --------------------------
(***************************************************************************)
(* A mission leaves one ledger and enters another                          *)
(* (internal/missionworkspace, store.MissionBundle, store.ImportMission).  *)
(*                                                                         *)
(* At the source a command reads the mission in several statements while   *)
(* agents go on appending, checkpointing and completing: `mission export`  *)
(* (continuity JSON), `mission workspace export` (a directory that appears *)
(* by one rename after it was verified), or `context` (the envelope        *)
(* compiled for the next agent).  At the destination processes import the  *)
(* file in one transaction, while a collector and other users write there. *)
(*                                                                         *)
(* Records are their identifiers: event k of run r is <<r, k>>, and a      *)
(* hash-chained prefix is its length.                                      *)
(***************************************************************************)
EXTENDS Integers, Sequences, SequencesExt, SQLiteTx

CONSTANTS
    Runs,               \* runs of the mission
    MediaTypes,         \* media types under which a body may be stored
    References,         \* [events that cite the body -> the type they cite, or None]
    MaxEvents,          \* bound: events per run
    MaxCheckpoints,     \* bound: checkpoints of the mission
    MaxAttempts,        \* maxWriteAttempts of the store
    None

ASSUME MediaAssumption == None \notin MediaTypes
ASSUME ReferencesAssumption == /\ DOMAIN References \subseteq Runs \X Nat
                               /\ \A e \in DOMAIN References :
                                      References[e] \in MediaTypes \cup {None}
ASSUME BoundsAssumption == /\ MaxEvents \in Nat
                           /\ MaxCheckpoints \in Nat
                           /\ MaxAttempts \in Nat \ {0}

VARIABLES
    source,             \* the ledger the mission comes from
    kind,               \* the command that reads it
    pc,                 \* where that command is
    seen,               \* what it has read
    file,               \* the published proof or workspace
    ledger,             \* the ledger the mission goes to
    step,               \* where each importer is
    attempt             \* its attempts to write

sourceVars == <<source, kind, pc, seen, file>>
importVars == <<ledger, step, attempt, txVars>>
vars == <<sourceVars, importVars>>

Statuses == {"active", "completed"}
Anchors == [run : Runs, count : 0..MaxEvents]
Histories == BoundedSeq(Anchors, MaxCheckpoints)
Events == Runs \X (0..MaxEvents - 1)

\* The entries of run r that the checkpoints in anchors cover.
Anchored(anchors, r) ==
    LET counts == {anchors[i].count : i \in {j \in DOMAIN anchors : anchors[j].run = r}}
    IN  IF counts = {} THEN 0 ELSE CHOOSE n \in counts : \A k \in counts : k <= n

\* The events below those anchors.
AnchoredEvents(anchors) == {e \in Events : e[2] < Anchored(anchors, e[1])}

NoTails == [r \in Runs |-> [from |-> 0, to |-> 0]]
\* status, count: the mission row; anchors: its checkpoints; proofs: the run
\* manifests (the status of the run) read for them; media: the body's type;
\* latest, tails: the uncheckpointed work; begun: the runs when the command began.
NothingSeen == [status |-> "active", count |-> 0, anchors |-> <<>>, proofs |-> <<>>,
                media |-> None, latest |-> <<>>, tails |-> NoTails,
                begun |-> [r \in Runs |-> 0]]
\* What is put in a file.
Contents == [status : Statuses, count : 0..MaxCheckpoints, anchors : Histories,
             proofs : BoundedSeq(Statuses, MaxCheckpoints),
             media : MediaTypes \cup {None}, workspace : BOOLEAN]

\* What is imported of it.
Missions == [status : Statuses, anchors : Histories]
ASSUME MissionsAssumption == None \notin Missions

\* The destination: the mission, None or what was imported; the events, by who
\* stored them; the body, its type and who stored it.
EmptyLedger == [mission |-> None, events |-> [e \in Events |-> "absent"],
                media |-> None, by |-> "absent"]

Init == /\ source = [status |-> "active", anchors |-> <<>>, media |-> None,
                     length |-> [r \in Runs |-> 0], ended |-> {}]
        /\ kind = None
        /\ pc = "idle"
        /\ seen = NothingSeen
        /\ file = None
        /\ ledger = EmptyLedger
        /\ step = [p \in Procs |-> "idle"]
        /\ attempt = [p \in Procs |-> 0]
        /\ TxInit

-----------------------------------------------------------------------------
(* Agents at work in the source ledger, one transaction each *)

HasTail(r) == source.length[r] > Anchored(source.anchors, r)

\* An event, or with last the event that completes the run.
AppendEvent(r, last) ==
    /\ source.status = "active" /\ r \notin source.ended
    /\ source.length[r] < MaxEvents
    /\ source' = [source EXCEPT !.length[r] = @ + 1,
                                !.ended = IF last THEN @ \cup {r} ELSE @]

CreateCheckpoint(r) ==
    /\ source.status = "active"
    /\ Len(source.anchors) < MaxCheckpoints
    /\ source' = [source EXCEPT
                      !.anchors = Append(@, [run |-> r, count |-> source.length[r]])]

CompleteMission ==
    /\ source.status = "active" /\ source.anchors # <<>>
    /\ \A r \in Runs : ~HasTail(r)
    /\ source' = [source EXCEPT !.status = "completed"]

StoreBody(t) == source.media = None /\ source' = [source EXCEPT !.media = t]

SourceStep == /\ \/ \E r \in Runs : \/ \E last \in BOOLEAN : AppendEvent(r, last)
                                    \/ CreateCheckpoint(r)
                 \/ CompleteMission
                 \/ \E t \in MediaTypes : StoreBody(t)
              /\ UNCHANGED <<kind, pc, seen, file, importVars>>

-----------------------------------------------------------------------------
(* The command that reads the mission: one action per statement *)

Reads(label) == pc' = label /\ UNCHANGED <<source, kind, file, importVars>>

\* The mission row; the first statement of every command.
ReadMission(k) ==
    /\ pc = "idle"
    /\ kind' = k
    /\ pc' = "checkpoints"
    /\ seen' = [NothingSeen EXCEPT !.status = source.status, !.count = Len(source.anchors),
                                   !.begun = IF k = "context" THEN source.length ELSE @]
    /\ UNCHANGED <<source, file, importVars>>

ReadCheckpoints ==
    /\ pc = "checkpoints"
    /\ seen' = [seen EXCEPT !.anchors = source.anchors]
    /\ Reads(IF kind = "context" THEN "mission again" ELSE "proofs")

\* The row of the run of the next checkpoint.  The events below its anchor, read
\* by a statement of their own, never change.
ReadRunProof ==
    /\ pc = "proofs" /\ Len(seen.proofs) < Len(seen.anchors)
    /\ LET r == seen.anchors[Len(seen.proofs) + 1].run
           status == IF r \in source.ended THEN "completed" ELSE "active"
       IN  seen' = [seen EXCEPT !.proofs = Append(@, status)]
    /\ Reads("proofs")

\* Defective variant (no verification), to be caught by FileSound.
BundleTrusted(content) == TRUE

\* VerifyBundle: the mission row counts the checkpoints that were read.  What else
\* it verifies holds of whatever one ledger stores: the chains by RunLedger and
\* MissionContinuity, the attributions as far as the latter says.
BundleVerifies(content) == content.count = Len(content.anchors)

ProofsRead == pc = "proofs" /\ Len(seen.proofs) = Len(seen.anchors)

FinishBundle == /\ ProofsRead /\ BundleVerifies(seen)
                /\ UNCHANGED seen
                /\ Reads(IF kind = "workspace" THEN "artifacts" ELSE "publish")

\* The types under which the events of the bundle cite the body.
Cited(content) == {References[e] : e \in DOMAIN References \cap AnchoredEvents(content.anchors)}

\* referencedArtifacts and the bodies: a missing body or another type refuses.
LoadArtifacts ==
    /\ pc = "artifacts"
    /\ Cited(seen) # {} => source.media # None
    /\ Cited(seen) \subseteq {None, source.media}
    /\ seen' = [seen EXCEPT !.media = IF Cited(seen) = {} THEN None ELSE source.media]
    /\ Reads("verify")

\* ValidateMissionImport: the proofs of one run agree on its manifest.
Importable(content) ==
    \A i, j \in DOMAIN content.anchors :
        content.anchors[i].run = content.anchors[j].run => content.proofs[i] = content.proofs[j]

\* The staged directory is verified like a workspace that is to be imported.
VerifyStage == /\ pc = "verify" /\ Importable(seen)
               /\ UNCHANGED seen
               /\ Reads("publish")

\* The JSON file is written, or the stage renamed.
Publish ==
    /\ pc = "publish" /\ file = None
    /\ file' = [status |-> seen.status, count |-> seen.count, anchors |-> seen.anchors,
                proofs |-> seen.proofs, media |-> seen.media, workspace |-> kind = "workspace"]
    /\ pc' = "done"
    /\ seen' = NothingSeen
    /\ UNCHANGED <<source, kind, importVars>>

\* Any check refuses, the process is cancelled or dies: the stage is private.
CommandFails == /\ pc \notin {"idle", "done"}
                /\ pc' = "idle"
                /\ kind' = None
                /\ seen' = NothingSeen
                /\ UNCHANGED <<source, file, importVars>>

-----------------------------------------------------------------------------
(* BuildMissionContext goes on from the mission row and the checkpoints *)

\* VerifyMission reads the mission row once more, and then its checkpoints.
ReadMissionAgain == /\ pc = "mission again"
                    /\ seen' = [seen EXCEPT !.count = Len(source.anchors)]
                    /\ Reads("verify mission")

VerifyMission == /\ pc = "verify mission"
                 /\ Len(source.anchors) = seen.count
                 /\ UNCHANGED seen
                 /\ Reads("latest")

\* uncheckpointedMissionWork: the checkpoints, then the runs of the mission.
ReadLatest == /\ pc = "latest"
              /\ seen' = [seen EXCEPT !.latest = source.anchors]
              /\ Reads("runs")

\* Defective variant (only runs that are still active), to be caught by ContextComplete.
TailOfActive(r) == IF r \in source.ended THEN NoTails[r] ELSE
                   LET from == Anchored(seen.latest, r) IN
                   IF source.length[r] > from THEN [from |-> from, to |-> source.length[r]]
                                              ELSE NoTails[r]

TailOf(r) == LET from == Anchored(seen.latest, r) IN
             IF source.length[r] > from THEN [from |-> from, to |-> source.length[r]]
                                        ELSE NoTails[r]

ReadRuns == /\ pc = "runs"
            /\ seen' = [seen EXCEPT !.tails = [r \in Runs |-> TailOf(r)]]
            /\ Reads("done")

Command == \/ \E k \in {"json", "workspace", "context"} : ReadMission(k)
           \/ ReadCheckpoints \/ ReadRunProof \/ FinishBundle
           \/ LoadArtifacts \/ VerifyStage \/ Publish \/ CommandFails
           \/ ReadMissionAgain \/ VerifyMission \/ ReadLatest \/ ReadRuns

-----------------------------------------------------------------------------
(* Other users of the destination, one transaction each *)

\* A collector there imports the same session: the identifiers of its events are
\* the same, the run is its own.
CollectLocally(e) ==
    /\ ledger.events[e] = "absent"
    /\ ledger' = [ledger EXCEPT !.events[e] = "local"]

\* PutArtifact keeps a body that is already there, and its type.
PutArtifact(t) == /\ ledger.media = None
                  /\ ledger' = [ledger EXCEPT !.media = t, !.by = "local"]

LocalStep == /\ TxStatement
             /\ \/ \E e \in Events : CollectLocally(e)
                \/ \E t \in MediaTypes : PutArtifact(t)
             /\ UNCHANGED <<sourceVars, step, attempt>>

-----------------------------------------------------------------------------
(* ImportMissionWithArtifacts (ImportMission, without bodies, for the JSON) *)

At(p, label) == step[p] = label
Step(p, label) == step' = [step EXCEPT ![p] = label]

\* The whole file is verified before the ledger is touched.
VerifyFile(p) ==
    /\ At(p, "idle") /\ file # None
    /\ Step(p, IF BundleVerifies(file) /\ Importable(file) THEN "begin" ELSE "invalid")
    /\ attempt' = [attempt EXCEPT ![p] = 1]
    /\ UNCHANGED <<sourceVars, ledger, txVars>>

\* Defective variant (the first prefix of each run), to be caught by ImportedWhole.
FirstPrefix(content) ==
    {e \in Events : \E i \in DOMAIN content.anchors :
        /\ content.anchors[i].run = e[1] /\ e[2] < content.anchors[i].count
        /\ \A j \in 1..i - 1 : content.anchors[j].run # e[1]}

\* byRun: the longest prefix of each run.
ImportedEvents(content) == AnchoredEvents(content.anchors)

\* Defective variant (another media type is no collision), to be caught by ImportedWhole.
CollidesButMedia(content) ==
    \/ ledger.mission # None
    \/ \E e \in ImportedEvents(content) : ledger.events[e] # "absent"

\* A record with the same identifier is there, or the body under another type.
Collides(content) ==
    \/ ledger.mission # None
    \/ \E e \in ImportedEvents(content) : ledger.events[e] # "absent"
    \/ content.media # None /\ ledger.media \notin {None, content.media}

\* INSERT ... ON CONFLICT(hash) DO NOTHING, for the bodies of the file.
WithBody(records) == IF records.media # None \/ file.media = None THEN records
                     ELSE [records EXCEPT !.media = file.media, !.by = "imported"]

\* Defective variant (the bodies stored before the transaction writes), to be
\* caught by AllOrNothing.
CheckStoringBodies(p) ==
    /\ At(p, "begin")
    /\ \/ /\ ~Collides(file) /\ TxSnapshot(p) /\ Step(p, "insert")
          /\ ledger' = WithBody(ledger)
       \/ Collides(file) /\ UNCHANGED <<txVars, ledger>> /\ Step(p, "collision")
    /\ UNCHANGED <<sourceVars, attempt>>

\* The queries for collisions, all on the transaction's snapshot.
CheckCollisions(p) ==
    /\ At(p, "begin")
    /\ \/ ~Collides(file) /\ TxSnapshot(p) /\ Step(p, "insert")
       \/ Collides(file) /\ UNCHANGED txVars /\ Step(p, "collision")
    /\ UNCHANGED <<sourceVars, ledger, attempt>>

Insert(p) == /\ At(p, "insert") /\ TxLock(p)
             /\ Step(p, "commit")
             /\ UNCHANGED <<sourceVars, ledger, attempt>>

\* Defective variant (one attempt too many), to be caught by TypeOK.
ContentionTooOften(p) ==
    /\ At(p, "insert") /\ TxBusy(p)
    /\ TxRollback(p)
    /\ IF attempt[p] <= MaxAttempts
       THEN Step(p, "begin") /\ attempt' = [attempt EXCEPT ![p] = @ + 1]
       ELSE Step(p, "exhausted") /\ UNCHANGED attempt
    /\ UNCHANGED <<sourceVars, ledger>>

\* SQLITE_BUSY rolls back and tries again, maxWriteAttempts times.
Contention(p) ==
    /\ At(p, "insert") /\ TxBusy(p)
    /\ TxRollback(p)
    /\ IF attempt[p] < MaxAttempts
       THEN Step(p, "begin") /\ attempt' = [attempt EXCEPT ![p] = @ + 1]
       ELSE Step(p, "exhausted") /\ UNCHANGED attempt
    /\ UNCHANGED <<sourceVars, ledger>>

\* Mission, runs and events, checkpoints, associations and bodies become visible.
Commit(p) ==
    /\ At(p, "commit") /\ TxCommit(p)
    /\ ledger' = WithBody([ledger EXCEPT
           !.mission = [status |-> file.status, anchors |-> file.anchors],
           !.events = [e \in Events |-> IF e \in ImportedEvents(file) THEN "imported" ELSE @[e]]])
    /\ Step(p, "imported")
    /\ UNCHANGED <<sourceVars, attempt>>

\* An error or a cancellation rolls back.
ImportFails(p) == /\ step[p] \in {"begin", "insert", "commit"}
                  /\ TxRollback(p)
                  /\ Step(p, "failed")
                  /\ UNCHANGED <<sourceVars, ledger, attempt>>

\* After any refusal, or killed, the command may be given again.
ImportAgain(p) == /\ step[p] \in {"collision", "exhausted", "failed"}
                  /\ Step(p, "idle")
                  /\ UNCHANGED <<sourceVars, ledger, attempt, txVars>>

Importer(p) == \/ VerifyFile(p) \/ CheckCollisions(p) \/ Insert(p) \/ Contention(p)
               \/ Commit(p) \/ ImportFails(p) \/ ImportAgain(p)

Next == \/ SourceStep \/ Command
        \/ LocalStep \/ \E p \in Procs : Importer(p)

Spec == Init /\ [][Next]_vars

-----------------------------------------------------------------------------
(* Properties *)

TypeOK ==
    /\ source.status \in Statuses
    /\ source.anchors \in Histories
    /\ source.length \in [Runs -> 0..MaxEvents] /\ source.ended \subseteq Runs
    /\ source.media \in MediaTypes \cup {None}
    /\ kind \in {"json", "workspace", "context", None}
    /\ seen.count \in 0..MaxCheckpoints /\ seen.anchors \in Histories
    /\ file \in Contents \cup {None}
    /\ ledger.mission \in Missions \cup {None}
    /\ ledger.events \in [Events -> {"absent", "local", "imported"}]
    /\ ledger.media \in MediaTypes \cup {None}
    /\ step \in [Procs -> {"idle", "begin", "insert", "commit", "invalid", "imported",
                           "collision", "exhausted", "failed"}]
    /\ attempt \in [Procs -> 0..MaxAttempts]
    /\ TxTypeOK

\* However many agents were at work while it was read, a published file tells of
\* one moment of the mission: its row and its checkpoints agree and are the
\* beginning of the mission's history, and it calls the mission completed only if
\* nothing followed.  A workspace moreover holds the body its events cite, under
\* the type each of them names, and can be imported.
FileSound ==
    file # None =>
        /\ file.count = Len(file.anchors)
        /\ IsPrefix(file.anchors, source.anchors)
        /\ file.status = "completed" => file.anchors = source.anchors
        /\ file.workspace => /\ Importable(file)
                             /\ Cited(file) # {} => file.media # None
                             /\ Cited(file) \subseteq {None, file.media}

\* An imported mission is complete for its next agent: every checkpoint's run is
\* there up to its anchor, as imported and not as somebody's record of the same
\* session, and the bodies are there under the types of the workspace, whatever
\* collectors and other importers did at the same time.
ImportedWhole ==
    ledger.mission # None =>
        /\ ledger.mission.anchors = file.anchors
        /\ \A e \in AnchoredEvents(file.anchors) : ledger.events[e] = "imported"
        /\ file.media # None => ledger.media = file.media

\* "Collision aborts without partial state" (docs/continuity.md): as long as no
\* import has committed, none of its records is in the ledger, after refusals,
\* exhausted retries, cancellations and kills alike.
AllOrNothing ==
    ledger.mission = None =>
        /\ \A e \in Events : ledger.events[e] # "imported"
        /\ ledger.by # "imported"

\* The next agent is told of all the work that was there when its context was
\* compiled: what the latest checkpoint does not cover is listed as the tail of
\* its run, from the anchor on.  This holds while runs go on and end; it does not
\* when a checkpoint commits between the two readings of the checkpoints.
ContextComplete ==
    kind = "context" /\ pc = "done" /\ seen.latest = seen.anchors =>
        \A r \in Runs :
            LET anchored == Anchored(seen.anchors, r) IN
            \/ seen.begun[r] <= anchored
            \/ seen.tails[r].from = anchored /\ seen.tails[r].to >= seen.begun[r]
=============================================================================
