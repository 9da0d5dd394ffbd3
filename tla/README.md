# ChainProof in TLA+

ChainProof keeps a local, hash-chained ledger of what coding agents did (runs
and their events) and, on top of it, missions whose verified state one agent
hands to the next (checkpoints, recovery decisions, leases). Several processes
on one machine open the same SQLite file at once. This directory models the
parts in which such processes meet, checks them with TLC on small instances, and
proves the central results with TLAPS for instances of any size.

## The system

| Component | Code | State | Operations | What makes it correct |
|---|---|---|---|---|
| Run ledger | `internal/store/store.go` | tables `runs`, `events` | `Start`, `Append`, `MarkIdle`, `Complete`, `Verify`, `Bundle` | every run is one verifying hash chain; acknowledged events stay, once each; nothing is added after the run is completed, or while all its missions are |
| Proof verification | `internal/proof` | none | `VerifyBundle`, `CanonicalJSON`, `Hash` | accepts exactly the gapless, linked, attributed chains |
| Mission leases | `internal/store/lease.go` | table `mission_lease_events`, `missions.updated_at` | claim, acquire, handoff, renew, release | one owner per mission; nobody loses a live lease; oldest mission first |
| Mission continuity | `internal/store/continuity.go`, `internal/continuity` | tables `missions`, `checkpoints`, `mission_runs` | start, checkpoint, accept/reject recovery, complete, resume, context, bundle | the chain of checkpoints verifies for ever; recovery covers exactly the tail; completion is final |
| Mission import | `internal/store/mission_import.go` | all tables | validate, import | imports everything or nothing; never merges with existing records |
| Codex collector | `internal/adapters/codex` | `import_cursors`, `source_runs`, session files | `Sync`, `Watch` | each line is imported once, in the order of the file; none is skipped |
| Codex work, wrapped commands, pull | `cmd/chainproof/main.go` | a child process, a renewal goroutine, cursors | `codex work`, `exec`, `pull`, `ingest` | holds its lease while the child runs, gives it back afterwards unless that very call fails |
| Agent identity | `internal/identity` | key and profile files | `Ensure`, `Rename`, `Verify` | one key per profile, never replaced |
| Backup, restore, mission workspace | `internal/backup`, `internal/missionworkspace` | directories | create, restore, verify, import | a destination is complete or absent |
| Provenance index | `internal/store/search.go` | table `provenance_index` | index, rebuild at open, search | has a row for every event |
| HTTP server, TUI, service units, guides | `internal/server`, `internal/tui`, `internal/service`, `internal/integrationguide` | none of their own | call the store | — |

How they interact. The CLI, the HTTP server, the collector and the TUI all call
`internal/store`; every process has one connection (`SetMaxOpenConns(1)`), so
the components meet in the tables and in SQLite's locks, nowhere else. `Append`
reads the status of the run and of its missions, so completing a mission acts on
runs. A checkpoint anchors a run at a count and head; recovery and completion
compare the anchors with the run. Acquiring a mission verifies its checkpoints,
inserts a lease and compiles its context. The collector creates runs for session
files and links them to missions by a marker it finds in the text. `codex work`
combines a lease, a run in the ledger and a child process.

What is hard. Writers use deferred transactions: they read under a snapshot and
may be refused the write lock later, so each write is a retry loop, and
everything read in one pass may be stale in the next. Readers (`Verify`,
`Bundle`, `BuildMissionContext`, ...) use several statements without a
transaction. Leases expire while calls are under way. Processes may be killed
between any two statements. A mission and its runs are associated in two ways
(metadata, `mission_runs`) that need not agree. PROJECT.json lists these hazards
at their lines.

## Modules

| Module | Models |
|---|---|
| `SQLiteTx` | the file as the store uses it: snapshots, the one write lock, busy errors, autocommit statements (external: from the way the store uses SQLite) |
| `RunLog` | abstract: what the run ledger promises, one append-only log per run that can be sealed |
| `RunLedger` | the run ledger, statement by statement |
| `RunLedger_proofs`, `RunLedger_refinement` | its proofs |
| `LeaseOwnership` | abstract: what leases promise, one register of ownership per mission |
| `MissionLease` | leases, statement by statement, with the clock |
| `MissionLease_proofs` | its proofs |
| `MCMissionLease` | its symmetry for TLC |
| `MissionContinuity` | missions, checkpoints, recovery, completion, attributions |
| `MissionContinuity_proofs` | its proofs |
| `MCMissionContinuity` | its symmetry for TLC |
| `SessionImport`, `MCSessionImport` | a session file and its importers: collector, pull, index rebuild; short sessions for TLC |
| `SessionImport_proofs` | its proofs |
| `CodexWork` | `codex work`: runner, renewal goroutine, child; composes `LeaseOwnership` |
| `CodexWork_proofs` | its proofs |
| `MissionTransfer`, `MCMissionTransfer` | readers of a mission (bundle, workspace, context) and the import of what they publish; composes `SQLiteTx` |
| `MissionTransfer_proofs` | its proofs |
| `AgentIdentity` | key and profile files of an identity |
| `InstanceBackup`, `MCInstanceBackup` | backup and restore beside the agents of `AgentIdentity`, which it extends |
| `InstanceBackup_proofs` | the proofs about both |

Composition. `RunLedger`, `MissionLease` and the importers of `MissionTransfer`
run on `SQLiteTx`, statement by statement. What they show is then used:
`LedgerImplementsRunLog` and `LeasesImplementOwnership` say that a store call takes
effect at one instant, so `MissionContinuity`, `SessionImport`, `CodexWork` and
`InstanceBackup` take each call as one step and look at what happens between the
calls. `RunLog` and `LeaseOwnership` state what their users may conclude
(`EachOnce`, `SealedFinal`, `Fenced`); it is proved of the detailed modules through
the refinements.

### RunLedger

`runs` and `events` are the tables; `closed` are the missions whose status is
`completed`. A run belongs to the mission its metadata names (`named`) and to the
one that checkpointed it (`attached`, the table `mission_runs`); the gate of
`Append` takes the status of one of them, in no fixed order (`LIMIT 1`,
store.go:266), so a run of two missions may be accepted (`MayAccept`) and refused
(`MayRefuse`) in the same state. `Attach` is the commit of a checkpoint and `Rename`
that of the collector's `UpdateRunIdentity`. `pc`, `call`, `attempt`, `snap`,
`bundle` are the local variables of each process inside a store call. `acked`
remembers which events `Append` returned, `unreported` those whose writer was
killed before it could, to state durability.

`Append` is `AppendCall`, then per pass of the retry loop `AppendRead` (the two
SELECTs) or `AppendRefuse`; then `AppendWrite` (INSERT, index, UPDATE),
`AppendDuplicate` (the primary key), `AppendRetry` (contention), or
`AppendExhausted` (contention in the last pass); `AppendCancel` while it waits;
`AppendCommit`; `AppendReturn`. `Start`, `MarkIdle` and `Complete` are single
statements. `ReadRun` and `ReadEvents` are the two statements of `Verify` and
`Bundle`. `Crash` ends a call anywhere and rolls its transaction back. A call whose
caller gives no identifier takes another fresh one in every pass (store.go:285), so
the identifier alone does not keep a repeated pass from storing an event twice.

The hash of an event is the previous hash extended with the fields of the
event: a collision-free function, as SHA-256 is taken to be. What an event says
is represented by its identifier. Writes that are not committed are not in the
tables: only their own transaction could see them, and it does not read them.

### MissionLease

`missions` holds the rows of `missions` and, per mission, its rows of
`mission_lease_events`; `now` is the clock. `LeaseRead`, `LeaseWrite`,
`LeaseRefuse`, `LeaseRetry`, `LeaseExhausted`, `LeaseCancel`, `LeaseCommit` and
`LeaseReturn` are the steps that the five calls share (the code repeats them in
five functions); `Allowed` and `NextRow` hold what differs. The code reads the
clock after its SELECTs and before its first write; `Allowed` reads it in the
step that writes or fails to. `ContextReady` and `ContextFailed` are the end of
`AcquireMission`. `AcquireUnverified` is the refusal of a mission whose
checkpoints do not verify. `held` is what a worker remembers of its lease.

### MissionContinuity

`runs`, `checkpoints`, `status` (of missions) and `attached` (`mission_runs`) are
the tables. By `HistoryOnlyExtended`, proved about `RunLedger`, an event never
moves and a prefix never changes, and by `HeadPinsHistory` the count and head of an
anchor determine that prefix, so a run is represented by its entry count and an
anchor by a number. `attribution` is the identity in the metadata of a run and in
its events; `Malformed` are those that `ValidateExtension` refuses, which nothing
refuses before the verifier does. `Claims` are the recovery extensions that callers
write into plain checkpoints themselves; `derived` tells the decisions of
`AcceptRecovery` and `RejectRecovery` from them. Of `createCheckpointOnce`, `MayCheckpoint` holds the refusals and
`Checkpointed` the writes; `CreateCheckpoint`, `AcceptRecovery` and
`RejectRecovery` (with `Rejection`, the checkpoint it makes up) build on them as
the code does. `Start` does not look at the status of its mission, because its callers do
so earlier, in a statement of their own.

Each of these operations is a single transaction; that such a transaction is
atomic, whatever its retries, is what `RunLedger` shows of `Append`.
`UpdateRunIdentity` reads the run before its transaction; here nothing changes
the metadata in between, `SessionImport` has the concurrent case.

### SessionImport

`session` is what the harness will write and `file` what it has written, as
cells: a record has a head and a tail and ends with a newline, so a reader can
meet half a record. Offsets count cells. `runs` is the table with each run's
events and their index rows, `bound` is `source_runs`, `cursors` is
`import_cursors`. `pass` holds the variables of `syncFile` and `pullFile`.
`shared` remembers the runs that a pass began to import while another pass had
them: `UpdateRunIdentity` guards nothing against the other pass, so what can be
promised of a run's metadata depends on it. `unlinked` remembers the markers that a
pass did not find valid. A run is `open` while `Append` takes its events; other
users close and reopen it (`CloseRun`, `ReopenRun`: they end it, complete its
mission, or link it to an active one). An older ledger that has no index yet
is one of the initial states; its first record is imported.

`RebuildRead` and `RebuildWrite` are the two halves of `rebuildMissingIndex`, at
the opening of a ledger whose event has no index row. `SourceRun`, `StartRun`,
`BindSourceRun`, `OpenFile` begin a pass; per line there is `ReadBlankLine`,
`ReadTornLine` or `ReadLine`, then `ReadIdentity` and `UpdateRunIdentity` for a
record that names the agent or carries the agent-work marker, `AppendRecord`,
and `SetCursor`. `RefuseMarker` is the other outcome of `validAgentWorkLink`: the
mission or the parent cannot be read just then, or the parent is not linked yet; the
marker is dropped and the pass goes on. The collector's event identifiers are a
function of record and offset (`stableID`), so a second append is refused and the
collector goes on; an append refused because the run takes no events ends the pass
(`Refused`); a pulled record may bring an identifier or get a fresh one. `Fail` ends
a pass anywhere: a failed call, an exhausted retry, or a kill.

### CodexWork

`pc` and `job` are the main goroutine of `runCodexWork` and what it remembers,
`renewal` is `renewMissionLease` in its goroutine, `child` the process it started
and `run` the run that records it. Time and leases are those of `LeaseOwnership`
(`now`, `closed`, `owner`), of which the actions use `Grant`, `Extend`,
`Transfer`, `Drop` and `Close`. `LoadMission` is the context compiled before a
claim by name; `AcquireMission` and `AcquireContext` (its context, and the release
when that fails) are the other way in. `CheckMission`,
`CompileContext`, `StartRun`, `StartChild`, `AppendCompleted`, `CompleteRun` are
`runWrappedCommand`; `StopRenewal`, `WaitRenewal`, `ReadLease`, `ReleaseMission`
the deferred end. `RenewalTick`, `RenewMission`, `RenewFails`, `RenewalLook`,
`RenewalStop` are the branches of the renewal loop. The child, which has the
lease identifier in its environment, checkpoints, hands off, releases, completes
and exits at any time; users claim, checkpoint, complete missions and end runs.
Every call of the runner may fail, without effect; `job.failed` remembers which of
those at the end did. `Crash` kills the runner; its child goes on.

### MissionTransfer

`source` is the mission in the ledger it comes from, changed by agents in single
transactions. One command reads it, one action per statement: `ReadMission` and
`ReadCheckpoints` begin all three; `ReadRunProof` (once per checkpoint) and
`FinishBundle` are `MissionBundle`; `LoadArtifacts` and `VerifyStage` are the
workspace's; `ReadMissionAgain`, `VerifyMission`, `ReadLatest`, `ReadRuns` are the
verification and `uncheckpointedMissionWork` of `BuildMissionContext`. `Publish`
writes the JSON or renames the staged workspace. At the destination, `VerifyFile`
is the validation, `CheckCollisions`, `Insert`, `Contention`, `Commit` and
`ImportFails` the import transaction over `SQLiteTx`. `CollectLocally` and
`PutArtifact` are its other users: the collector there produces the same event
identifiers from the same session.

One body stands for the artifacts: `References` says which events cite it and
under which media type, or none. Records are their identifiers and a
hash-chained prefix is its length.

### AgentIdentity and InstanceBackup

`key` and `profile` are the two files of each identity, published with link(2),
which never replaces; `dirs` are the directories. A process is identified with
the key it generates. `ValidateLabels` accepts or refuses. `CallFails` ends a call
anywhere, after an error of the file system or a kill; `abandoned` are the profiles
whose creator ended between the key and the profile.
`Load`, `Pair`, `StatKey`, `Wait`, `LoadKey`, `LinkKey`, `ValidateLabels`,
`LinkProfile` follow `Ensure`; `ReplaceProfile` is `Rename`.

`InstanceBackup` adds the ledger's attributions, the directories at each `place`
and the publishers. `Attribute` is an agent that writes under the identity `Ensure`
gave it; `AttributeElsewhere` are the others: imports, which bring attribution
without keys (SECURITY.md:120-125), the HTTP API, which stores the identity it is
told, and commands with another `CHAINPROOF_AGENT_HOME` (main.go:1065-1070).
`Strangers` are the agents so named whose keys are not in this agent home. `BackupLedger`, `ReadAgentHome`, `VerifyProfile`,
`CopyProfileFile`, `CopyKeyFile`, `VerifyCopy`, `FinishStage` are `Create` file by
file; `Restore` copies a published directory, which does not change, in one
step; `VerifyStage`, `Lstat` and `Rename` publish, `PublisherFails` ends it
anywhere. `missionworkspace` publishes with the same sequence of calls, so
`PublishedKept` speaks for it too.

## Runs

Bounds are constants of the modules and are named there.

| Run | Instance | States | Shows |
|---|---|---|---|
| `run_ledger` | 2 processes, 1 run, a given and a fresh event id, 2 missions (one that metadata names, one that checkpoints and is closed), 2 attempts | 274,170 | `TypeOK`, `ChainVerifies`, `AckedStored`, `BundlesSound`, `ImplementsRunLog`, `CallsReturn` |
| `mission_lease` | 2 workers, 1 mission, clock 0..2, lease time 2 | 371,070 | `TypeOK`, `HistoryAuthorised`, `CurrentHolder`, `ImplementsOwnership` |
| `mission_acquire` | 2 workers, 2 missions, clock 0..1, lease time 1 | 127,122 | `AcquiresOldest`, `CallsReturn` |
| `mission_continuity` | 1 mission, 2 runs of 2 events, 2 checkpoints, 1 commitment with 2 definitions, self-made recovery extensions | 806,702 | `TypeOK`, `ContinuityVerifies`, `RecoverySound`, `ProgressKept` |
| `mission_association` | 2 missions, 2 runs of 1 event, 2 checkpoints each, a well-formed and a malformed attribution | 498,957 | `RejectionPossible`, `OwnWorkReconciled` |
| `mission_stuck_tail` | 2 missions, 2 runs | — | `EveryTailReconcilable` is violated |
| `mission_session_linked` | 1 mission, 2 runs, 1 attribution | — | `CheckpointsStayValid` is violated |
| `session_import` | a watcher and a manual process, 4 sessions and 2 transcripts of 1 or 2 records, up to 3 blank lines, a run others close and reopen, refused markers, 1 failure | 856,238 | `TypeOK`, `ImportedOnce`, `NothingSkipped`, `IndexAgrees`, `IdentityKept`, `CatchesUp` |
| `session_attribution` | 2 collectors, a session of 3 records that change the metadata, no failure | — | `AttributionInherited` is violated |
| `codex_work` | 1 mission, 1 runner, any users, clock 0..3, lease time 2, 2 checkpoints, 1 crash, any call may fail | 252,453 | `TypeOK`, `CleanExit`, `ContextCurrent`, `OthersLeaseKept`, `RunnerEnds` |
| `mission_transfer` | 1 run of 2 events, 2 checkpoints, 2 media types, 2 importers, 2 attempts | 1,334,856 | `TypeOK`, `FileSound`, `ImportedWhole`, `AllOrNothing`, `ContextComplete` |
| `instance_backup` | 2 agents, 1 profile, 2 waits, 2 publishers, 1 backup, 1 instance, 1 stranger, errors and kills at any time | 741,717 | `TypeOK`, `PairMatches`, `HalfCreated`, `BackupComplete`, `KeyKept`, `PublishedKept` |

Why the bounds suffice. Two processes are enough for every conflict between
transactions, because SQLite admits one writer and a third process could only be
another loser; two attempts are enough for a retry, an exhausted loop and a
cancellation. Two event identifiers allow two events of different processes, a
duplicate of the given one, and a fresh one in each pass. Two missions allow a run
that is refused on account of either, accepted on account of either, and reopened.
For leases, a lease time of 2 on a clock of 0..2 lets a lease be
live, be renewed, expire and be reclaimed; `MaxLeases` stops new calls once
three rows exist, but calls under way may add theirs. Two checkpoints allow each
pair of an earlier and a later decision about the same or another run; the
theorems remove this bound. Attributions vary in `mission_association` only, where
`RejectionPossible` fails as soon as a chain with a tail does not verify: this is
where the attribution part of `ContinuityVerifies` is exercised. `BackupComplete`
needs one stranger only, since no place in the files distinguishes two.
Symmetry is used only in runs without liveness.

A session of two records has a first and a second line, each of which can be
torn, relabel the run, or be read again after a failure; the sessions are the
beginning Codex writes (record and marker), two records that change the labels,
evidence among blank lines, and a record that is passed over. Blank lines give the
cursor its lag behind the reader, up to one line more than a record has cells,
where `ImportedOnce` ends, and one more than where `CatchesUp` ends; one failure
can fall between any two steps. Two importers of a file
are enough as above, and two attempts stand for the 24 of `maxWriteAttempts`. One
run with two checkpoints has a prefix, a longer prefix and a tail. The clock of
`codex_work` allows a lease to run out under a runner, to be taken over by a user
and to run out again. One display name is enough, because a rename may write the
name that is there, and one profile, because profiles share no file. `Ensure` waits
twice instead of fifty times, so the wait is repeated. Calls may fail before,
between and after the two links of a profile, any number of times.

CHECK_DEADLOCK FALSE: `MissionContinuity` has no process that keeps running, its
runs end when all missions are completed and all bounds are reached; `codex_work`
ends when the runner has ended, the mission is completed and the clock stops;
`mission_transfer` ends when the file is imported and nobody writes any more. In
the other runs deadlock is checked.

Mutants. Each property of a passing run is paired, in PROJECT.json, with a
plausible defect of the code (a retry that goes once too often, an ignored
commit error, an unchecked expiry, nil for an empty snapshot, ...), written
beside the definition it replaces and marked "Defective variant". No module uses
them.

Fairness. `CallsReturn` assumes weak fairness of the steps of a call under way,
per process (`AppendStep`, `ReadStep`, `CallStep`): a process that is scheduled
executes its next statement, and a statement returns, because `busy_timeout`
bounds the wait for a lock. Nobody is assumed to start or cancel a call, to
crash, or to let the clock go on. `CatchesUp` assumes weak fairness of the
collectors that run `Watch`, which calls `Sync` again on every tick; it needs
nothing of the harness and of a manual sync. That the ledger takes events of the
run from some time on is a hypothesis of the property itself. `RunnerEnds` assumes weak fairness
of a runner's two goroutines and strong fairness of `RenewalStop`: after the
context is cancelled the select of the renewal loop may find a tick ready too,
and Go chooses between ready cases at random, so the cancellation is chosen in
the end. Ticks, the clock and the child promise nothing; `RunnerEnds` begins when
the child has exited.

Assumptions. SQLite behaves as `SQLiteTx` says; SHA-256 and canonical JSON are
injective; all processes run on one machine with one clock that does not go back;
a harness writes the end of a record and its newline together; link(2) never
replaces and rename(2) does not replace a directory that is not empty.

`CallsBounded` is the part of `CallsReturn` that needs no fairness: every step a
process takes inside a call makes `StepsLeft` smaller, and nobody else changes it.
It is proved of `RunLedger` and `MissionLease`, and no run repeats it.

## Proofs

All theorems hold for any sets of processes, runs, events, missions, sessions and
attributions, agents, profiles and paths, and any bounds, under the named
assumptions of the modules (at least one attempt; a lease lasts longer than no
time; terminal statuses are not open ones; `None` is not a value; backups and
instances have different paths; strangers are not agents of the home). No theorem
has a hypothesis beyond them. Every invariant and every action property of a passing run
is proved, and both refinements; TLC shows each on a small instance with its
mutant.

* `RunLedger_proofs!TypeCorrect`. `TypeOK` alone is not inductive, because what
  a process does next depends on what it holds: `Shape` adds which locals each
  `pc` implies (a process that has read holds a row, ...).
* `RunLedger_proofs!ChainSafe`. The invariant is `Ledger`: a process whose
  snapshot SQLite still considers the newest has read the rows as they are
  (`SnapshotCurrent`), so the event it commits extends the present chain; that an
  extension verifies is `VerifyExtended`. Nothing in the argument uses the UNIQUE
  index or the WHERE clause of the UPDATE: the snapshot rule of SQLite suffices.
* `RunLedger_proofs!HeadPinsHistory`. Two sets of rows of one run that verify with
  the same count and head are the same set, wherever they come from: a ledger, an
  export, an imported mission. The head hash contains the last event and the hash
  before it (`HashPinsEvent`, `HeadEvent`), and so on down to the genesis hash;
  the descent is well-founded induction on the sequence number, stated as a set
  without a minimum (`DownToZero`). This is what a checkpoint relies on when it
  keeps a count and a head only.
* `RunLedger_refinement!AckedSafe`, `BundledPrefixSafe`, `LedgerImplementsRunLog`.
  Events are never removed; a reader's prefix only gets longer; every step of the
  ledger is a step or a stutter of `RunLog`, where a commit is the one step that
  extends the log. By `SnapshotCurrent` what the gate found in the snapshot of a
  process about to commit is so in the ledger too (`Accepts`): some mission of the
  run is active, unless it has none, so the run is not finished
  (`RunLog!Finished`). For `AckedSafe`, every event in the ledger has a reply, one
  under way, or a writer that was killed (`RepliesKept`).
* `RunLedger_refinement!HistoryOnlyExtended`, `OneHistory`, `IdentifiersUnique`,
  `SealedRunsFinal`, `CallsAreBounded`. `PrefixKept` follows a prefix of a run
  through every step. `BundleStored` says that what a reader holds below its count
  is still what the ledger holds there, so two bundles of a run agree; with
  `BundledPrefixSafe` that is `BundlesSound`.
  `IdentifiersUnique` and `SealedRunsFinal` are proved of `RunLog` (`ExtendOnce`,
  `LogOnce`) and carried over by the refinement. The latter says two things: a
  terminal status is final; the completion of missions holds as long as all
  missions of the run are completed, and ends only when the run is given another.
* `MissionLease_proofs!TypeCorrect`, `AuthorisedHistory`, `HolderIsCurrent`,
  `LeasesImplementOwnership`, `OldestAcquired`. `Shape` says what each place of a
  call has in memory. `Register` is about the tables: by `SnapshotCurrent` the
  missions that the holder of the write lock has read are those of the ledger, by
  `HistoryOrdered` no row is younger than the clock, so the row about to be
  committed follows the last row (`RowReady`); this alone gives
  `AuthorisedHistory`. `Custody` is about the workers: only one worker bears the
  token of a term (`OneBearer`: it remembers it, names it in a call, or is about to
  return it), and a lease a worker remembers is the last row of its mission or has
  run out (`BeliefSound`). Between the commit and the return of a handoff the
  worker remembers a lease it has given away; `HandoffPending` keeps that apart
  from the new term. In the refinement a commit is the one step that changes the
  owner; reading, retrying, cancelling and returning are stutters.
* `MissionLease_proofs!TermsFenced`, `CallsAreBounded`. The first is `Fenced` of
  `LeaseOwnership` (`ChangedTerm`, `TermsKept`), carried over by the refinement:
  tokens never come back, and a lease that is over is never prolonged. In the
  second, an acquisition that ends with a release of its own counts that call too.
* `MissionContinuity_proofs!TypeCorrect`, `ContinuityCorrect`, `RecoveryCorrect`,
  `ProgressNeverLost`, `RejectionAlwaysPossible`, `CompletionFinal`. The invariant is `Inv`: besides the three properties, a run
  that was never started is empty (`AbsentEmpty`), and every event of an observed
  run carries its attribution (`ObservedBound`, without which a run could reach a
  checkpoint in a state that does not verify). `ContinuityVerifies` and
  `RejectionPossible` are of well-attributed runs, `RecoverySound` of the decisions
  the store derived; a claim that a caller wrote is neither trusted nor excluded. Actions are grouped by what they
  write: `RunStepRow` says what a step may do to a run, `CheckpointSteps` and
  `Appended` what a checkpoint does to a chain. That the boundary of a recovery
  is the largest anchor needs a maximum of a bounded set, `LargestExists`, which
  rests on well-foundedness of the naturals.
* `SessionImport_proofs!TypeCorrect`, `NothingLost`, `IndexCorrect`,
  `MetadataKept`. `Layout` says how a file that is still written looks: records in
  their order, at most the last one torn. From it follows what a line read at any
  position is (`ParsedLine`, `BlankLine`). `Stage` says what a pass holds at its
  label, `Progress` that everything behind its reader that it imports is stored
  (with the exception of the line it holds), which is what makes storing the cursor
  safe. `Rebuilds` says that a process that rebuilds the index knows every missing
  row. `Identity` and `Apart` say that a run that is not shared has one pass, and
  that what this pass has read of the metadata is what is there, but for a marker it
  did not find valid.
* `SessionImport_proofs!OnceImported`, as long as a file has at most two blank
  lines, whatever it gets later. Whether a line is found twice depends on the offset in its event's
  identifier, and the offset does not count blank lines. `Spacing` adds the
  arithmetic: all cells are records or blank lines (`Counted`), so the head of
  record r lies within the three cells that its offset allows (`Spaced`), and a
  reader that starts at any stored cursor computes the same offset for it
  (`Aligned`). Hence an event is named by its record alone (`Events`, `Unique`).
  The order of a run's events follows because collectors store records downwards
  closed (`Downward`). For a pull the copies are counted: one for a record the
  cursor has passed and one for each failed pass (`Pulls`). The limit is
  needed: three blank lines are as long as a record, a later pass then starts at
  the beginning of the record before its cursor, and TLC finds it imported twice.
  In bytes: the blank lines must be shorter than the record before them.
* `CodexWork_proofs!TypeCorrect`, `EndsCleanly`, `ContextIsCurrent`, `OthersKept`,
  `WorkUsesOwnership`. `Fits` says which states of runner, goroutine, child and run
  belong together, `Standing` how the runner stands to the ledger: its token was
  issued for it and nobody else has it, it is not in force once the runner has
  ended unless reading or releasing it failed, and no checkpoint it counted is lost. `Moves`, `LedgerChanges` and
  `RunnerTypes` treat the three kinds of change once; each action is then a few
  lines. `WorkUsesOwnership` says that all actors together take only steps of
  `LeaseOwnership`, so what `MissionLease` implements is what `CodexWork` uses.
* `MissionTransfer_proofs!TypeCorrect`, `FilesAreSound`, `ImportsWhole`,
  `NothingPartial`, `ContextListsTails`. `CommandInv` says what a command may rely
  on in what it has read so far: its checkpoints are a prefix of the mission's, a
  completed mission has no others, and what it has verified stays so (`Reading`).
  `ImportInv` is the snapshot rule again: an importer that holds the write lock has
  looked for collisions in the ledger it writes to. The two halves meet only in the
  published file, which never changes.
* `InstanceBackup_proofs!TypeCorrect`, `PairsMatch`, `HalvesExplained`, `KeysStay`,
  `BackupsComplete`, `PublishedStays`. `IdentityInv` says of each process what the
  files must be like at its label (`Fits`): past `LinkKey` it holds the key that
  is there, so the profile it publishes names that key. `Moves` shows once that a
  step of one process keeps this for all others, because no step undoes what is
  there (`Kept`). `BackupInv` adds what a publisher has staged: nothing that is
  foreign to the live instance (`Genuine`), and everybody the staged ledger names
  of this home is staged or still to be copied (`Usable`), which needs that the
  ledger was copied before the profiles were listed, and that whoever writes an
  identity of this home found it there.

What the proofs found. The invariant that was expected to imply `IdentityKept`
could not be proved, and a session with three records that change the metadata
refuted the property without any failure (`session_attribution`); it is now stated
of runs that are not shared. `NothingSkipped` compared cursors with the size of
records, which says little once blank lines shift them; it now speaks of the heads
in the file. `MissionTransfer` had to say that `None` is no mission. A misplaced
conjunct made the type invariant of `CodexWork` weaker than it looked.
`RejectionPossible` first spoke of
ENABLED; with the refusals of a checkpoint in an operator of their own
(`MayCheckpoint`) it is a state predicate, and a theorem.

Only model-checked: the liveness properties (`CallsReturn`, `CatchesUp`,
`RunnerEnds`), which need fairness, and the violations below.

## Where the code and its documents disagree

* `EveryTailReconcilable`: a run named in the metadata of one mission and
  checkpointed into another leaves the first mission with a tail that can be
  neither accepted nor rejected, and goes on accepting events after the other
  mission was completed, because the gate of `Append` looks at one mission of a
  run. `RejectionPossible` and `OwnWorkReconciled` say what does hold.
* `CheckpointsStayValid`: a session's run gets its attribution after its first
  events, and earlier checkpoints of it stop verifying. `ContinuityVerifies` says
  what does hold of runs that are not native sessions.
* `AttributionInherited`: a session's run can lose the mission and parent it was
  given by an accepted marker, for good and without an error, when two collectors
  read and write its metadata in turn. `IdentityKept` says what does hold.

Further disagreements, met while modelling, which the models contain and their
properties state around, so that no run of their own repeats them:

* "Associated runs reject new appends afterward" (docs/continuity.md, line 347) is
  true of a run of one mission. Of a run with rows in `mission_runs` for several, or
  one whose metadata names another, `Append` reads one row (`LIMIT 1`, store.go, line
  266): it may go on taking events after one of the missions was completed, and it
  takes them again when such a sealed run is linked to an active mission by a later
  checkpoint. `ImplementsRunLog` and `SealedRunsFinal` state what holds: nothing is added
  while every mission of the run is completed.
* "callers cannot supply it" (docs/continuity.md, line 379; spec/continuity-v1.md,
  line 134, reserves the namespace): the check for `chainproof.recovery.v1` runs only
  for recovery checkpoints (continuity.go, line 327). A plain checkpoint stores the
  extension a caller made up (server.go, lines 203-210; checkpoint.go, line 195).
  `RecoverySound` is about the decisions the store derived.
* A malformed `chainproof.agent.v1` in a run's metadata is stored as it is
  (server.go, lines 308-342) and refused only by verification (verify.go, lines
  9-12). No checkpoint of such a run ever verifies, so its mission can be neither
  completed nor acquired nor exported, and its tail cannot be rejected.
  `ContinuityVerifies` and `RejectionPossible` except these runs (`WellAttributed`).
* The runner "releases ownership on exit" (README.md, line 405) and "releases its
  token after Codex exits" (docs/continuity.md, line 110) if it can read and release
  the lease: an error of either only appears in the output (main.go, lines
  1178-1180), or not at all when an acquired mission's context fails (lease.go,
  lines 132 and 136). The mission then stays owned until the lease expires.
  `Complete` is not retried either, and the run stays active when it fails.
  `CleanExit` says exactly that.

## What the properties leave out, and why

Some properties are stated as strongly as they hold. These are the cases beyond
them, found with TLC while the statements were sought:

* `BundlesSound`: an exported bundle as a whole may fail verification. An
  append that commits between the two readings of `Bundle` gives it one event more
  than the entry count it declares. README.md, line 724, promises a bundle that can
  be verified; exporting again helps.
* `ImportedOnce`: two collectors that meet a new session file create a run each, and
  the events may be split between the two, although each event is stored once
  ("One Codex session becomes one ChainProof run", README.md, line 249). A pull whose
  records have no identifier imports a line again after a failure between the append
  and the cursor; with identifiers it stops at that line with an error until its
  cursor is moved. The property speaks of files with at most two blank lines: when
  they are as long as a record, a collector imports that record again. The run goes
  on to three blank lines, where TLC finds the second copy if the bound is left out.
* `CatchesUp` speaks of files with at most one blank line. With two, the cursor, which
  does not count blank lines, may point into the middle of a record; every later pass
  ends with a parse error and imports nothing more. It also needs a ledger that takes
  events of the session's run from some time on: an append refused because the run
  ended or its mission is completed (store.go, lines 262-272) ends every pass at that
  line (codex.go, lines 203-209), and nothing behind it is imported, until the run is
  linked to an active mission. The run reaches both cases; `NothingSkipped` holds in
  them too.
* `IdentityKept` is about runs that no two passes ever imported at the same time:
  of two, each may overwrite what the other merged. It excepts markers that a pass
  did not find valid: when the mission or the parent cannot be read just then, or the
  parent has no mission yet, the marker is deleted, the event is imported without it
  and the cursor moves on (codex.go, lines 184-190 and 374-386). Nothing retries that.
* `IndexAgrees` excepts the event whose index row was missing: the rebuilding
  process may write labels it read before another process changed them.
* `OthersLeaseKept`: a runner whose lease was taken over before its next renewal
  treats that as a handoff and its child goes on, without an error; so it does
  when contention exhausts one renewal. The lease is not looked at between the
  claim and the start of the child.
* `CleanExit`: the lease stays if reading or releasing it failed, and the run stays
  open if completing it failed (see above). It says nothing of a killed runner, whose
  child goes on and whose context file stays, nor of a refused `run.started`, which
  leaves the run active without a child.
* `ContextComplete`: a checkpoint that commits between the two readings of the
  checkpoints is missing from the context while its work is not listed as a tail
  either. The mission row of a context may be older than its checkpoints.
* `FileSound`: `mission export` may write JSON in which two proofs of one run
  disagree on its status, when the run ended between them; the import refuses it.
  A workspace is verified before it is published, so it cannot. A body that was
  stored under another media type than an event cites is refused at every export.
  Of the checks of a bundle, `BundleVerifies` keeps the count; those of evidence, forks
  and attribution (checkpoint.go, lines 253-291) pass for what one ledger stores, which
  is the business of `ChainVerifies` and `ContinuityVerifies`, but for the malformed
  attributions above, of which no mission can be exported.
* `HalfCreated`: a refused label, a failed write of the profile (profile.go, lines
  139-142), or a kill between the two links leaves a key without a profile for ever; every later use and every backup is then refused as
  incomplete. `Ensure` may also report this while a slow creator is about to
  publish, for it waits a bounded time, and a backup taken then is refused.
* `BackupComplete` speaks of the agents of this agent home. A ledger also names
  strangers: authors of imported missions (SECURITY.md, lines 120-125), clients of the
  HTTP API, and agents of another `CHAINPROOF_AGENT_HOME` (main.go, lines 1065-1070).
  Their keys are nowhere in the instance, and the backup is published all the same.

## Not modelled

Search, list and status queries, the TUI, web pages, service units, integration
guides, argument parsing, output formats, and the wording of errors: they read or
print, and no state of theirs outlives the call. The mapping of Codex records to
events, the evidence chosen for a context and the lease shown in it, since no
property tells their contents apart. `exec` is `codex work` without the lease,
`ingest` a loop of `Append`. Ledgers, files and bundles altered from outside the
program are out of scope.

## Plan

Done: `RunLedger` with `RunLog`; `MissionLease` with `LeaseOwnership`;
`MissionContinuity`; `SessionImport`; `CodexWork`; `MissionTransfer`;
`AgentIdentity` with `InstanceBackup`; the proofs of all of them.

Left: the canonical encoding and the verifiers for bundles that no ledger wrote.
In the modules above the verifiers are operators, applied to what the program
itself stores, exports and imports.
