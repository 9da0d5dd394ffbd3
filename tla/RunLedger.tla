----------------------------- MODULE RunLedger -----------------------------
(***************************************************************************)
(* Runs and their events in the ledger (internal/store/store.go), written  *)
(* by several processes at once: the CLI, the daemon and the TUI each have *)
(* the database open.  Append is a deferred transaction inside a bounded   *)
(* retry loop and is modelled step by step; Start, MarkIdle and Complete   *)
(* are single statements; Verify and Bundle read the run and its events    *)
(* with two separate statements.                                           *)
(*                                                                         *)
(* The content of an event (kind, actor, payload, artifacts, ...) is       *)
(* represented by its identifier.  SHA-256 is represented by a             *)
(* collision-free function of what is hashed: the hash of an event is the  *)
(* previous hash extended with the event's own fields.                     *)
(***************************************************************************)
EXTENDS Integers, Sequences, SQLiteTx

CONSTANTS
    Runs,               \* run identifiers
    EventIds,           \* event identifiers
    CallerIds,          \* bound: those that callers choose; any may be a fresh uuid
    Missions,           \* missions that runs belong to
    Naming,             \* bound: missions that metadata names
    Anchoring,          \* bound: missions that take checkpoints
    Terminal,           \* statuses Complete accepts
    MaxAttempts,        \* maxWriteAttempts
    None                \* no mission, no call, no identifier given

ASSUME AttemptsAssumption == MaxAttempts \in Nat \ {0}
ASSUME TerminalAssumption == Terminal \cap {"absent", "active", "idle"} = {}
ASSUME BoundsAssumption ==
           CallerIds \subseteq EventIds /\ Naming \subseteq Missions /\ Anchoring \subseteq Missions
ASSUME NoneAssumption == None \notin Missions \cup EventIds

VARIABLES
    runs,               \* table runs
    events,             \* table events
    closed,             \* missions whose row says 'completed'
    named,              \* metadata.mission_id of each run
    attached,           \* table mission_runs: UNIQUE(run_id)
    pc,                 \* where each process is inside a store call
    call,               \* the Append arguments (run, event) of each process
    attempt,            \* its pass through the retry loop
    snap,               \* what its transaction, or its last SELECT, has read
    bundle,             \* the rows its second SELECT returned (Verify, Bundle)
    acked,              \* events whose Append returned success
    unreported          \* events whose writer was killed before it could return

callVars == <<pc, call, attempt, snap, bundle>>
vars == <<runs, events, closed, named, attached, callVars, acked, unreported, txVars>>

-----------------------------------------------------------------------------
(* Rows and hashes *)

Open == {"active", "idle"}
Content == [run : Runs, seq : Nat, id : EventIds]
Hashes == Seq(Content)
GenesisHash == <<>>
Hash(prev, r, n, id) == Append(prev, [run |-> r, seq |-> n, id |-> id])

RunRow == [status : {"absent"} \cup Open \cup Terminal, count : Nat,
           head : Hashes]
EventRow == [id : EventIds, run : Runs, seq : Nat, prev : Hashes, hash : Hashes]

NoRun == [status |-> "absent", count |-> 0, head |-> GenesisHash]

Rows(r) == {e \in events : e.run = r}

\* proof.VerifyBundle over the rows of one run.  ORDER BY sequence with the
\* UNIQUE(run_id,sequence) index makes "event i has sequence i, for every i,
\* and there are count of them" the first two conjuncts.  The format
\* and the attributions are not part of it: MissionContinuity has the latter
\* (AttributionVerifies).
VerifyBundle(r, run, rows) ==
    /\ {e.seq : e \in rows} = 0..(run.count - 1)
    /\ \A e, f \in rows : e.seq = f.seq => e = f
    /\ \A e \in rows : e.run = r
    /\ \A e \in rows : e.hash = Hash(e.prev, e.run, e.seq, e.id)
    /\ \A e \in rows : e.seq = 0 => e.prev = GenesisHash
    /\ \A e, f \in rows : f.seq = e.seq + 1 => f.prev = e.hash
    /\ run.count = 0 => run.head = GenesisHash
    /\ \A e \in rows : e.seq = run.count - 1 => run.head = e.hash

-----------------------------------------------------------------------------
Init == /\ runs = [r \in Runs |-> NoRun]
        /\ events = {}
        /\ closed = {}
        /\ named = [r \in Runs |-> None]
        /\ attached = [r \in Runs |-> None]
        /\ pc = [p \in Procs |-> "ready"]
        /\ call = [p \in Procs |-> None]
        /\ attempt = [p \in Procs |-> 0]
        /\ snap = [p \in Procs |-> None]
        /\ bundle = [p \in Procs |-> {}]
        /\ acked = {}
        /\ unreported = {}
        /\ TxInit

\* The store call of p is over; its in-memory values are gone.
Return(p) == /\ pc' = [pc EXCEPT ![p] = "ready"]
             /\ call' = [call EXCEPT ![p] = None]
             /\ attempt' = [attempt EXCEPT ![p] = 0]
             /\ snap' = [snap EXCEPT ![p] = None]
             /\ bundle' = [bundle EXCEPT ![p] = {}]

-----------------------------------------------------------------------------
(* Single statements *)

Start(p, r, m) ==
    /\ pc[p] = "ready"
    /\ runs[r].status = "absent"
    /\ runs' = [runs EXCEPT ![r] = [NoRun EXCEPT !.status = "active"]]
    /\ named' = [named EXCEPT ![r] = m]
    /\ TxStatement
    /\ UNCHANGED <<events, closed, attached, callVars, acked, unreported>>

MarkIdle(p, r) ==
    /\ pc[p] = "ready"
    /\ runs[r].status = "active"
    /\ runs' = [runs EXCEPT ![r].status = "idle"]
    /\ TxStatement
    /\ UNCHANGED <<events, closed, named, attached, callVars, acked, unreported>>

Complete(p, r, status) ==
    /\ pc[p] = "ready"
    /\ runs[r].status = "active"
    /\ runs' = [runs EXCEPT ![r].status = status]
    /\ TxStatement
    /\ UNCHANGED <<events, closed, named, attached, callVars, acked, unreported>>

\* The commit of another component's transaction that completes a mission, which
\* has checkpoints.
CloseMission(m) ==
    /\ m \notin closed
    /\ closed' = closed \cup {m}
    /\ TxStatement
    /\ UNCHANGED <<runs, events, named, attached, callVars, acked, unreported>>

\* The commit of a checkpoint of m that anchors r: mission_runs names r for
\* good.  A checkpoint into a second mission breaks UNIQUE(run_id).
Attach(r, m) ==
    /\ runs[r].status # "absent"
    /\ m \notin closed
    /\ attached[r] \in {None, m}
    /\ attached' = [attached EXCEPT ![r] = m]
    /\ TxStatement
    /\ UNCHANGED <<runs, events, closed, named, callVars, acked, unreported>>

\* The commit of the collector's UpdateRunIdentity, which writes the metadata
\* of a native session again.
Rename(r, m) ==
    /\ runs[r].status # "absent"
    /\ named' = [named EXCEPT ![r] = m]
    /\ TxStatement
    /\ UNCHANGED <<runs, events, closed, attached, callVars, acked, unreported>>

-----------------------------------------------------------------------------
(* Append: retry loop around one deferred transaction *)

AppendCall(p, r, id) ==
    /\ pc[p] = "ready"
    /\ runs[r].status # "absent"
    /\ pc' = [pc EXCEPT ![p] = "begin"]
    /\ call' = [call EXCEPT ![p] = [run |-> r, id |-> id]]
    /\ attempt' = [attempt EXCEPT ![p] = 1]
    /\ UNCHANGED <<runs, events, closed, named, attached, snap, bundle, acked, unreported, txVars>>

\* The missions of a run: the one that checkpointed it UNION the one that its
\* metadata names.
MissionsOf(r) == {attached[r], named[r]} \ {None}

\* The second SELECT takes the status of one of them (LIMIT 1, in no order that
\* the statement fixes), if there is any.
MayAccept(r) == MissionsOf(r) # {} => \E m \in MissionsOf(r) : m \notin closed
MayRefuse(r) == \E m \in MissionsOf(r) : m \in closed

\* Defective variant (only the metadata consulted), to be caught by
\* ImplementsRunLog.
MayAcceptNamed(r) == named[r] \notin closed

\* The two SELECTs of the transaction, which see one snapshot.
AppendRead(p) ==
    /\ pc[p] = "begin"
    /\ runs[call[p].run].status \in Open
    /\ MayAccept(call[p].run)
    /\ pc' = [pc EXCEPT ![p] = "read"]
    /\ snap' = [snap EXCEPT ![p] = runs[call[p].run]]
    /\ TxSnapshot(p)
    /\ UNCHANGED <<runs, events, closed, named, attached, call, attempt, bundle, acked, unreported>>

\* "run is completed", "mission is completed".
AppendRefuse(p) ==
    /\ pc[p] = "begin"
    /\ runs[call[p].run].status \in Open => MayRefuse(call[p].run)
    /\ Return(p)
    /\ UNCHANGED <<runs, events, closed, named, attached, acked, unreported, txVars>>

NewEvent(p) ==
    LET c == call[p]
        s == snap[p]
    IN  [id |-> c.id, run |-> c.run, seq |-> s.count, prev |-> s.head,
         hash |-> Hash(s.head, c.run, s.count, c.id)]

\* The identifier of the event: the caller's, or else a uuid, another one in every
\* pass.
Unused(id) == \A e \in events : e.id # id
GivenOrFresh(p, id) == call[p].id \in {id, None}

\* Every identifier the call may use is taken.  (Of a call that gives none, this
\* is the bound EventIds: all of them are in the ledger.)
DuplicateId(p) == \A id \in EventIds : GivenOrFresh(p, id) => ~Unused(id)

\* UNIQUE(run_id,sequence), and the WHERE clause of UPDATE runs.
PositionTaken(p) ==
    \/ \E e \in Rows(call[p].run) : e.seq = snap[p].count
    \/ runs[call[p].run].count # snap[p].count
    \/ runs[call[p].run].head # snap[p].head

\* Defective variant (run and mission read outside the transaction that
\* writes), to be caught by ImplementsRunLog.
MayWriteStale(p) == writer = {}

\* Does the database let p's transaction execute its first write?
MayWrite(p) == TxMayWrite(p)

\* INSERT events, indexEvent and UPDATE runs, all still uncommitted.
AppendWrite(p, id) ==
    /\ pc[p] = "read"
    /\ MayWrite(p)
    /\ GivenOrFresh(p, id) /\ Unused(id)
    /\ ~PositionTaken(p)
    /\ pc' = [pc EXCEPT ![p] = "written"]
    /\ call' = [call EXCEPT ![p].id = id]
    /\ writer' = {p}
    /\ UNCHANGED <<runs, events, closed, named, attached, attempt, snap, bundle, acked,
                   unreported, fresh>>

\* Defective variant (this path returns without the rollback), to be caught
\* by CallsReturn.
AppendDuplicateLeaks(p) ==
    /\ pc[p] = "read"
    /\ MayWrite(p)
    /\ DuplicateId(p)
    /\ Return(p)
    /\ writer' = {p}
    /\ UNCHANGED <<runs, events, closed, named, attached, acked, unreported, fresh>>

\* events.event_id is a primary key: not a contention error, no retry.
AppendDuplicate(p) ==
    /\ pc[p] = "read"
    /\ MayWrite(p)
    /\ DuplicateId(p)
    /\ Return(p)
    /\ TxRollback(p)
    /\ UNCHANGED <<runs, events, closed, named, attached, acked, unreported>>

Contended(p) == ~MayWrite(p) \/ (~DuplicateId(p) /\ PositionTaken(p))

\* Defective variant (one pass too many), to be caught by TypeOK.
AppendRetryTooOften(p) ==
    /\ pc[p] = "read"
    /\ Contended(p)
    /\ attempt[p] <= MaxAttempts
    /\ pc' = [pc EXCEPT ![p] = "begin"]
    /\ attempt' = [attempt EXCEPT ![p] = @ + 1]
    /\ snap' = [snap EXCEPT ![p] = None]
    /\ TxRollback(p)
    /\ UNCHANGED <<runs, events, closed, named, attached, call, bundle, acked, unreported>>

\* isAppendContention: roll back, wait, go round again, with what the caller gave.
AppendRetry(p) ==
    /\ pc[p] = "read"
    /\ Contended(p)
    /\ attempt[p] < MaxAttempts
    /\ pc' = [pc EXCEPT ![p] = "begin"]
    /\ attempt' = [attempt EXCEPT ![p] = @ + 1]
    /\ snap' = [snap EXCEPT ![p] = None]
    /\ TxRollback(p)
    /\ UNCHANGED <<runs, events, closed, named, attached, call, bundle, acked, unreported>>

AppendExhausted(p) ==
    /\ pc[p] = "read"
    /\ Contended(p)
    /\ attempt[p] = MaxAttempts
    /\ Return(p)
    /\ TxRollback(p)
    /\ UNCHANGED <<runs, events, closed, named, attached, acked, unreported>>

\* ctx is cancelled while waitForWriteRetry sleeps.
AppendCancel(p) ==
    /\ pc[p] = "begin"
    /\ attempt[p] > 1
    /\ Return(p)
    /\ UNCHANGED <<runs, events, closed, named, attached, acked, unreported, txVars>>

\* Defective variant (chain_head left alone), to be caught by ChainVerifies.
AdvancedCountOnly(run, e) == [status |-> "active", count |-> run.count + 1,
                              head |-> run.head]

\* The UPDATE of the runs row: entry_count+1, chain_head, status='active'.
Advanced(run, e) == [status |-> "active", count |-> run.count + 1,
                     head |-> e.hash]

\* Defective variant (a statement after tx.Commit, inside the retry loop, meets
\* SQLITE_BUSY: the call goes round again), to be caught by AckedStored.
AppendCommitRepeated(p) ==
    /\ pc[p] = "written"
    /\ events' = events \cup {NewEvent(p)}
    /\ runs' = [runs EXCEPT ![call[p].run] = Advanced(@, NewEvent(p))]
    /\ pc' = [pc EXCEPT ![p] = "begin"]
    /\ call' = [call EXCEPT ![p].id = None]
    /\ TxCommit(p)
    /\ UNCHANGED <<closed, named, attached, attempt, snap, bundle, acked, unreported>>

AppendCommit(p) ==
    /\ pc[p] = "written"
    /\ events' = events \cup {NewEvent(p)}
    /\ runs' = [runs EXCEPT ![call[p].run] = Advanced(@, NewEvent(p))]
    /\ pc' = [pc EXCEPT ![p] = "committed"]
    /\ TxCommit(p)
    /\ UNCHANGED <<closed, named, attached, call, attempt, snap, bundle, acked, unreported>>

\* Append returns the event it built, with the hash it computed.
AppendReturn(p) ==
    /\ pc[p] = "committed"
    /\ acked' = acked \cup {NewEvent(p)}
    /\ Return(p)
    /\ UNCHANGED <<runs, events, closed, named, attached, unreported, txVars>>

-----------------------------------------------------------------------------
(* Verify and Bundle: Run, then Events, on the bare connection *)

ReadRun(p, r) ==
    /\ pc[p] = "ready"
    /\ runs[r].status # "absent"
    /\ pc' = [pc EXCEPT ![p] = "reading"]
    /\ call' = [call EXCEPT ![p] = [run |-> r]]
    /\ snap' = [snap EXCEPT ![p] = runs[r]]
    /\ UNCHANGED <<runs, events, closed, named, attached, attempt, bundle, acked, unreported, txVars>>

\* Defective variant (the events read first, then the run), to be caught by
\* BundlesSound.
ReadEventsBeforeRun(p) ==
    /\ pc[p] = "reading"
    /\ bundle' = [bundle EXCEPT ![p] = {e \in Rows(call[p].run) : e.seq < snap[p].count}]
    /\ snap' = [snap EXCEPT ![p] = runs[call[p].run]]
    /\ pc' = [pc EXCEPT ![p] = "bundled"]
    /\ UNCHANGED <<runs, events, closed, named, attached, call, attempt, acked, unreported, txVars>>

ReadEvents(p) ==
    /\ pc[p] = "reading"
    /\ bundle' = [bundle EXCEPT ![p] = Rows(call[p].run)]
    /\ pc' = [pc EXCEPT ![p] = "bundled"]
    /\ UNCHANGED <<runs, events, closed, named, attached, call, attempt, snap, acked, unreported, txVars>>

Bundled(p) ==
    /\ pc[p] = "bundled"
    /\ Return(p)
    /\ UNCHANGED <<runs, events, closed, named, attached, acked, unreported, txVars>>

-----------------------------------------------------------------------------
\* The process is killed inside a call; a later one starts afresh.
Crash(p) ==
    /\ pc[p] # "ready"
    /\ Return(p)
    /\ unreported' = unreported \cup (IF pc[p] = "committed" THEN {NewEvent(p)} ELSE {})
    /\ TxRollback(p)
    /\ UNCHANGED <<runs, events, closed, named, attached, acked>>

AppendStep(p) == \/ AppendRead(p) \/ AppendRefuse(p)
                 \/ \E id \in EventIds : AppendWrite(p, id)
                 \/ AppendDuplicate(p)
                 \/ AppendRetry(p) \/ AppendExhausted(p)
                 \/ AppendCommit(p) \/ AppendReturn(p)

ReadStep(p) == ReadEvents(p) \/ Bundled(p)

Next == \/ \E p \in Procs, r \in Runs :
              \/ \E m \in Naming \cup {None} : Start(p, r, m)
              \/ MarkIdle(p, r)
              \/ \E status \in Terminal : Complete(p, r, status)
              \/ \E id \in CallerIds \cup {None} : AppendCall(p, r, id)
              \/ ReadRun(p, r)
        \/ \E p \in Procs : AppendStep(p) \/ AppendCancel(p) \/ ReadStep(p) \/ Crash(p)
        \/ \E m \in Anchoring : CloseMission(m)
        \/ \E r \in Runs, m \in Anchoring : Attach(r, m)
        \/ \E r \in Runs, m \in Naming \cup {None} : Rename(r, m)

Spec == Init /\ [][Next]_vars

\* A process that is inside a store call keeps executing it.  Nobody has to
\* start a call, to cancel one or to crash.
Fairness == \A p \in Procs : WF_vars(AppendStep(p) \/ ReadStep(p))

FairSpec == Spec /\ Fairness

-----------------------------------------------------------------------------
(* Properties *)

\* Every variable keeps its type; in particular no call goes round the retry
\* loop more than maxWriteAttempts times.
TypeOK ==
    /\ runs \in [Runs -> RunRow]
    /\ events \in SUBSET EventRow
    /\ closed \in SUBSET Missions
    /\ named \in [Runs -> Missions \cup {None}]
    /\ attached \in [Runs -> Missions \cup {None}]
    /\ pc \in [Procs -> {"ready", "begin", "read", "written", "committed",
                         "reading", "bundled"}]
    /\ call \in [Procs -> [run : Runs, id : EventIds \cup {None}] \cup [run : Runs] \cup {None}]
    /\ attempt \in [Procs -> 0..MaxAttempts]
    /\ snap \in [Procs -> RunRow \cup {None}]
    /\ bundle \in [Procs -> SUBSET EventRow]
    /\ acked \in SUBSET EventRow
    /\ unreported \in SUBSET EventRow
    /\ TxTypeOK

\* Whatever the interleaving of appends, idle marks, completions and crashes,
\* the stored rows of every run pass proof.VerifyBundle: no gap, no fork, no
\* event outside the chain, count and head of the run row in agreement.
ChainVerifies == \A r \in Runs : VerifyBundle(r, runs[r], Rows(r))

\* What callers are told is what the ledger has.  An event that Append reported
\* as written is there exactly as reported (sequence, previous hash, hash) and
\* stays there for ever; and every event there was reported, is about to be, or
\* was written by a call that was killed before it returned: an Append that
\* returns an error has stored nothing, and one that goes through the retry loop
\* with a fresh identifier in each pass has not stored its event twice.
Replies == acked \cup unreported \cup {NewEvent(p) : p \in {q \in Procs : pc[q] = "committed"}}
AckedStored == acked \subseteq events /\ events \subseteq Replies

\* Verify and Bundle are not transactional, but they read the run before its
\* events: what they return is never an invalid history, only a longer one.
\* The rows up to the declared entry count always verify; the whole bundle does not
\* when an append commits between the two readings.
BundledPrefixVerifies ==
    \A p \in Procs :
        pc[p] = "bundled" =>
            VerifyBundle(call[p].run, snap[p],
                         {e \in bundle[p] : e.seq < snap[p].count})

\* Two bundles of one run, exported by any processes at any times, tell the
\* same history as far as both declare it: an auditor never gets two versions.
BundlesAgree ==
    \A p, q \in Procs :
        (/\ pc[p] = "bundled" /\ pc[q] = "bundled"
         /\ call[p] = call[q] /\ snap[p].count <= snap[q].count) =>
            {e \in bundle[p] : e.seq < snap[p].count} =
            {e \in bundle[q] : e.seq < snap[p].count}

\* What the readers of the ledger may rely on.
BundlesSound == BundledPrefixVerifies /\ BundlesAgree

\* The most steps that a store call still takes, whatever the others do.
StepsLeft(p) ==
    CASE pc[p] = "begin" -> 4 + 2 * (MaxAttempts - attempt[p])
      [] pc[p] = "read" -> 3 + 2 * (MaxAttempts - attempt[p])
      [] pc[p] \in {"written", "reading"} -> 2
      [] pc[p] \in {"committed", "bundled"} -> 1
      [] pc[p] = "ready" -> 0

\* Every step a process takes inside a call brings it nearer to the return, and
\* no step of another process takes it back: contention delays a call, it
\* cannot keep it going round, with or without fairness.
CallsBounded ==
    [][\A p \in Procs : pc[p] # "ready" =>
          \/ StepsLeft(p)' < StepsLeft(p)
          \/ UNCHANGED <<pc[p], call[p], attempt[p], snap[p], bundle[p]>>]_vars

\* Concurrent transactions, retries and crashes implement one append-only log
\* per run: an append takes effect once, at the end, or not at all; never after
\* the run was completed, and not while every mission of the run is completed.
\* That is less than "associated runs reject new appends" after the completion
\* of a mission (docs/continuity.md): a run of two missions may go on.
LogFrom(n, rows) == [i \in 1..n |-> (CHOOSE e \in rows : e.seq = i - 1).id]
logOf == [r \in Runs |-> LogFrom(runs[r].count, Rows(r))]
stateOf == [r \in Runs |-> IF runs[r].status = "absent" THEN "absent"
                           ELSE IF runs[r].status \in Open THEN "open" ELSE "sealed"]
memberOf == [r \in Runs |-> MissionsOf(r)]

RunLogSpec == INSTANCE RunLog WITH log <- logOf, state <- stateOf,
                                   member <- memberOf, done <- closed
ImplementsRunLog == RunLogSpec!Spec

\* Every store call that is not killed returns, and leaves no write lock
\* behind it: the retry loop is bounded and every exit path rolls back.
CallsReturn == \A p \in Procs : pc[p] # "ready" ~> (pc[p] = "ready" /\ writer # {p})
=============================================================================
