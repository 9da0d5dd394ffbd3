-------------------------- MODULE RunLedger_proofs --------------------------
(***************************************************************************)
(* Proofs about RunLedger for any number of processes, runs, events and    *)
(* retries.                                                                *)
(***************************************************************************)
EXTENDS RunLedger, TLAPS, WellFoundedInduction, SequenceTheorems

Appending == {"begin", "read", "written", "committed"}
Reading == {"reading", "bundled"}

\* The in-memory values of a process fit the place where it is in its call.
CallShape ==
    \A p \in Procs :
        /\ pc[p] \in Appending => call[p] \in [run : Runs, id : EventIds \cup {None}]
        /\ pc[p] \in {"written", "committed"} => call[p].id \in EventIds
        /\ pc[p] \in Reading => call[p] \in [run : Runs]
        /\ pc[p] \in {"read", "written", "committed"} \cup Reading => snap[p] \in RunRow

\* What the two SELECTs of an append have found.
Accepts(r) == runs[r].status \in Open /\ MayAccept(r)

\* What the snapshot rule of SQLite gives an append: as long as its snapshot
\* is the newest version, and in particular once it holds the write lock, the
\* run it has read is the run in the ledger.
CurrentAt(p) ==
    /\ writer = {p} <=> pc[p] = "written"
    /\ p \in fresh => pc[p] \in {"read", "written"}
    /\ pc[p] = "written" => p \in fresh /\ Unused(call[p].id)
    /\ p \in fresh => /\ snap[p] = runs[call[p].run]
                      /\ Accepts(call[p].run)

SnapshotCurrent == \A p \in Procs : CurrentAt(p)

\* A committed append finds its event in the ledger when it returns.
CommittedStored == \A p \in Procs : pc[p] = "committed" => NewEvent(p) \in events

\* The rows a reader will see, or has seen, up to the count it read verify.
ReaderPrefix ==
    \A p \in Procs :
        /\ pc[p] = "reading" =>
              /\ snap[p].count <= runs[call[p].run].count
              /\ VerifyBundle(call[p].run, snap[p],
                              {e \in Rows(call[p].run) : e.seq < snap[p].count})
        /\ pc[p] = "bundled" =>
              VerifyBundle(call[p].run, snap[p],
                           {e \in bundle[p] : e.seq < snap[p].count})

\* A run that was never started has no events.
AbsentEmpty == \A r \in Runs : runs[r].status = "absent" => runs[r] = NoRun

Shape == TypeOK /\ CallShape

-----------------------------------------------------------------------------
LEMMA NoRunType == NoRun \in RunRow
  BY DEF NoRun, RunRow, Hashes, GenesisHash

LEMMA HashType ==
  ASSUME NEW prev \in Hashes, NEW r \in Runs, NEW n \in Nat, NEW id \in EventIds
  PROVE  Hash(prev, r, n, id) \in Hashes
  BY DEF Hash, Hashes, Content

\* The event an append builds, and the run row it writes, are well typed.
LEMMA NewEventType ==
  ASSUME CallShape, NEW p \in Procs, pc[p] \in {"written", "committed"}
  PROVE  NewEvent(p) \in EventRow
  <1>1. /\ call[p] \in [run : Runs, id : EventIds \cup {None}] /\ call[p].id \in EventIds
        /\ snap[p] \in RunRow
    BY DEF CallShape, Appending
  <1>2. Hash(snap[p].head, call[p].run, snap[p].count, call[p].id) \in Hashes
    BY <1>1, HashType DEF RunRow
  <1> QED  BY <1>1, <1>2 DEF NewEvent, EventRow, RunRow

LEMMA ReturnShape ==
  ASSUME Shape, NEW p \in Procs, Return(p), UNCHANGED runs
  PROVE  /\ pc' \in [Procs -> {"ready", "begin", "read", "written", "committed",
                              "reading", "bundled"}]
         /\ call' \in [Procs -> [run : Runs, id : EventIds \cup {None}] \cup [run : Runs] \cup {None}]
         /\ attempt' \in [Procs -> 0..MaxAttempts]
         /\ snap' \in [Procs -> RunRow \cup {None}]
         /\ bundle' \in [Procs -> SUBSET EventRow]
         /\ CallShape'
  <1> USE AttemptsAssumption DEF Shape, TypeOK, Return
  <1>1. CallShape'
    BY DEF CallShape, Appending, Reading
  <1> QED  BY <1>1

LEMMA TxRollbackType ==
  ASSUME TxTypeOK, NEW p \in Procs, TxRollback(p)
  PROVE  TxTypeOK'
  BY DEF TxTypeOK, TxRollback

LEMMA StatusType ==
  ASSUME NEW row \in RunRow, NEW st \in Open \cup Terminal
  PROVE  [row EXCEPT !.status = st] \in RunRow
  BY DEF RunRow

LEMMA AdvancedType ==
  ASSUME NEW row \in RunRow, NEW e \in EventRow
  PROVE  Advanced(row, e) \in RunRow
  <1>1. e.hash \in Hashes /\ row.count + 1 \in Nat
    BY DEF EventRow, RunRow
  <1> QED  BY <1>1 DEF Advanced, RunRow, Open

\* A single statement leaves every process where it is.
LEMMA StatementShape ==
  ASSUME Shape, TxStatement, UNCHANGED <<events, callVars, acked, unreported>>,
         runs' \in [Runs -> RunRow], closed' \in SUBSET Missions,
         named' \in [Runs -> Missions \cup {None}],
         attached' \in [Runs -> Missions \cup {None}]
  PROVE  Shape'
  BY DEF Shape, TypeOK, CallShape, TxStatement, TxTypeOK, callVars

LEMMA InitShape == Init => Shape
  BY NoRunType, AttemptsAssumption
     DEF Init, Shape, TypeOK, CallShape, Appending, Reading, TxInit, TxTypeOK

LEMMA NextShape == Shape /\ [Next]_vars => Shape'
  <1> SUFFICES ASSUME Shape, [Next]_vars PROVE Shape'
    OBVIOUS
  <1> USE BoundsAssumption DEF Shape
  <1>1. ASSUME NEW p \in Procs, NEW r \in Runs, NEW m \in Naming \cup {None}, Start(p, r, m)
        PROVE  Shape'
    <2>1. [NoRun EXCEPT !.status = "active"] \in RunRow
      BY NoRunType DEF RunRow, Open
    <2>2. runs' \in [Runs -> RunRow]
      BY <1>1, <2>1 DEF Start, TypeOK
    <2>3. named' \in [Runs -> Missions \cup {None}]
      BY <1>1 DEF Start, TypeOK
    <2> QED  BY <1>1, <2>2, <2>3, StatementShape DEF Start, TypeOK
  <1>2. ASSUME NEW p \in Procs, NEW r \in Runs, MarkIdle(p, r)
        PROVE  Shape'
    <2>1. [runs[r] EXCEPT !.status = "idle"] \in RunRow
      BY StatusType DEF Open, TypeOK
    <2>2. runs' \in [Runs -> RunRow]
      BY <1>2, <2>1 DEF MarkIdle, TypeOK
    <2> QED  BY <1>2, <2>2, StatementShape DEF MarkIdle, TypeOK
  <1>3. ASSUME NEW p \in Procs, NEW r \in Runs, NEW st \in Terminal, Complete(p, r, st)
        PROVE  Shape'
    <2>1. [runs[r] EXCEPT !.status = st] \in RunRow
      BY StatusType DEF TypeOK
    <2>2. runs' \in [Runs -> RunRow]
      BY <1>3, <2>1 DEF Complete, TypeOK
    <2> QED  BY <1>3, <2>2, StatementShape DEF Complete, TypeOK
  <1>4. ASSUME NEW p \in Procs, NEW r \in Runs, NEW id \in CallerIds \cup {None}, AppendCall(p, r, id)
        PROVE  Shape'
    BY <1>4, AttemptsAssumption
       DEF AppendCall, TypeOK, CallShape, Appending, Reading, TxTypeOK, txVars
  <1>5. ASSUME NEW p \in Procs, NEW r \in Runs, ReadRun(p, r)
        PROVE  Shape'
    BY <1>5 DEF ReadRun, TypeOK, CallShape, Appending, Reading, TxTypeOK, txVars
  <1>6. ASSUME NEW p \in Procs, AppendRead(p)
        PROVE  Shape'
    BY <1>6 DEF AppendRead, TypeOK, CallShape, Appending, Reading, TxTypeOK, TxSnapshot
  <1>7. ASSUME NEW p \in Procs, AppendRefuse(p) \/ AppendCancel(p) \/ Bundled(p)
        PROVE  Shape'
    BY <1>7, ReturnShape DEF AppendRefuse, AppendCancel, Bundled, TypeOK, TxTypeOK, txVars
  <1>8. ASSUME NEW p \in Procs, NEW id \in EventIds, AppendWrite(p, id)
        PROVE  Shape'
    BY <1>8 DEF AppendWrite, TypeOK, CallShape, Appending, Reading, TxTypeOK
  <1>9. ASSUME NEW p \in Procs, AppendDuplicate(p) \/ AppendExhausted(p)
        PROVE  Shape'
    BY <1>9, ReturnShape, TxRollbackType DEF AppendDuplicate, AppendExhausted, TypeOK
  <1>16. ASSUME NEW p \in Procs, Crash(p)
         PROVE  Shape'
    <2>1. pc[p] = "committed" => NewEvent(p) \in EventRow
      BY NewEventType
    <2> QED  BY <1>16, <2>1, ReturnShape, TxRollbackType DEF Crash, TypeOK
  <1>10. ASSUME NEW p \in Procs, AppendRetry(p)
         PROVE  Shape'
    BY <1>10, TxRollbackType, AttemptsAssumption
       DEF AppendRetry, TypeOK, CallShape, Appending, Reading
  <1>11. ASSUME NEW p \in Procs, AppendCommit(p)
         PROVE  Shape'
    <2>1. NewEvent(p) \in EventRow
      BY <1>11, NewEventType DEF AppendCommit
    <2>2. call[p].run \in Runs
      BY <1>11 DEF AppendCommit, CallShape, Appending
    <2>3. runs' \in [Runs -> RunRow]
      BY <1>11, <2>1, <2>2, AdvancedType DEF AppendCommit, TypeOK
    <2>4. TypeOK'
      <3>1. pc' \in [Procs -> {"ready", "begin", "read", "written", "committed",
                              "reading", "bundled"}]
        BY <1>11 DEF AppendCommit, TypeOK
      <3>2. events' \in SUBSET EventRow
        BY <1>11, <2>1 DEF AppendCommit, TypeOK
      <3> QED  BY <1>11, <2>3, <3>1, <3>2 DEF AppendCommit, TypeOK, TxTypeOK, TxCommit
    <2>5. CallShape'
      BY <1>11 DEF AppendCommit, TypeOK, CallShape, Appending, Reading
    <2> QED  BY <2>4, <2>5
  <1>12. ASSUME NEW p \in Procs, AppendReturn(p)
         PROVE  Shape'
    <2>1. NewEvent(p) \in EventRow
      BY <1>12, NewEventType DEF AppendReturn
    <2> QED  BY <1>12, <2>1, ReturnShape DEF AppendReturn, TypeOK, TxTypeOK, txVars
  <1>13. ASSUME NEW p \in Procs, ReadEvents(p)
         PROVE  Shape'
    BY <1>13 DEF ReadEvents, TypeOK, CallShape, Appending, Reading, TxTypeOK, txVars, Rows
  <1>14. ASSUME \/ \E m \in Anchoring : CloseMission(m)
                \/ \E r \in Runs, m \in Anchoring : Attach(r, m)
                \/ \E r \in Runs, m \in Naming \cup {None} : Rename(r, m)
         PROVE  Shape'
    BY <1>14, StatementShape DEF CloseMission, Attach, Rename, TypeOK
  <1>15. ASSUME UNCHANGED vars
         PROVE  Shape'
    BY <1>15 DEF vars, callVars, txVars, TypeOK, CallShape, TxTypeOK
  <1> QED
    BY <1>1, <1>2, <1>3, <1>4, <1>5, <1>6, <1>7, <1>8, <1>9, <1>10, <1>11, <1>12,
       <1>13, <1>14, <1>15, <1>16 DEF Next, AppendStep, ReadStep

\* Type correctness (store.go 31-562): no store call loses the shape of its
\* rows, and no Append exceeds maxWriteAttempts.
THEOREM TypeCorrect == Spec => []TypeOK
  <1>1. Init => Shape
    BY InitShape
  <1>2. Shape /\ [Next]_vars => Shape'
    BY NextShape
  <1>3. Shape => TypeOK
    BY DEF Shape
  <1> QED  BY <1>1, <1>2, <1>3, PTL DEF Spec

-----------------------------------------------------------------------------
(* The transaction discipline *)

LEMMA InitSnapshot == Init => SnapshotCurrent /\ CommittedStored
  BY DEF Init, SnapshotCurrent, CurrentAt, CommittedStored, TxInit

\* A statement commits only while nobody holds the lock, so it can only make
\* snapshots stale.
LEMMA StatementSnapshot ==
  ASSUME Shape, SnapshotCurrent, TxStatement, UNCHANGED <<events, pc, call, snap>>
  PROVE  SnapshotCurrent'
  BY DEF Shape, TypeOK, TxTypeOK, SnapshotCurrent, CurrentAt, TxStatement, Unused

\* What a process has read stays current while the tables and it stay as they are.
LEMMA CurrentKept ==
  ASSUME NEW q \in Procs, CurrentAt(q), UNCHANGED <<runs, events, closed, named, attached>>,
         pc'[q] = pc[q], call'[q] = call[q], snap'[q] = snap[q],
         writer' = {q} <=> writer = {q}, q \in fresh' <=> q \in fresh
  PROVE  CurrentAt(q)'
  <1>1. Unused(call[q].id) => Unused(call[q].id)'
    BY DEF Unused
  <1>2. Accepts(call[q].run) => Accepts(call[q].run)'
    BY DEF Accepts, MayAccept, MissionsOf
  <1> QED  BY <1>1, <1>2 DEF CurrentAt

\* A process that leaves its transaction does not disturb the others.
LEMMA RollbackSnapshot ==
  ASSUME Shape, SnapshotCurrent, NEW p \in Procs, TxRollback(p),
         UNCHANGED <<runs, events, closed, named, attached>>,
         pc'[p] \in {"ready", "begin"},
         \A q \in Procs \ {p} : /\ pc'[q] = pc[q]
                                /\ call'[q] = call[q]
                                /\ snap'[q] = snap[q]
  PROVE  SnapshotCurrent'
  <1> SUFFICES ASSUME NEW q \in Procs
               PROVE  CurrentAt(q)'
    BY DEF SnapshotCurrent
  <1>1. CurrentAt(q)
    BY DEF SnapshotCurrent
  <1>2. CASE q = p
    BY <1>1, <1>2 DEF TxRollback, CurrentAt
  <1>3. CASE q # p
    <2>1. writer' = {q} <=> writer = {q}
      BY <1>3 DEF TxRollback, Shape, TypeOK, TxTypeOK
    <2>2. q \in fresh' <=> q \in fresh
      BY <1>3 DEF TxRollback
    <2> QED  BY <1>1, <1>3, <2>1, <2>2, CurrentKept
  <1> QED  BY <1>2, <1>3

\* The same for a process that is in no transaction.
LEMMA OutsideSnapshot ==
  ASSUME Shape, SnapshotCurrent, NEW p \in Procs,
         UNCHANGED <<runs, events, closed, named, attached, txVars>>,
         pc[p] \notin {"read", "written"}, pc'[p] \notin {"read", "written"},
         \A q \in Procs \ {p} : /\ pc'[q] = pc[q]
                                /\ call'[q] = call[q]
                                /\ snap'[q] = snap[q]
  PROVE  SnapshotCurrent'
  <1> SUFFICES ASSUME NEW q \in Procs
               PROVE  CurrentAt(q)'
    BY DEF SnapshotCurrent
  <1>1. CurrentAt(q)
    BY DEF SnapshotCurrent
  <1>2. CASE q = p
    BY <1>1, <1>2 DEF CurrentAt, txVars
  <1>3. CASE q # p
    BY <1>1, <1>3, CurrentKept DEF txVars
  <1> QED  BY <1>2, <1>3

LEMMA ReturnOthers ==
  ASSUME Shape, NEW p \in Procs, Return(p)
  PROVE  /\ pc'[p] = "ready"
         /\ \A q \in Procs \ {p} : /\ pc'[q] = pc[q]
                                   /\ call'[q] = call[q]
                                   /\ snap'[q] = snap[q]
                                   /\ bundle'[q] = bundle[q]
  BY DEF Shape, TypeOK, Return

LEMMA NextSnapshot == Shape /\ SnapshotCurrent /\ [Next]_vars => SnapshotCurrent'
  <1> SUFFICES ASSUME Shape, SnapshotCurrent, [Next]_vars PROVE SnapshotCurrent'
    OBVIOUS
  <1>1. ASSUME NEW p \in Procs, NEW r \in Runs, NEW m \in Naming \cup {None}, Start(p, r, m)
        PROVE  SnapshotCurrent'
    BY <1>1, StatementSnapshot DEF Start, callVars
  <1>2. ASSUME NEW p \in Procs, NEW r \in Runs, MarkIdle(p, r)
        PROVE  SnapshotCurrent'
    BY <1>2, StatementSnapshot DEF MarkIdle, callVars
  <1>3. ASSUME NEW p \in Procs, NEW r \in Runs, NEW st \in Terminal, Complete(p, r, st)
        PROVE  SnapshotCurrent'
    BY <1>3, StatementSnapshot DEF Complete, callVars
  <1>4. ASSUME NEW p \in Procs, NEW r \in Runs, NEW id \in CallerIds \cup {None}, AppendCall(p, r, id)
        PROVE  SnapshotCurrent'
    BY <1>4, OutsideSnapshot DEF AppendCall, Shape, TypeOK
  <1>5. ASSUME NEW p \in Procs, NEW r \in Runs, ReadRun(p, r)
        PROVE  SnapshotCurrent'
    BY <1>5, OutsideSnapshot DEF ReadRun, Shape, TypeOK
  <1>6. ASSUME NEW p \in Procs, AppendRead(p)
        PROVE  SnapshotCurrent'
    <2> SUFFICES ASSUME NEW q \in Procs PROVE CurrentAt(q)'
      BY DEF SnapshotCurrent
    <2>1. CurrentAt(q) /\ UNCHANGED <<runs, events, closed, named, attached, call, writer>>
      BY <1>6 DEF AppendRead, TxSnapshot, SnapshotCurrent
    <2>2. CASE q = p
      <3>1. /\ pc[q] = "begin" /\ pc'[q] = "read" /\ snap'[q] = runs[call[q].run]
            /\ Accepts(call[q].run)
        BY <1>6, <2>2 DEF AppendRead, Shape, TypeOK, Accepts
      <3>2. Accepts(call[q].run)'
        BY <2>1, <3>1 DEF Accepts, MayAccept, MissionsOf
      <3> QED  BY <2>1, <3>1, <3>2 DEF CurrentAt
    <2>3. CASE q # p
      BY <1>6, <2>1, <2>3, CurrentKept DEF AppendRead, TxSnapshot
    <2> QED  BY <2>2, <2>3
  <1>7. ASSUME NEW p \in Procs, AppendRefuse(p) \/ AppendCancel(p) \/ Bundled(p) \/ AppendReturn(p)
        PROVE  SnapshotCurrent'
    BY <1>7, ReturnOthers, OutsideSnapshot DEF AppendRefuse, AppendCancel, Bundled, AppendReturn
  <1>8. ASSUME NEW p \in Procs, NEW id \in EventIds, AppendWrite(p, id)
        PROVE  SnapshotCurrent'
    <2> SUFFICES ASSUME NEW q \in Procs PROVE CurrentAt(q)'
      BY DEF SnapshotCurrent
    <2>1. /\ CurrentAt(q) /\ UNCHANGED <<runs, events, closed, named, attached, snap, fresh>>
          /\ writer = {} /\ p \in fresh /\ writer' = {p}
      BY <1>8 DEF AppendWrite, SnapshotCurrent, MayWrite, TxMayWrite
    <2>2. CASE q = p
      <3>1. /\ pc'[q] = "written" /\ call'[q].id = id /\ call'[q].run = call[q].run
            /\ Unused(id)
        BY <1>8, <2>2 DEF AppendWrite, Shape, TypeOK, CallShape, Appending
      <3>2. Unused(call[q].id)'
        BY <2>1, <3>1 DEF Unused
      <3>3. Accepts(call[q].run)'
        BY <2>1, <2>2, <3>1 DEF CurrentAt, Accepts, MayAccept, MissionsOf
      <3> QED  BY <2>1, <2>2, <3>1, <3>2, <3>3 DEF CurrentAt
    <2>3. CASE q # p
      <3>1. pc'[q] = pc[q] /\ call'[q] = call[q] /\ snap'[q] = snap[q]
        BY <1>8, <2>3 DEF AppendWrite
      <3> QED  BY <2>1, <2>3, <3>1, CurrentKept
    <2> QED  BY <2>2, <2>3
  <1>9. ASSUME NEW p \in Procs, AppendDuplicate(p) \/ AppendExhausted(p) \/ Crash(p)
        PROVE  SnapshotCurrent'
    BY <1>9, ReturnOthers, RollbackSnapshot DEF AppendDuplicate, AppendExhausted, Crash
  <1>10. ASSUME NEW p \in Procs, AppendRetry(p)
         PROVE  SnapshotCurrent'
    BY <1>10, RollbackSnapshot DEF AppendRetry, Shape, TypeOK
  <1>11. ASSUME NEW p \in Procs, AppendCommit(p)
         PROVE  SnapshotCurrent'
    BY <1>11 DEF AppendCommit, TxCommit, SnapshotCurrent, CurrentAt, Shape, TypeOK, TxTypeOK
  <1>12. ASSUME NEW p \in Procs, ReadEvents(p)
         PROVE  SnapshotCurrent'
    BY <1>12, OutsideSnapshot DEF ReadEvents, Shape, TypeOK
  <1>13. ASSUME \/ \E m \in Anchoring : CloseMission(m)
                \/ \E r \in Runs, m \in Anchoring : Attach(r, m)
                \/ \E r \in Runs, m \in Naming \cup {None} : Rename(r, m)
         PROVE  SnapshotCurrent'
    BY <1>13, StatementSnapshot DEF CloseMission, Attach, Rename, callVars
  <1>14. ASSUME UNCHANGED vars
         PROVE  SnapshotCurrent'
    BY <1>14 DEF vars, callVars, txVars, SnapshotCurrent, CurrentAt, Unused, Accepts, MayAccept, MissionsOf
  <1> QED
    BY <1>1, <1>2, <1>3, <1>4, <1>5, <1>6, <1>7, <1>8, <1>9, <1>10, <1>11, <1>12,
       <1>13, <1>14 DEF Next, AppendStep, ReadStep

-----------------------------------------------------------------------------
(* The chain *)

\* Verification looks at the count and the head of a run row, not at its status.
LEMMA VerifyIgnoresStatus ==
  ASSUME NEW r, NEW run1, NEW run2, NEW rows,
         run1.count = run2.count, run1.head = run2.head, VerifyBundle(r, run1, rows)
  PROVE  VerifyBundle(r, run2, rows)
  BY DEF VerifyBundle

\* Appending the event built on the head of a verified run gives a verified run.
LEMMA VerifyExtended ==
  ASSUME NEW r \in Runs, NEW run \in RunRow, NEW rows \in SUBSET EventRow,
         VerifyBundle(r, run, rows),
         NEW e \in EventRow,
         e.run = r, e.seq = run.count, e.prev = run.head,
         e.hash = Hash(e.prev, e.run, e.seq, e.id)
  PROVE  VerifyBundle(r, Advanced(run, e), rows \cup {e})
  <1> DEFINE all == rows \cup {e}
             new == Advanced(run, e)
  <1>1. run.count \in Nat /\ new.count = run.count + 1 /\ new.head = e.hash
    BY DEF RunRow, Advanced
  <1>2. \A f \in rows : f.seq \in Nat /\ f.seq < run.count
    BY <1>1 DEF VerifyBundle, EventRow
  <1>3. {f.seq : f \in all} = 0..(new.count - 1)
    <2>1. {f.seq : f \in all} = {f.seq : f \in rows} \cup {run.count}
      OBVIOUS
    <2>2. {f.seq : f \in rows} = 0..(run.count - 1)
      BY DEF VerifyBundle
    <2>3. 0..(run.count - 1) \cup {run.count} = 0..run.count
      BY <1>1
    <2> QED  BY <1>1, <2>1, <2>2, <2>3
  <1>4. \A f, g \in all : f.seq = g.seq => f = g
    BY <1>1, <1>2 DEF VerifyBundle
  <1>5. \A f \in all : f.run = r /\ f.hash = Hash(f.prev, f.run, f.seq, f.id)
    BY DEF VerifyBundle
  <1>6. \A f \in all : f.seq = 0 => f.prev = GenesisHash
    BY <1>1, <1>2 DEF VerifyBundle
  <1>7. \A f, g \in all : g.seq = f.seq + 1 => g.prev = f.hash
    <2> SUFFICES ASSUME NEW f \in all, NEW g \in all, g.seq = f.seq + 1
                 PROVE  g.prev = f.hash
      OBVIOUS
    <2>1. CASE g = e
      <3>1. f \in rows /\ f.seq = run.count - 1
        BY <1>1, <1>2, <2>1
      <3> QED  BY <2>1, <3>1 DEF VerifyBundle
    <2>2. CASE g # e
      <3>1. g \in rows /\ f \in rows
        BY <1>1, <1>2, <2>2
      <3> QED  BY <3>1 DEF VerifyBundle
    <2> QED  BY <2>1, <2>2
  <1>8. \A f \in all : f.seq = new.count - 1 => new.head = f.hash
    BY <1>1, <1>2
  <1>9. new.count # 0
    BY <1>1
  <1> QED  BY <1>3, <1>4, <1>5, <1>6, <1>7, <1>8, <1>9 DEF VerifyBundle

\* Commit, seen from the ledger: the event is new at the end of its run.
LEMMA CommitFacts ==
  ASSUME Shape, SnapshotCurrent, NEW p \in Procs, AppendCommit(p)
  PROVE  /\ call[p].run \in Runs
         /\ NewEvent(p) \in EventRow
         /\ NewEvent(p).run = call[p].run
         /\ NewEvent(p).seq = runs[call[p].run].count
         /\ NewEvent(p).prev = runs[call[p].run].head
         /\ NewEvent(p).hash = Hash(NewEvent(p).prev, NewEvent(p).run,
                                    NewEvent(p).seq, NewEvent(p).id)
  <1>1. pc[p] = "written" /\ snap[p] = runs[call[p].run]
    BY DEF AppendCommit, SnapshotCurrent, CurrentAt
  <1>2. NewEvent(p) \in EventRow
    BY <1>1, NewEventType DEF Shape
  <1>3. call[p].run \in Runs
    BY <1>1 DEF Shape, CallShape, Appending
  <1> QED  BY <1>1, <1>2, <1>3 DEF NewEvent

LEMMA CommitRows ==
  ASSUME Shape, SnapshotCurrent, NEW p \in Procs, AppendCommit(p), NEW r \in Runs
  PROVE  /\ r = call[p].run => /\ Rows(r)' = Rows(r) \cup {NewEvent(p)}
                               /\ runs'[r] = Advanced(runs[r], NewEvent(p))
         /\ r # call[p].run => /\ Rows(r)' = Rows(r)
                               /\ runs'[r] = runs[r]
  <1>1. NewEvent(p).run = call[p].run
    BY CommitFacts
  <1>2. events' = events \cup {NewEvent(p)}
    BY DEF AppendCommit
  <1>3. runs' = [runs EXCEPT ![call[p].run] = Advanced(@, NewEvent(p))]
    BY DEF AppendCommit
  <1>4. r = call[p].run => Rows(r)' = Rows(r) \cup {NewEvent(p)}
    BY <1>1, <1>2 DEF Rows
  <1>5. r # call[p].run => Rows(r)' = Rows(r)
    BY <1>1, <1>2 DEF Rows
  <1> QED  BY <1>3, <1>4, <1>5 DEF Shape, TypeOK

LEMMA InitChain == Init => ChainVerifies
  <1> SUFFICES ASSUME Init, NEW r \in Runs PROVE VerifyBundle(r, runs[r], Rows(r))
    BY DEF ChainVerifies
  <1>1. Rows(r) = {} /\ runs[r].count = 0 /\ runs[r].head = GenesisHash
    BY DEF Init, Rows, NoRun
  <1>2. 0..(0 - 1) = {}
    OBVIOUS
  <1> QED  BY <1>1, <1>2 DEF VerifyBundle

\* The one step that changes a chain.
LEMMA CommitChain ==
  ASSUME Shape, SnapshotCurrent, ChainVerifies, NEW p \in Procs, AppendCommit(p)
  PROVE  ChainVerifies'
  <1> SUFFICES ASSUME NEW r \in Runs PROVE VerifyBundle(r, runs'[r], Rows(r)')
    BY DEF ChainVerifies, VerifyBundle
  <1>1. VerifyBundle(r, runs[r], Rows(r))
    BY DEF ChainVerifies
  <1>2. runs[r] \in RunRow /\ Rows(r) \in SUBSET EventRow
    BY DEF Shape, TypeOK, Rows
  <1>3. CASE r = call[p].run
    BY <1>1, <1>2, <1>3, CommitFacts, CommitRows, VerifyExtended
  <1>4. CASE r # call[p].run
    BY <1>1, <1>4, CommitRows
  <1> QED  BY <1>3, <1>4

\* Every other step keeps the events, and the count and head of every run.
ChainKept == /\ events' = events
             /\ \A r \in Runs : /\ runs'[r].count = runs[r].count
                                /\ runs'[r].head = runs[r].head

LEMMA NextChain ==
  ASSUME Shape, AbsentEmpty, [Next]_vars
  PROVE  ChainKept \/ \E p \in Procs : AppendCommit(p)
  <1> USE DEF Shape, TypeOK, ChainKept
  <1>1. ASSUME NEW p \in Procs, NEW r \in Runs, NEW m \in Naming \cup {None}, Start(p, r, m)
        PROVE  ChainKept
    BY <1>1 DEF AbsentEmpty, Start, NoRun, RunRow
  <1>2. ASSUME NEW p \in Procs, NEW r \in Runs, MarkIdle(p, r)
        PROVE  ChainKept
    BY <1>2 DEF MarkIdle, RunRow
  <1>3. ASSUME NEW p \in Procs, NEW r \in Runs, NEW st \in Terminal, Complete(p, r, st)
        PROVE  ChainKept
    BY <1>3 DEF Complete, RunRow
  <1>4. ASSUME NEW p \in Procs, NEW r \in Runs,
               ReadRun(p, r) \/ \E id \in CallerIds \cup {None} : AppendCall(p, r, id)
        PROVE  ChainKept
    BY <1>4 DEF AppendCall, ReadRun
  <1>5. ASSUME NEW p \in Procs,
               AppendStep(p) \/ AppendCancel(p) \/ ReadStep(p) \/ Crash(p), ~AppendCommit(p)
        PROVE  ChainKept
    BY <1>5 DEF AppendStep, AppendRead, AppendRefuse, AppendWrite, AppendDuplicate, AppendRetry,
                AppendExhausted, AppendReturn, AppendCancel, ReadStep, ReadEvents, Bundled, Crash
  <1>6. ASSUME \/ \E m \in Anchoring : CloseMission(m)
               \/ \E r \in Runs, m \in Anchoring : Attach(r, m)
               \/ \E r \in Runs, m \in Naming \cup {None} : Rename(r, m)
        PROVE  ChainKept
    BY <1>6 DEF CloseMission, Attach, Rename
  <1>7. ASSUME UNCHANGED vars
        PROVE  ChainKept
    BY <1>7 DEF vars
  <1> QED
    BY <1>1, <1>2, <1>3, <1>4, <1>5, <1>6, <1>7 DEF Next

LEMMA KeptChain ==
  ASSUME Shape, ChainVerifies, ChainKept
  PROVE  ChainVerifies'
  <1> SUFFICES ASSUME NEW r \in Runs PROVE VerifyBundle(r, runs'[r], Rows(r)')
    BY DEF ChainVerifies, VerifyBundle
  <1>1. Rows(r)' = Rows(r)
    BY DEF ChainKept, Rows
  <1> QED  BY <1>1, VerifyIgnoresStatus DEF ChainVerifies, ChainKept

\* A step that keeps the runs table keeps the absent runs empty.
LEMMA NextAbsent == Shape /\ AbsentEmpty /\ [Next]_vars => AbsentEmpty'
  <1> SUFFICES ASSUME Shape, AbsentEmpty, [Next]_vars PROVE AbsentEmpty'
    OBVIOUS
  <1> USE DEF Shape, TypeOK, AbsentEmpty
  <1>1. ASSUME NEW p \in Procs, NEW r \in Runs, NEW m \in Naming \cup {None}, Start(p, r, m)
        PROVE  AbsentEmpty'
    BY <1>1 DEF Start, NoRun
  <1>2. ASSUME NEW p \in Procs, NEW r \in Runs, MarkIdle(p, r)
        PROVE  AbsentEmpty'
    BY <1>2 DEF MarkIdle, RunRow
  <1>3. ASSUME NEW p \in Procs, NEW r \in Runs, NEW st \in Terminal, Complete(p, r, st)
        PROVE  AbsentEmpty'
    BY <1>3, TerminalAssumption DEF Complete, RunRow
  <1>4. ASSUME NEW p \in Procs, AppendCommit(p)
        PROVE  AbsentEmpty'
    BY <1>4 DEF AppendCommit, Advanced
  <1>5. ASSUME UNCHANGED runs
        PROVE  AbsentEmpty'
    BY <1>5
  <1> QED
    BY <1>1, <1>2, <1>3, <1>4, <1>5
       DEF Next, AppendStep, AppendCall, AppendRead, AppendRefuse, AppendWrite, AppendDuplicate,
           AppendRetry, AppendExhausted, AppendReturn, AppendCancel, ReadRun, ReadStep,
           ReadEvents, Bundled, Crash, CloseMission, Attach, Rename, vars

-----------------------------------------------------------------------------
(* The inductive invariant and its consequences *)

Ledger == Shape /\ SnapshotCurrent /\ AbsentEmpty /\ ChainVerifies

LEMMA InitLedger == Init => Ledger
  <1>1. Init => AbsentEmpty
    BY DEF Init, AbsentEmpty
  <1> QED  BY <1>1, InitShape, InitSnapshot, InitChain DEF Ledger

LEMMA NextLedger == Ledger /\ [Next]_vars => Ledger'
  <1> SUFFICES ASSUME Ledger, [Next]_vars PROVE Ledger'
    OBVIOUS
  <1>1. Shape' /\ SnapshotCurrent' /\ AbsentEmpty'
    BY NextShape, NextSnapshot, NextAbsent DEF Ledger
  <1>2. ChainVerifies'
    BY NextChain, KeptChain, CommitChain DEF Ledger
  <1> QED  BY <1>1, <1>2 DEF Ledger

LEMMA LedgerInvariant == Spec => []Ledger
  BY InitLedger, NextLedger, PTL DEF Spec

\* Every run of the ledger passes proof.VerifyBundle at all times
\* (store.go 252-338 against verify.go 5-55), for any number of writers.
THEOREM ChainSafe == Spec => []ChainVerifies
  <1>1. Ledger => ChainVerifies
    BY DEF Ledger
  <1> QED  BY <1>1, LedgerInvariant, PTL

-----------------------------------------------------------------------------
(* What a chain head commits to *)

\* Induction from n - 1 down to 0, for a set.
LEMMA DownToZero ==
  ASSUME NEW n \in Nat, NEW S, n > 0 => n - 1 \in S,
         \A i \in 1..(n - 1) : i \in S => i - 1 \in S
  PROVE  0..(n - 1) \subseteq S
  <1> DEFINE T == {k \in Nat : k < n /\ n - 1 - k \notin S}
             R == OpToRel(<, Nat)
  <1> SUFFICES ASSUME T # {} PROVE FALSE
    <2>1. ASSUME NEW i \in 0..(n - 1), i \notin S
          PROVE  n - 1 - i \in T
      BY <2>1
    <2> QED  BY <2>1
  <1>1. T \subseteq Nat /\ IsWellFoundedOn(R, Nat)
    BY NatLessThanWellFounded
  <1>2. PICK x \in T : \A y \in T : ~ (<<y, x>> \in R)
    <2> HIDE DEF T, R
    <2> QED  BY <1>1, WFMin
  <1>3. \A y \in T : ~ (y < x)
    <2>1. \A y, z \in Nat : y < z => <<y, z>> \in R
      BY DEF OpToRel
    <2> QED  BY <1>1, <1>2, <2>1
  <1>4. x \in Nat /\ x < n /\ n - 1 - x \notin S
    BY <1>2
  <1>5. x # 0
    BY <1>4
  <1>6. x - 1 \in Nat /\ x - 1 < n /\ x - 1 \notin T
    BY <1>3, <1>4, <1>5
  <1>7. n - x \in 1..(n - 1) /\ n - x \in S
    BY <1>4, <1>5, <1>6
  <1>8. (n - x) - 1 \in S
    BY <1>7
  <1> QED  BY <1>4, <1>8

LEMMA HashesExtended ==
  ASSUME NEW h \in Hashes, NEW k \in Hashes, NEW c \in Content, NEW d \in Content,
         Append(h, c) = Append(k, d)
  PROVE  h = k /\ c = d
  BY AppendInjective DEF Hashes

\* The hash of an event determines the event.
LEMMA HashPinsEvent ==
  ASSUME NEW e \in EventRow, NEW f \in EventRow, e.hash = f.hash,
         e.hash = Hash(e.prev, e.run, e.seq, e.id),
         f.hash = Hash(f.prev, f.run, f.seq, f.id)
  PROVE  e = f
  <1> DEFINE c == [run |-> e.run, seq |-> e.seq, id |-> e.id]
             d == [run |-> f.run, seq |-> f.seq, id |-> f.id]
  <1>1. c \in Content /\ d \in Content /\ e.prev \in Hashes /\ f.prev \in Hashes
    BY DEF EventRow, Content
  <1>2. Append(e.prev, c) = Append(f.prev, d)
    BY DEF Hash
  <1>3. e.prev = f.prev /\ c = d
    <2> HIDE DEF c, d
    <2> QED  BY <1>1, <1>2, HashesExtended
  <1>4. e.run = f.run /\ e.seq = f.seq /\ e.id = f.id
    BY <1>3
  <1> QED  BY <1>3, <1>4 DEF EventRow

\* The last event of a verified history, which carries its head.
LEMMA HeadEvent ==
  ASSUME NEW r \in Runs, NEW run \in RunRow, NEW rows \in SUBSET EventRow,
         VerifyBundle(r, run, rows), run.count > 0
  PROVE  \E e \in rows : e.seq = run.count - 1 /\ e.hash = run.head /\ run.head # GenesisHash
  <1>1. run.count - 1 \in 0..(run.count - 1)
    BY DEF RunRow
  <1>2. PICK e \in rows : e.seq = run.count - 1
    BY <1>1 DEF VerifyBundle
  <1>3. e.hash = run.head /\ e.hash = Hash(e.prev, e.run, e.seq, e.id)
    BY <1>2 DEF VerifyBundle
  <1>4. e.prev \in Seq(Content) /\ [run |-> e.run, seq |-> e.seq, id |-> e.id] \in Content
    BY DEF EventRow, Hashes, Content
  <1>5. e.hash # <<>>
    BY <1>3, <1>4, AppendProperties DEF Hash
  <1> QED  BY <1>2, <1>3, <1>5 DEF GenesisHash

LEMMA EmptyHistory ==
  ASSUME NEW r \in Runs, NEW run \in RunRow, NEW rows \in SUBSET EventRow,
         VerifyBundle(r, run, rows), run.count = 0
  PROVE  rows = {} /\ run.head = GenesisHash
  <1>1. {e.seq : e \in rows} = {}
    BY DEF VerifyBundle
  <1> QED  BY <1>1 DEF VerifyBundle

\* What makes the ledger tamper-evident (proof.VerifyBundle, and the anchors of
\* checkpoints, which are verified by runBundleTx with the anchored count and
\* head): a chain head commits to the whole history before it.  Two histories
\* that verify with the same head are the same events in the same order, whoever
\* presents them, also when one has been rewritten from its first event on.
THEOREM HeadPinsHistory ==
  ASSUME NEW r \in Runs, NEW run \in RunRow, NEW rows \in SUBSET EventRow,
         NEW s \in Runs, NEW other \in RunRow, NEW otherRows \in SUBSET EventRow,
         VerifyBundle(r, run, rows), VerifyBundle(s, other, otherRows),
         run.head = other.head
  PROVE  rows = otherRows /\ run.count = other.count
  <1> DEFINE n == run.count
  <1>1. run.count \in Nat /\ other.count \in Nat
    BY DEF RunRow
  <1>2. CASE run.count = 0 \/ other.count = 0
    <2>1. run.head = GenesisHash
      BY <1>2, EmptyHistory
    <2>2. run.count = 0 /\ other.count = 0
      <3>1. run.count > 0 => run.head # GenesisHash
        BY HeadEvent
      <3>2. other.count > 0 => other.head # GenesisHash
        BY HeadEvent
      <3> QED  BY <1>1, <2>1, <3>1, <3>2
    <2>3. rows = {}
      BY <2>2, EmptyHistory
    <2>4. otherRows = {}
      BY <2>2, EmptyHistory
    <2> QED  BY <2>2, <2>3, <2>4
  <1>3. CASE run.count > 0 /\ other.count > 0
    <2> DEFINE S == {i \in 0..(n - 1) :
                        \A e \in rows, f \in otherRows : e.seq = i /\ f.seq = i => e = f}
    <2>1. PICK e \in rows : e.seq = n - 1 /\ e.hash = run.head
      BY <1>3, HeadEvent
    <2>2. PICK f \in otherRows : f.seq = other.count - 1 /\ f.hash = other.head
      BY <1>3, HeadEvent
    <2>3. e = f
      BY <2>1, <2>2, HashPinsEvent DEF VerifyBundle
    <2>4. n = other.count
      BY <1>1, <2>1, <2>2, <2>3
    <2>5. n - 1 \in S
      <3>1. \A x \in rows : x.seq = n - 1 => x = e
        BY <2>1 DEF VerifyBundle
      <3>2. \A x \in otherRows : x.seq = n - 1 => x = e
        BY <2>2, <2>3, <2>4 DEF VerifyBundle
      <3> QED  BY <1>1, <1>3, <3>1, <3>2
    <2>6. ASSUME NEW i \in 1..(n - 1), i \in S
          PROVE  i - 1 \in S
      <3>1. PICK x \in rows : x.seq = i
        BY <1>1, <2>6 DEF VerifyBundle
      <3>2. x \in otherRows
        <4>1. i \in {y.seq : y \in otherRows}
          BY <1>1, <2>4, <2>6 DEF VerifyBundle
        <4> QED  BY <2>6, <3>1, <4>1
      <3>3. ASSUME NEW y \in rows, NEW z \in otherRows, y.seq = i - 1, z.seq = i - 1
            PROVE  y = z
        <4>1. x.seq = y.seq + 1 /\ x.seq = z.seq + 1
          BY <2>6, <3>1, <3>3
        <4>2. x.prev = y.hash /\ x.prev = z.hash
          BY <3>2, <4>1 DEF VerifyBundle
        <4>3. /\ y.hash = Hash(y.prev, y.run, y.seq, y.id)
              /\ z.hash = Hash(z.prev, z.run, z.seq, z.id)
          BY DEF VerifyBundle
        <4> QED  BY <4>2, <4>3, HashPinsEvent
      <3>4. i - 1 \in 0..(n - 1)
        BY <1>1, <2>6
      <3> QED  BY <3>3, <3>4
    <2>7. \A i \in 0..(n - 1) : i \in S
      <3> HIDE DEF S
      <3> QED  BY <1>1, <2>5, <2>6, DownToZero
    <2>8. rows \subseteq otherRows
      <3> SUFFICES ASSUME NEW x \in rows PROVE x \in otherRows
        OBVIOUS
      <3>1. x.seq \in 0..(n - 1)
        BY DEF VerifyBundle
      <3>2. x.seq \in {y.seq : y \in otherRows}
        BY <2>4, <3>1 DEF VerifyBundle
      <3> QED  BY <2>7, <3>1, <3>2
    <2>9. otherRows \subseteq rows
      <3> SUFFICES ASSUME NEW x \in otherRows PROVE x \in rows
        OBVIOUS
      <3>1. x.seq \in 0..(n - 1)
        BY <2>4 DEF VerifyBundle
      <3>2. x.seq \in {y.seq : y \in rows}
        BY <3>1 DEF VerifyBundle
      <3> QED  BY <2>7, <3>1, <3>2
    <2> QED  BY <2>4, <2>8, <2>9
  <1> QED  BY <1>1, <1>2, <1>3
=============================================================================
