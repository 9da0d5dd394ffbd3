------------------------ MODULE RunLedger_refinement ------------------------
(***************************************************************************)
(* Proofs that acknowledged events are never lost and that RunLedger       *)
(* implements RunLog, both from the invariant Ledger of RunLedger_proofs.  *)
(***************************************************************************)
EXTENDS RunLedger_proofs

-----------------------------------------------------------------------------
(* Acknowledged events *)

LEMMA EventsGrow == Next => events \subseteq events'
  BY DEF Next, AppendStep, AppendCall, AppendRead, AppendRefuse, AppendWrite, AppendDuplicate,
         AppendRetry, AppendExhausted, AppendReturn, AppendCancel, AppendCommit, ReadRun, ReadStep,
         ReadEvents, Bundled, Crash, CloseMission, Attach, Rename, Start, MarkIdle, Complete

Durable == CommittedStored /\ AckedStored

\* The event a process has committed does not change until it returns.
LEMMA CommittedKept ==
  ASSUME Ledger, CommittedStored, events \subseteq events', NEW q \in Procs,
         pc'[q] = "committed", pc[q] = "committed", call'[q] = call[q], snap'[q] = snap[q]
  PROVE  NewEvent(q)' \in events'
  BY DEF CommittedStored, NewEvent

\* Every event stays accounted for.
LEMMA RepliesKept ==
  ASSUME events \subseteq Replies, acked \subseteq acked', unreported \subseteq unreported',
         \A e \in events' \ events : e \in Replies',
         \A q \in Procs : pc[q] = "committed" =>
             \/ NewEvent(q) \in acked' \cup unreported'
             \/ pc'[q] = "committed" /\ call'[q] = call[q] /\ snap'[q] = snap[q]
  PROVE  events' \subseteq Replies'
  <1> SUFFICES ASSUME NEW e \in events PROVE e \in Replies'
    OBVIOUS
  <1>1. CASE e \in acked \cup unreported
    BY <1>1 DEF Replies
  <1>2. ASSUME NEW q \in Procs, pc[q] = "committed", e = NewEvent(q)
        PROVE  e \in Replies'
    <2>1. CASE NewEvent(q) \in acked' \cup unreported'
      BY <1>2, <2>1 DEF Replies
    <2>2. CASE pc'[q] = "committed" /\ call'[q] = call[q] /\ snap'[q] = snap[q]
      <3>1. NewEvent(q)' = e
        BY <1>2, <2>2 DEF NewEvent
      <3> QED  BY <2>2, <3>1 DEF Replies
    <2> QED  BY <1>2, <2>1, <2>2
  <1> QED  BY <1>1, <1>2 DEF Replies

\* A step that adds no event and tells nobody of one.
LEMMA QuietDurable ==
  ASSUME Ledger, Durable, events' = events, acked' = acked, unreported' = unreported,
         \A q \in Procs : pc'[q] = "committed" \/ pc[q] = "committed" =>
             pc'[q] = "committed" /\ pc[q] = "committed" /\ call'[q] = call[q] /\ snap'[q] = snap[q]
  PROVE  Durable'
  <1>1. events' \subseteq Replies'
    BY RepliesKept DEF Durable, AckedStored
  <1>2. ASSUME NEW q \in Procs, pc'[q] = "committed" PROVE NewEvent(q)' \in events'
    BY <1>2, CommittedKept DEF Durable
  <1> QED  BY <1>1, <1>2 DEF Durable, CommittedStored, AckedStored

LEMMA NextDurable == Ledger /\ Durable /\ [Next]_vars => Durable'
  <1> SUFFICES ASSUME Ledger, Durable, [Next]_vars PROVE Durable'
    OBVIOUS
  <1> USE DEF Ledger, Shape, TypeOK
  <1>1. CASE UNCHANGED vars
    BY <1>1, QuietDurable DEF vars, callVars
  <1>2. CASE Next
    <2>1. events \subseteq events'
      BY <1>2, EventsGrow
    <2>2. ASSUME NEW p \in Procs, AppendCommit(p)
          PROVE  Durable'
      <3>1. NewEvent(p)' = NewEvent(p) /\ pc'[p] = "committed" /\ events' = events \cup {NewEvent(p)}
        BY <2>2 DEF AppendCommit, NewEvent
      <3>2. ASSUME NEW q \in Procs, pc'[q] = "committed" PROVE NewEvent(q)' \in events'
        BY <2>1, <2>2, <3>1, <3>2, CommittedKept DEF AppendCommit, Durable
      <3>3. NewEvent(p) \in Replies'
        BY <3>1 DEF Replies
      <3>4. events' \subseteq Replies'
        BY <2>2, <3>1, <3>3, RepliesKept DEF AppendCommit, Durable, AckedStored
      <3> QED  BY <2>2, <3>2, <3>4 DEF AppendCommit, Durable, CommittedStored, AckedStored
    <2>3. ASSUME NEW p \in Procs, AppendReturn(p) \/ Crash(p)
          PROVE  Durable'
      <3>1. /\ Return(p) /\ events' = events
            /\ acked' \subseteq events'
            /\ acked \subseteq acked' /\ unreported \subseteq unreported'
            /\ pc[p] = "committed" => NewEvent(p) \in acked' \cup unreported'
        BY <2>3 DEF AppendReturn, Crash, Durable, CommittedStored, AckedStored
      <3>2. ASSUME NEW q \in Procs, pc'[q] = "committed" PROVE NewEvent(q)' \in events'
        <4>1. q # p /\ pc[q] = "committed" /\ call'[q] = call[q] /\ snap'[q] = snap[q]
          BY <3>1, <3>2, ReturnOthers
        <4> QED  BY <2>1, <3>2, <4>1, CommittedKept DEF Durable
      <3>3. events' \subseteq Replies'
        BY <3>1, ReturnOthers, RepliesKept DEF Durable, AckedStored
      <3> QED  BY <3>1, <3>2, <3>3 DEF Durable, CommittedStored, AckedStored
    <2>4. ASSUME NEW p \in Procs, \/ AppendRefuse(p) \/ AppendDuplicate(p) \/ AppendExhausted(p)
                                  \/ AppendCancel(p) \/ Bundled(p)
          PROVE  Durable'
      <3>1. /\ Return(p) /\ UNCHANGED <<events, acked, unreported>> /\ pc[p] # "committed"
        BY <2>4 DEF AppendRefuse, AppendDuplicate, AppendExhausted, AppendCancel, Bundled
      <3> QED  BY <3>1, ReturnOthers, QuietDurable
    <2>5. ASSUME NEW p \in Procs,
                 \/ AppendRead(p) \/ AppendRetry(p) \/ ReadEvents(p)
                 \/ \E id \in EventIds : AppendWrite(p, id)
                 \/ \E r \in Runs : ReadRun(p, r) \/ \E id \in CallerIds \cup {None} : AppendCall(p, r, id)
          PROVE  Durable'
      <3>1. /\ UNCHANGED <<events, acked, unreported>>
            /\ pc[p] # "committed" /\ pc'[p] # "committed"
            /\ \A q \in Procs \ {p} : pc'[q] = pc[q] /\ call'[q] = call[q] /\ snap'[q] = snap[q]
        BY <2>5 DEF AppendRead, AppendWrite, AppendRetry, ReadEvents, ReadRun, AppendCall
      <3> QED  BY <3>1, QuietDurable
    <2>6. ASSUME UNCHANGED <<events, callVars, acked, unreported>>
          PROVE  Durable'
      BY <2>6, QuietDurable DEF callVars
    <2> QED
      BY <1>2, <2>2, <2>3, <2>4, <2>5, <2>6
         DEF Next, AppendStep, ReadStep, Start, MarkIdle, Complete, CloseMission, Attach, Rename
  <1> QED  BY <1>1, <1>2

\* What Append acknowledged is in the ledger, as acknowledged, for ever
\* (store.go 333-337): crashes, retries and rivals cannot take it away.  And an
\* Append that reported an error stored nothing; one that went round the retry
\* loop stored one event (store.go 238-256).
THEOREM AckedSafe == Spec => []AckedStored
  <1>1. Init => Durable
    BY InitSnapshot DEF Init, Durable, AckedStored
  <1>2. Durable => AckedStored
    BY DEF Durable
  <1> QED  BY <1>1, <1>2, LedgerInvariant, NextDurable, PTL DEF Spec

-----------------------------------------------------------------------------
(* The refinement mapping *)

\* The event at position i of a run exists and is the only one there.
LEMMA EventAt ==
  ASSUME Ledger, NEW r \in Runs, NEW i \in 1..runs[r].count
  PROVE  \E e \in Rows(r) : e.seq = i - 1 /\ \A f \in Rows(r) : f.seq = i - 1 => f = e
  <1>1. VerifyBundle(r, runs[r], Rows(r)) /\ runs[r].count \in Nat
    BY DEF Ledger, ChainVerifies, Shape, TypeOK, RunRow
  <1>2. {e.seq : e \in Rows(r)} = 0..(runs[r].count - 1)
    BY <1>1 DEF VerifyBundle
  <1>3. i - 1 \in 0..(runs[r].count - 1)
    BY <1>1
  <1>4. i - 1 \in {e.seq : e \in Rows(r)}
    BY <1>2, <1>3
  <1> QED  BY <1>1, <1>4 DEF VerifyBundle

\* logOf names exactly the stored events of a run.
LEMMA LogEntry ==
  ASSUME Ledger, NEW r \in Runs, NEW e \in Rows(r)
  PROVE  /\ e.seq + 1 \in 1..runs[r].count
         /\ logOf[r][e.seq + 1] = e.id
  <1>1. VerifyBundle(r, runs[r], Rows(r)) /\ runs[r].count \in Nat
    BY DEF Ledger, ChainVerifies, Shape, TypeOK, RunRow
  <1>2. e.seq \in 0..(runs[r].count - 1)
    BY <1>1 DEF VerifyBundle
  <1>3. (CHOOSE f \in Rows(r) : f.seq = (e.seq + 1) - 1) = e
    BY <1>1, <1>2 DEF VerifyBundle
  <1> QED  BY <1>1, <1>2, <1>3 DEF logOf, LogFrom

LEMMA LogLength ==
  ASSUME Ledger, NEW r \in Runs
  PROVE  /\ runs[r].count \in Nat
         /\ logOf[r] \in Seq(EventIds)
         /\ Len(logOf[r]) = runs[r].count
  <1>1. runs[r].count \in Nat
    BY DEF Ledger, Shape, TypeOK, RunRow
  <1>2. ASSUME NEW i \in 1..runs[r].count
        PROVE  (CHOOSE e \in Rows(r) : e.seq = i - 1).id \in EventIds
    BY EventAt DEF Rows, Ledger, Shape, TypeOK, EventRow
  <1>3. logOf[r] = [i \in 1..runs[r].count |-> (CHOOSE e \in Rows(r) : e.seq = i - 1).id]
    BY DEF logOf, LogFrom
  <1> QED  BY <1>1, <1>2, <1>3

\* Both facts, in a form that also holds after a step.
LogFacts == \A r \in Runs :
    /\ runs[r].count \in Nat
    /\ logOf[r] \in Seq(EventIds)
    /\ Len(logOf[r]) = runs[r].count
    /\ \A e \in Rows(r) : /\ e.seq + 1 \in 1..runs[r].count
                          /\ logOf[r][e.seq + 1] = e.id

LEMMA LogFactsHold == Ledger => LogFacts
  BY LogEntry, LogLength DEF LogFacts

LEMMA LogFactsNext == Ledger' => LogFacts'
  BY LogFactsHold, PTL

\* An identifier in some log is the identifier of a stored event.
LEMMA LoggedStored ==
  ASSUME Ledger, NEW id \in RunLogSpec!Logged
  PROVE  \E e \in events : e.id = id
  <1>1. PICK r \in Runs : id \in RunLogSpec!RangeOf(logOf[r])
    BY DEF RunLogSpec!Logged
  <1>2. PICK i \in DOMAIN logOf[r] : id = logOf[r][i]
    BY <1>1 DEF RunLogSpec!RangeOf
  <1>3. i \in 1..runs[r].count /\ id = (CHOOSE e \in Rows(r) : e.seq = i - 1).id
    BY <1>2 DEF logOf, LogFrom
  <1> QED  BY <1>3, EventAt DEF Rows

-----------------------------------------------------------------------------
(* Steps *)

\* A step that keeps the chains maps to one that keeps the logs.
LEMMA KeptLogs ==
  ASSUME ChainKept
  PROVE  logOf' = logOf
  <1>1. \A r \in Runs : Rows(r)' = Rows(r) /\ runs'[r].count = runs[r].count
    BY DEF ChainKept, Rows
  <1> QED  BY <1>1 DEF logOf

LEMMA StartMaps ==
  ASSUME Ledger, NEW p \in Procs, NEW r \in Runs, NEW m \in Naming \cup {None}, Start(p, r, m)
  PROVE  \E ms \in SUBSET Missions : RunLogSpec!Create(r, ms)
  <1> USE BoundsAssumption DEF Ledger, Shape, TypeOK
  <1>1. logOf' = logOf
    <2>1. ChainKept
      BY DEF AbsentEmpty, Start, NoRun, RunRow, ChainKept
    <2> QED  BY <2>1, KeptLogs
  <1>2. stateOf[r] = "absent"
    BY DEF Start, stateOf
  <1>3. stateOf' = [stateOf EXCEPT ![r] = "open"]
    BY DEF Start, stateOf, NoRun, Open
  <1>4. memberOf'[r] \in SUBSET Missions
    BY DEF Start, memberOf, MissionsOf
  <1>5. memberOf' = [memberOf EXCEPT ![r] = memberOf'[r]]
    <2>1. \A q \in Runs \ {r} : MissionsOf(q)' = MissionsOf(q)
      BY DEF Start, MissionsOf
    <2> QED  BY <2>1 DEF memberOf
  <1>6. closed' = closed
    BY DEF Start
  <1> QED  BY <1>1, <1>2, <1>3, <1>4, <1>5, <1>6 DEF RunLogSpec!Create

LEMMA IdleMaps ==
  ASSUME Ledger, NEW p \in Procs, NEW r \in Runs, MarkIdle(p, r)
  PROVE  UNCHANGED RunLogSpec!vars
  <1> USE DEF Ledger, Shape, TypeOK
  <1>1. logOf' = logOf
    BY KeptLogs DEF MarkIdle, ChainKept, RunRow
  <1>2. stateOf' = stateOf
    BY DEF MarkIdle, stateOf, Open, RunRow
  <1>3. memberOf' = memberOf /\ closed' = closed
    BY DEF MarkIdle, memberOf, MissionsOf
  <1> QED  BY <1>1, <1>2, <1>3 DEF RunLogSpec!vars

LEMMA CompleteMaps ==
  ASSUME Ledger, NEW p \in Procs, NEW r \in Runs, NEW st \in Terminal, Complete(p, r, st)
  PROVE  RunLogSpec!Seal(r)
  <1> USE DEF Ledger, Shape, TypeOK
  <1>1. logOf' = logOf
    BY KeptLogs DEF Complete, ChainKept, RunRow
  <1>2. stateOf[r] = "open"
    BY DEF Complete, stateOf, Open
  <1>3. stateOf' = [stateOf EXCEPT ![r] = "sealed"]
    BY TerminalAssumption DEF Complete, stateOf, Open, RunRow
  <1>4. memberOf' = memberOf /\ closed' = closed
    BY DEF Complete, memberOf, MissionsOf
  <1> QED  BY <1>1, <1>2, <1>3, <1>4 DEF RunLogSpec!Seal

LEMMA CloseMaps ==
  ASSUME Ledger, NEW m \in Missions, CloseMission(m)
  PROVE  RunLogSpec!Finish(m)
  <1>1. logOf' = logOf
    BY KeptLogs DEF CloseMission, ChainKept
  <1>2. stateOf' = stateOf /\ memberOf' = memberOf
    BY DEF CloseMission, stateOf, memberOf, MissionsOf
  <1> QED  BY <1>1, <1>2 DEF CloseMission, RunLogSpec!Finish

\* A checkpoint and the collector give a run other missions.
LEMMA JoinMaps ==
  ASSUME Ledger, NEW r \in Runs, NEW m \in Missions \cup {None},
         (m \in Missions /\ Attach(r, m)) \/ Rename(r, m)
  PROVE  \E ms \in SUBSET Missions : RunLogSpec!Join(r, ms)
  <1> USE DEF Ledger, Shape, TypeOK
  <1>1. logOf' = logOf /\ stateOf' = stateOf /\ closed' = closed
    BY KeptLogs DEF Attach, Rename, ChainKept, stateOf
  <1>2. stateOf[r] # "absent"
    BY DEF Attach, Rename, stateOf
  <1>3. memberOf'[r] \in SUBSET Missions
    BY DEF Attach, Rename, memberOf, MissionsOf
  <1>4. memberOf' = [memberOf EXCEPT ![r] = memberOf'[r]]
    <2>1. \A q \in Runs \ {r} : MissionsOf(q)' = MissionsOf(q)
      BY DEF Attach, Rename, MissionsOf
    <2> QED  BY <2>1 DEF memberOf
  <1> QED  BY <1>1, <1>2, <1>3, <1>4 DEF RunLogSpec!Join

LEMMA SameSeq ==
  ASSUME NEW S, NEW s \in Seq(S), NEW t \in Seq(S), NEW n \in Nat,
         Len(s) = n, Len(t) = n, \A i \in 1..n : s[i] = t[i]
  PROVE  s = t
  OBVIOUS

LEMMA CommitMaps ==
  ASSUME Ledger, Ledger', NEW p \in Procs, AppendCommit(p),
         NEW r \in Runs, r = call[p].run, NEW e \in EventRow, e = NewEvent(p)
  PROVE  RunLogSpec!Extend(r, e.id)
  <1> USE DEF Ledger
  <1> DEFINE n == runs[r].count
  <1>1. /\ pc[p] = "written"
        /\ e.id \in EventIds /\ e.id = call[p].id /\ e.seq = n /\ n \in Nat
    <2>1. pc[p] = "written"
      BY DEF AppendCommit
    <2>2. call[p].id \in EventIds
      BY <2>1 DEF Shape, CallShape, Appending
    <2> QED  BY <2>1, <2>2, CommitFacts, LogLength DEF NewEvent
  <1>2. Accepts(r) /\ Unused(e.id)
    BY <1>1 DEF SnapshotCurrent, CurrentAt
  <1>3. stateOf[r] = "open"
    BY <1>2 DEF stateOf, Accepts, Open
  <1>4. e.id \notin RunLogSpec!Logged
    BY <1>1, <1>2, LoggedStored DEF Unused
  <1>5. ~RunLogSpec!Finished(r)
    BY <1>2 DEF Accepts, MayAccept, RunLogSpec!Finished, memberOf
  <1>a. runs'[r] = Advanced(runs[r], e) /\ Rows(r)' = Rows(r) \cup {e}
    BY <1>1, CommitRows
  <1>6. stateOf' = stateOf /\ memberOf' = memberOf /\ closed' = closed
    <2>1. \A q \in Runs \ {r} : runs'[q] = runs[q]
      BY CommitRows
    <2>2. runs[r].status \in Open /\ runs'[r].status \in Open
      BY <1>2, <1>a DEF Accepts, Advanced, Open
    <2>3. \A q \in Runs : stateOf'[q] = stateOf[q]
      BY <2>1, <2>2 DEF stateOf, Open
    <2>4. stateOf' = stateOf
      BY <2>3 DEF stateOf
    <2> QED  BY <2>4 DEF AppendCommit, memberOf, MissionsOf
  <1>7. ASSUME NEW q \in Runs, q # r
        PROVE  logOf'[q] = logOf[q]
    <2>1. Rows(q)' = Rows(q) /\ runs'[q] = runs[q]
      BY <1>7, CommitRows
    <2> QED  BY <2>1 DEF logOf
  <1>8. logOf'[r] = Append(logOf[r], e.id)
    <2>1. Len(logOf[r]) = n /\ logOf[r] \in Seq(EventIds)
      BY <1>1, LogLength
    <2>2. Len(logOf'[r]) = n + 1 /\ logOf'[r] \in Seq(EventIds)
      <3>1. runs'[r].count = n + 1
        BY <1>a DEF Advanced
      <3>2. /\ logOf'[r] \in Seq(EventIds)
            /\ Len(logOf'[r]) = runs'[r].count
        BY <1>1, LogFactsNext DEF LogFacts
      <3> QED  BY <3>1, <3>2
    <2>3. ASSUME NEW i \in 1..(n + 1)
          PROVE  logOf'[r][i] = Append(logOf[r], e.id)[i]
      <3>1. CASE i = n + 1
        <4>1. e \in Rows(r)'
          BY <1>a
        <4>2. logOf'[r][e.seq + 1] = e.id
          BY <1>1, <4>1, LogFactsNext DEF LogFacts
        <4> QED  BY <1>1, <2>1, <3>1, <4>2
      <3>2. CASE i # n + 1
        <4>1. i \in 1..n
          BY <1>1, <3>2
        <4>2. PICK f \in Rows(r) : f.seq = i - 1
          BY <1>1, <4>1, EventAt
        <4>3. logOf[r][i] = f.id
          BY <1>1, <4>1, <4>2, LogEntry
        <4>4. f \in Rows(r)'
          BY <1>a, <4>2
        <4>5. logOf'[r][i] = f.id
          BY <1>1, <4>1, <4>2, <4>4, LogFactsNext DEF LogFacts
        <4> QED  BY <2>1, <4>1, <4>3, <4>5
      <3> QED  BY <3>1, <3>2
    <2>4. Append(logOf[r], e.id) \in Seq(EventIds)
             /\ Len(Append(logOf[r], e.id)) = n + 1
      BY <1>1, <2>1
    <2>5. \A i \in 1..(n + 1) : logOf'[r][i] = Append(logOf[r], e.id)[i]
      BY <2>3
    <2>6. n + 1 \in Nat
      BY <1>1
    <2> DEFINE new == logOf'[r]
               old == Append(logOf[r], e.id)
               k == n + 1
    <2>7. new \in Seq(EventIds) /\ old \in Seq(EventIds) /\ Len(new) = k /\ Len(old) = k
             /\ k \in Nat /\ \A i \in 1..k : new[i] = old[i]
      BY <2>2, <2>4, <2>5, <2>6
    <2>8. new = old
      <3> HIDE DEF new, old, k
      <3> QED  BY <2>7, SameSeq
    <2> QED  BY <2>8
  <1>9. logOf' = [logOf EXCEPT ![r] = Append(@, e.id)]
    BY <1>7, <1>8 DEF logOf
  <1> QED  BY <1>3, <1>4, <1>5, <1>6, <1>9 DEF RunLogSpec!Extend

-----------------------------------------------------------------------------
(* The theorem *)

LEMMA InitMaps == Init => RunLogSpec!Init
  <1> SUFFICES ASSUME Init PROVE RunLogSpec!Init
    OBVIOUS
  <1>1. \A r \in Runs : runs[r] = NoRun
    BY DEF Init
  <1>2. stateOf = [r \in Runs |-> "absent"]
    BY <1>1 DEF stateOf, NoRun
  <1>4. memberOf = [r \in Runs |-> {}] /\ closed = {}
    BY DEF Init, memberOf, MissionsOf
  <1>3. logOf = [r \in Runs |-> <<>>]
    BY <1>1 DEF logOf, LogFrom, NoRun
  <1> QED  BY <1>2, <1>3, <1>4 DEF RunLogSpec!Init

LEMMA NextMaps ==
  Ledger /\ Ledger' /\ [Next]_vars => [RunLogSpec!Next]_RunLogSpec!vars
  <1> SUFFICES ASSUME Ledger, Ledger', [Next]_vars
               PROVE  RunLogSpec!Next \/ UNCHANGED RunLogSpec!vars
    OBVIOUS
  <1> USE BoundsAssumption
  <1>1. ASSUME NEW p \in Procs, NEW r \in Runs, NEW m \in Naming \cup {None}, Start(p, r, m)
        PROVE  RunLogSpec!Next
    BY <1>1, StartMaps DEF RunLogSpec!Next
  <1>2. ASSUME NEW p \in Procs, NEW r \in Runs, MarkIdle(p, r)
        PROVE  UNCHANGED RunLogSpec!vars
    BY <1>2, IdleMaps
  <1>3. ASSUME NEW p \in Procs, NEW r \in Runs, NEW st \in Terminal, Complete(p, r, st)
        PROVE  RunLogSpec!Next
    BY <1>3, CompleteMaps DEF RunLogSpec!Next
  <1>4. ASSUME NEW m \in Anchoring, CloseMission(m)
        PROVE  RunLogSpec!Next
    BY <1>4, CloseMaps DEF RunLogSpec!Next
  <1>5. ASSUME NEW p \in Procs, AppendCommit(p)
        PROVE  RunLogSpec!Next
    <2>1. pc[p] = "written" /\ call[p].run \in Runs /\ call[p].id \in EventIds
      BY <1>5 DEF AppendCommit, Ledger, Shape, CallShape, Appending
    <2> QED  BY <1>5, <2>1, CommitFacts, CommitMaps DEF RunLogSpec!Next, Ledger, EventRow
  <1>6. ASSUME UNCHANGED <<runs, events, closed, named, attached>>
        PROVE  UNCHANGED RunLogSpec!vars
    BY <1>6 DEF RunLogSpec!vars, logOf, stateOf, memberOf, MissionsOf, Rows
  <1>7. ASSUME NEW r \in Runs, NEW m \in Missions \cup {None},
               (m \in Anchoring /\ Attach(r, m)) \/ Rename(r, m)
        PROVE  RunLogSpec!Next
    BY <1>7, JoinMaps DEF RunLogSpec!Next
  <1> QED
    BY <1>1, <1>2, <1>3, <1>4, <1>5, <1>6, <1>7
       DEF Next, AppendStep, AppendCall, AppendRead, AppendRefuse, AppendWrite, AppendDuplicate,
           AppendRetry, AppendExhausted, AppendReturn, AppendCancel, ReadRun, ReadStep,
           ReadEvents, Bundled, Crash, vars

\* Concurrent writers, retries and crashes implement one append-only log per
\* run: it is final once the run has a terminal status, and it does not grow
\* while all missions that the run belongs to, by its checkpoints and by its
\* metadata, are completed (store.go 219-394).
THEOREM LedgerImplementsRunLog == Spec => ImplementsRunLog
  <1>1. Init => RunLogSpec!Init
    BY InitMaps
  <1>2. Ledger /\ Ledger' /\ [Next]_vars => [RunLogSpec!Next]_RunLogSpec!vars
    BY NextMaps
  <1> QED  BY <1>1, <1>2, LedgerInvariant, PTL DEF Spec, ImplementsRunLog, RunLogSpec!Spec

-----------------------------------------------------------------------------
(* Untransactional readers *)

\* All rows of a verified run lie below its count.
LEMMA RowsBelowCount ==
  ASSUME Ledger, NEW r \in Runs
  PROVE  {e \in Rows(r) : e.seq < runs[r].count} = Rows(r)
  <1>1. \A e \in Rows(r) : e.seq + 1 \in 1..runs[r].count
    BY LogEntry
  <1>2. runs[r].count \in Nat /\ \A e \in Rows(r) : e.seq \in Nat
    BY LogLength DEF Rows, Ledger, Shape, TypeOK, EventRow
  <1>3. \A e \in Rows(r) : e.seq < runs[r].count
    BY <1>1, <1>2
  <1> QED  BY <1>3

\* A step changes no row below a count that was read before it.
LEMMA PrefixKept ==
  ASSUME Ledger, [Next]_vars, NEW r \in Runs, NEW n \in Nat, n <= runs[r].count
  PROVE  /\ n <= runs'[r].count
         /\ {e \in Rows(r)' : e.seq < n} = {e \in Rows(r) : e.seq < n}
  <1> USE DEF Ledger
  <1>1. runs[r].count \in Nat
    BY LogLength
  <1>2. CASE ChainKept
    BY <1>1, <1>2 DEF ChainKept, Rows
  <1>3. CASE \E p \in Procs : AppendCommit(p)
    <2>1. PICK p \in Procs : AppendCommit(p)
      BY <1>3
    <2>2. NewEvent(p).seq = runs[call[p].run].count
      BY <2>1, CommitFacts
    <2>3. CASE r = call[p].run
      <3>1. Rows(r)' = Rows(r) \cup {NewEvent(p)} /\ runs'[r] = Advanced(runs[r], NewEvent(p))
        BY <2>1, <2>3, CommitRows
      <3>2. ~(NewEvent(p).seq < n)
        BY <1>1, <2>2, <2>3
      <3>3. runs'[r].count = runs[r].count + 1
        BY <3>1 DEF Advanced
      <3> QED  BY <1>1, <3>1, <3>2, <3>3
    <2>4. CASE r # call[p].run
      BY <1>1, <2>1, <2>4, CommitRows
    <2> QED  BY <2>3, <2>4
  <1> QED  BY <1>2, <1>3, NextChain

\* How a process comes to be inside Verify or Bundle.
Stays(q) == pc'[q] = pc[q] /\ UNCHANGED <<call[q], snap[q], bundle[q]>>

LEMMA ReaderMoves ==
  ASSUME Ledger, [Next]_vars, NEW q \in Procs, pc'[q] \in Reading
  PROVE  \/ Stays(q)
         \/ pc'[q] = "reading" /\ \E r \in Runs : ReadRun(q, r)
         \/ pc'[q] = "bundled" /\ ReadEvents(q)
  <1> USE DEF Ledger, Shape, TypeOK, Stays, Reading
  <1>1. CASE UNCHANGED callVars
    BY <1>1 DEF callVars
  <1>2. ASSUME NEW p \in Procs, \/ AppendRefuse(p) \/ AppendDuplicate(p) \/ AppendExhausted(p)
                                \/ AppendCancel(p) \/ AppendReturn(p) \/ Bundled(p) \/ Crash(p)
        PROVE  Stays(q)
    <2>1. Return(p)
      BY <1>2 DEF AppendRefuse, AppendDuplicate, AppendExhausted, AppendCancel, AppendReturn,
                  Bundled, Crash
    <2> QED  BY <2>1, ReturnOthers
  <1>3. ASSUME NEW p \in Procs,
               \/ AppendRead(p) \/ AppendRetry(p) \/ AppendCommit(p)
               \/ \E id \in EventIds : AppendWrite(p, id)
               \/ \E r \in Runs, id \in CallerIds \cup {None} : AppendCall(p, r, id)
        PROVE  Stays(q)
    BY <1>3 DEF AppendRead, AppendWrite, AppendRetry, AppendCommit, AppendCall
  <1>4. ASSUME NEW p \in Procs, NEW r \in Runs, ReadRun(p, r)
        PROVE  Stays(q) \/ (pc'[q] = "reading" /\ ReadRun(q, r))
    BY <1>4 DEF ReadRun
  <1>5. ASSUME NEW p \in Procs, ReadEvents(p)
        PROVE  Stays(q) \/ (pc'[q] = "bundled" /\ ReadEvents(q))
    BY <1>5 DEF ReadEvents
  <1> QED
    BY <1>1, <1>2, <1>3, <1>4, <1>5
       DEF Next, AppendStep, ReadStep, Start, MarkIdle, Complete, CloseMission, Attach, Rename, vars

LEMMA NextReader == Ledger /\ ReaderPrefix /\ [Next]_vars => ReaderPrefix'
  <1> SUFFICES ASSUME Ledger, ReaderPrefix, [Next]_vars,
                      NEW q \in Procs, NEW r, r = call'[q].run, NEW s, s = snap'[q]
               PROVE  /\ pc'[q] = "reading" =>
                            /\ s.count <= runs'[r].count
                            /\ VerifyBundle(r, s, {e \in Rows(r)' : e.seq < s.count})
                      /\ pc'[q] = "bundled" =>
                            VerifyBundle(r, s, {e \in bundle'[q] : e.seq < s.count})
    BY DEF ReaderPrefix, VerifyBundle, Rows
  <1> USE DEF Ledger, Shape, TypeOK
  <1>1. CASE pc'[q] = "reading" /\ Stays(q)
    <2>1. r \in Runs /\ r = call[q].run /\ s = snap[q] /\ s.count \in Nat
      BY <1>1 DEF Stays, CallShape, Reading, RunRow
    <2>2. /\ s.count <= runs[r].count
          /\ VerifyBundle(r, s, {e \in Rows(r) : e.seq < s.count})
      BY <1>1, <2>1 DEF Stays, ReaderPrefix
    <2> QED  BY <1>1, <2>1, <2>2, PrefixKept
  <1>2. ASSUME pc'[q] = "reading", NEW x \in Runs, ReadRun(q, x)
        PROVE  /\ s.count <= runs'[r].count
               /\ VerifyBundle(r, s, {e \in Rows(r)' : e.seq < s.count})
    <2>1. r = x /\ s = runs[x] /\ UNCHANGED <<runs, events>>
      BY <1>2 DEF ReadRun
    <2>2. VerifyBundle(x, runs[x], Rows(x))
      BY DEF ChainVerifies
    <2>3. Rows(r)' = Rows(x)
      BY <2>1 DEF Rows
    <2>4. runs[x].count \in Nat
      BY LogLength
    <2>5. {e \in Rows(r)' : e.seq < s.count} = Rows(x)
      BY <2>1, <2>3, RowsBelowCount
    <2>6. s.count <= runs'[r].count
      BY <2>1, <2>4
    <2> QED  BY <2>1, <2>2, <2>5, <2>6
  <1>3. CASE pc'[q] = "bundled" /\ Stays(q)
    BY <1>3 DEF Stays, ReaderPrefix
  <1>4. ASSUME ReadEvents(q)
        PROVE  VerifyBundle(r, s, {e \in bundle'[q] : e.seq < s.count})
    <2>1. /\ pc[q] = "reading" /\ call[q].run = r /\ snap[q] = s
          /\ bundle'[q] = Rows(r)
      BY <1>4 DEF ReadEvents
    <2> QED  BY <2>1 DEF ReaderPrefix
  <1> QED  BY <1>1, <1>2, <1>3, <1>4, ReaderMoves DEF Reading

\* Verify and Bundle read the run and its events with two statements
\* (store.go 452-474); whatever commits in between, the events up to the count
\* they read form a chain that verifies.
THEOREM BundledPrefixSafe == Spec => []BundledPrefixVerifies
  <1>1. Init => ReaderPrefix
    BY DEF Init, ReaderPrefix
  <1>2. ReaderPrefix => BundledPrefixVerifies
    BY DEF ReaderPrefix, BundledPrefixVerifies
  <1> QED  BY <1>1, <1>2, LedgerInvariant, NextReader, PTL DEF Spec

-----------------------------------------------------------------------------
(* One history *)

\* What a reader returned is still there, up to the count it declared.
BundleStored ==
    \A p \in Procs :
        pc[p] = "bundled" =>
            /\ snap[p].count <= runs[call[p].run].count
            /\ {e \in bundle[p] : e.seq < snap[p].count} =
               {e \in Rows(call[p].run) : e.seq < snap[p].count}

LEMMA NextBundles == Ledger /\ ReaderPrefix /\ BundleStored /\ [Next]_vars => BundleStored'
  <1> SUFFICES ASSUME Ledger, ReaderPrefix, BundleStored, [Next]_vars,
                      NEW q \in Procs, pc'[q] = "bundled",
                      NEW r, r = call'[q].run, NEW n, n = snap'[q].count
               PROVE  /\ n <= runs'[r].count
                      /\ {e \in bundle'[q] : e.seq < n} = {e \in Rows(r)' : e.seq < n}
    BY DEF BundleStored, Rows
  <1> USE DEF Ledger, Shape, TypeOK
  <1>1. CASE Stays(q)
    <2>1. r \in Runs /\ r = call[q].run /\ n = snap[q].count /\ n \in Nat
      BY <1>1 DEF Stays, CallShape, Reading, RunRow
    <2>2. n <= runs[r].count /\ {e \in bundle[q] : e.seq < n} = {e \in Rows(r) : e.seq < n}
      BY <1>1, <2>1 DEF Stays, BundleStored
    <2> QED  BY <1>1, <2>1, <2>2, PrefixKept DEF Stays
  <1>2. CASE ReadEvents(q)
    <2>1. /\ pc[q] = "reading" /\ r = call[q].run /\ n = snap[q].count
          /\ bundle'[q] = Rows(r) /\ UNCHANGED <<runs, events>>
      BY <1>2 DEF ReadEvents
    <2> QED  BY <2>1 DEF ReaderPrefix, Rows
  <1> QED  BY <1>1, <1>2, ReaderMoves DEF Reading

LEMMA BundleInvariant == Spec => [](Ledger /\ ReaderPrefix /\ BundleStored)
  <1>1. Init => ReaderPrefix /\ BundleStored
    BY DEF Init, ReaderPrefix, BundleStored
  <1> QED  BY <1>1, LedgerInvariant, NextReader, NextBundles, PTL DEF Spec

\* Bundles of one run never contradict each other (store.go 452-474), however
\* many appends, completions and crashes lie between the exports.
THEOREM OneHistory == Spec => []BundlesAgree
  <1>1. ASSUME Ledger, BundleStored, NEW p \in Procs, NEW q \in Procs,
               pc[p] = "bundled", pc[q] = "bundled", call[p] = call[q],
               snap[p].count <= snap[q].count
        PROVE  {e \in bundle[p] : e.seq < snap[p].count} =
               {e \in bundle[q] : e.seq < snap[p].count}
    <2> DEFINE n == snap[p].count
               m == snap[q].count
               r == call[p].run
    <2>1. n \in Nat /\ m \in Nat /\ n <= m
      BY <1>1 DEF Ledger, Shape, CallShape, Reading, RunRow
    <2>2. \A e \in bundle[q] \cup Rows(r) : e.seq \in Nat
      <3>1. bundle[q] \subseteq EventRow /\ Rows(r) \subseteq EventRow
        BY <1>1 DEF Ledger, Shape, TypeOK, Rows
      <3>2. \A e \in EventRow : e.seq \in Nat
        BY DEF EventRow
      <3> QED  BY <3>1, <3>2
    <2>3. {e \in bundle[p] : e.seq < n} = {e \in Rows(r) : e.seq < n}
      BY <1>1 DEF BundleStored
    <2>4. {e \in bundle[q] : e.seq < m} = {e \in Rows(r) : e.seq < m}
      BY <1>1 DEF BundleStored
    <2>5. {e \in bundle[q] : e.seq < n} = {e \in Rows(r) : e.seq < n}
      <3> HIDE DEF n, m, r
      <3> QED  BY <2>1, <2>2, <2>4
    <2> QED  BY <2>3, <2>5
  <1>2. Ledger /\ BundleStored => BundlesAgree
    BY <1>1 DEF BundlesAgree
  <1> QED  BY <1>2, BundleInvariant, PTL

\* Every bundle contains a verifying history of the length it declares, and any
\* two of them the same one (store.go 452-474).
COROLLARY BundlesAreSound == Spec => []BundlesSound
  <1>1. BundledPrefixVerifies /\ BundlesAgree => BundlesSound
    BY DEF BundlesSound
  <1> QED  BY <1>1, BundledPrefixSafe, OneHistory, PTL

\* No step of any process changes or removes what a run's row counts: histories
\* are extended and never rewritten, so the prefix that a checkpoint anchored
\* (continuity.go 429-463) is the same for ever.
HistoryExtended ==
    \A r \in Runs : /\ runs[r].count <= runs'[r].count
                    /\ {e \in Rows(r)' : e.seq < runs[r].count} = Rows(r)

\* Every step only extends the runs (store.go 219-394, 452-474).
THEOREM HistoryOnlyExtended == Spec => [][HistoryExtended]_vars
  <1>1. ASSUME Ledger, [Next]_vars, NEW r \in Runs
        PROVE  /\ runs[r].count <= runs'[r].count
               /\ {e \in Rows(r)' : e.seq < runs[r].count} = Rows(r)
    <2>1. runs[r].count \in Nat
      BY <1>1, LogLength
    <2>2. {e \in Rows(r)' : e.seq < runs[r].count} = {e \in Rows(r) : e.seq < runs[r].count}
             /\ runs[r].count <= runs'[r].count
      BY <1>1, <2>1, PrefixKept
    <2> QED  BY <1>1, <2>2, RowsBelowCount
  <1>2. Ledger /\ [Next]_vars => HistoryExtended
    BY <1>1 DEF HistoryExtended
  <1> QED  BY <1>2, LedgerInvariant, PTL DEF Spec

-----------------------------------------------------------------------------
(* What the ledger inherits from RunLog *)

\* Facts about RunLog, for any logs and gates.
LogTypes == logOf \in [Runs -> Seq(EventIds)]

LEMMA ExtendOnce ==
  ASSUME LogTypes, RunLogSpec!EachOnce, NEW r \in Runs, NEW id \in EventIds,
         RunLogSpec!Extend(r, id)
  PROVE  LogTypes' /\ RunLogSpec!EachOnce'
  <1> DEFINE n == Len(logOf[r])
  <1>1. id \notin RunLogSpec!Logged /\ logOf' = [logOf EXCEPT ![r] = Append(logOf[r], id)]
    BY DEF RunLogSpec!Extend
  <1>2. LogTypes'
    BY <1>1 DEF LogTypes
  <1>3. /\ logOf[r] \in Seq(EventIds) /\ n \in Nat
        /\ logOf'[r] = Append(logOf[r], id)
        /\ \A s \in Runs \ {r} : logOf'[s] = logOf[s]
    BY <1>1 DEF LogTypes
  <1>4. /\ DOMAIN logOf[r] = 1..n /\ DOMAIN logOf'[r] = 1..(n + 1)
        /\ \A i \in 1..n : logOf'[r][i] = logOf[r][i]
        /\ logOf'[r][n + 1] = id
    BY <1>3
  <1>5. \A s \in Runs : \A i \in DOMAIN logOf[s] : logOf[s][i] # id
    BY <1>1 DEF RunLogSpec!Logged, RunLogSpec!RangeOf
  <1>6. ASSUME NEW s \in Runs, NEW i \in DOMAIN logOf'[s]
        PROVE  \/ s = r /\ i = n + 1 /\ logOf'[s][i] = id
               \/ i \in DOMAIN logOf[s] /\ logOf'[s][i] = logOf[s][i]
    <2>1. CASE s = r
      BY <1>3, <1>4, <2>1
    <2>2. CASE s # r
      BY <1>3, <2>2
    <2> QED  BY <2>1, <2>2
  <1>7. ASSUME NEW s \in Runs, NEW t \in Runs,
               NEW i \in DOMAIN logOf'[s], NEW j \in DOMAIN logOf'[t],
               logOf'[s][i] = logOf'[t][j]
        PROVE  s = t /\ i = j
    <2> HIDE DEF n
    <2> QED  BY <1>5, <1>6, <1>7 DEF RunLogSpec!EachOnce
  <1>8. RunLogSpec!EachOnce'
    BY <1>7 DEF RunLogSpec!EachOnce
  <1> QED  BY <1>2, <1>8

LEMMA LogOnce ==
  LogTypes /\ RunLogSpec!EachOnce /\ [RunLogSpec!Next]_RunLogSpec!vars =>
      LogTypes' /\ RunLogSpec!EachOnce'
  <1> SUFFICES ASSUME LogTypes, RunLogSpec!EachOnce, [RunLogSpec!Next]_RunLogSpec!vars
               PROVE  LogTypes' /\ RunLogSpec!EachOnce'
    OBVIOUS
  <1>1. CASE logOf' = logOf
    BY <1>1 DEF LogTypes, RunLogSpec!EachOnce
  <1>2. CASE \E r \in Runs, id \in EventIds : RunLogSpec!Extend(r, id)
    BY <1>2, ExtendOnce
  <1> QED  BY <1>1, <1>2 DEF RunLogSpec!Next, RunLogSpec!vars, RunLogSpec!Create, RunLogSpec!Seal,
                             RunLogSpec!Join, RunLogSpec!Finish

\* An identifier names one event of one run, in the whole ledger and for ever:
\* two processes that append the same identifier at once, to one run or to two,
\* store it once (events.event_id, store.go 308-318).
THEOREM IdentifiersUnique == Spec => []RunLogSpec!EachOnce
  <1>1. RunLogSpec!Init => LogTypes /\ RunLogSpec!EachOnce
    BY DEF RunLogSpec!Init, LogTypes, RunLogSpec!EachOnce
  <1> QED  BY <1>1, LogOnce, LedgerImplementsRunLog, PTL DEF ImplementsRunLog, RunLogSpec!Spec

\* Two seals of a run's history.  A terminal status is final, although an append
\* may have read the run before (store.go 258-264, 384-394).  The completion of
\* its missions holds as long as all missions of the run are completed, and ends
\* only when a checkpoint or the collector gives the run another one
\* (store.go 265-272).
THEOREM SealedRunsFinal == Spec => RunLogSpec!SealedFinal
  <1>1. ASSUME NEW r \in Runs, RunLogSpec!Next
        PROVE  /\ stateOf[r] = "sealed" => logOf'[r] = logOf[r] /\ stateOf'[r] = "sealed"
               /\ RunLogSpec!Finished(r) =>
                      /\ logOf'[r] = logOf[r]
                      /\ memberOf'[r] = memberOf[r] => RunLogSpec!Finished(r)'
    <2>0. closed \subseteq closed' => \/ memberOf'[r] # memberOf[r]
                                      \/ RunLogSpec!Finished(r) => RunLogSpec!Finished(r)'
      BY DEF RunLogSpec!Finished
    <2>1. ASSUME NEW q \in Runs, NEW id \in EventIds, RunLogSpec!Extend(q, id)
          PROVE  /\ closed' = closed /\ stateOf'[r] = stateOf[r]
                 /\ stateOf[r] = "sealed" \/ RunLogSpec!Finished(r) => logOf'[r] = logOf[r]
      <3>1. /\ logOf' = [logOf EXCEPT ![q] = Append(logOf[q], id)]
            /\ stateOf[q] = "open" /\ ~RunLogSpec!Finished(q)
            /\ stateOf' = stateOf /\ closed' = closed
        BY <2>1 DEF RunLogSpec!Extend
      <3>2. r # q => logOf'[r] = logOf[r]
        BY <3>1 DEF logOf
      <3> QED  BY <3>1, <3>2
    <2>2. ASSUME NEW q \in Runs, RunLogSpec!Seal(q)
          PROVE  /\ closed' = closed /\ logOf' = logOf
                 /\ stateOf[r] = "sealed" => stateOf'[r] = "sealed"
      <3>1. stateOf' = [stateOf EXCEPT ![q] = "sealed"] /\ stateOf[q] = "open"
        BY <2>2 DEF RunLogSpec!Seal
      <3>2. r # q => stateOf'[r] = stateOf[r]
        BY <3>1 DEF stateOf
      <3> QED  BY <2>2, <3>1, <3>2 DEF RunLogSpec!Seal
    <2>3. ASSUME NEW q \in Runs, NEW ms \in SUBSET Missions, RunLogSpec!Create(q, ms)
          PROVE  /\ closed' = closed /\ logOf' = logOf
                 /\ stateOf[r] = "sealed" => stateOf'[r] = "sealed"
      <3>1. stateOf' = [stateOf EXCEPT ![q] = "open"] /\ stateOf[q] = "absent"
        BY <2>3 DEF RunLogSpec!Create
      <3>2. r # q => stateOf'[r] = stateOf[r]
        BY <3>1 DEF stateOf
      <3> QED  BY <2>3, <3>1, <3>2 DEF RunLogSpec!Create
    <2>4. ASSUME \/ \E q \in Runs, ms \in SUBSET Missions : RunLogSpec!Join(q, ms)
                 \/ \E m \in Missions : RunLogSpec!Finish(m)
          PROVE  closed \subseteq closed' /\ logOf' = logOf /\ stateOf' = stateOf
      BY <2>4 DEF RunLogSpec!Join, RunLogSpec!Finish
    <2> QED  BY <1>1, <2>0, <2>1, <2>2, <2>3, <2>4 DEF RunLogSpec!Next
  <1>2. [RunLogSpec!Next]_RunLogSpec!vars =>
            [\A r \in Runs :
                /\ stateOf[r] = "sealed" => logOf'[r] = logOf[r] /\ stateOf'[r] = "sealed"
                /\ RunLogSpec!Finished(r) =>
                      /\ logOf'[r] = logOf[r]
                      /\ memberOf'[r] = memberOf[r] => RunLogSpec!Finished(r)']_RunLogSpec!vars
    BY <1>1
  <1> QED  BY <1>2, LedgerImplementsRunLog, PTL
           DEF ImplementsRunLog, RunLogSpec!Spec, RunLogSpec!SealedFinal

-----------------------------------------------------------------------------
(* Calls are bounded *)

\* The locals of every other process.
LEMMA LocalsOfOthers ==
  ASSUME Shape, NEW p \in Procs, NEW q \in Procs, q # p,
         \/ AppendStep(p) \/ AppendCancel(p) \/ ReadStep(p) \/ Crash(p)
         \/ \E r \in Runs, id \in CallerIds \cup {None} : AppendCall(p, r, id)
         \/ \E r \in Runs : ReadRun(p, r)
  PROVE  UNCHANGED <<pc[q], call[q], attempt[q], snap[q], bundle[q]>>
  <1> USE DEF Shape, TypeOK
  <1>1. CASE Return(p)
    BY <1>1 DEF Return
  <1> QED
    BY <1>1 DEF AppendStep, AppendRead, AppendRefuse, AppendWrite, AppendDuplicate, AppendRetry,
                AppendExhausted, AppendCommit, AppendReturn, AppendCancel, ReadStep, ReadEvents,
                Bundled, Crash, AppendCall, ReadRun

LEMMA StepsDecrease ==
  ASSUME Shape, NEW p \in Procs, pc[p] # "ready",
         AppendStep(p) \/ AppendCancel(p) \/ ReadStep(p) \/ Crash(p)
  PROVE  StepsLeft(p)' < StepsLeft(p)
  <1> USE AttemptsAssumption DEF Shape, TypeOK
  <1>1. attempt[p] \in Nat /\ attempt[p] <= MaxAttempts /\ MaxAttempts \in Nat
    OBVIOUS
  <1>2. StepsLeft(p) \in Nat \ {0}
    BY <1>1 DEF StepsLeft
  <1>3. CASE Return(p)
    <2>1. pc'[p] = "ready"
      BY <1>3 DEF Return
    <2>2. StepsLeft(p)' = 0
      BY <2>1 DEF StepsLeft
    <2> QED  BY <1>2, <2>2
  <1>4. CASE AppendRead(p)
    <2>1. pc[p] = "begin" /\ pc'[p] = "read" /\ attempt'[p] = attempt[p]
      BY <1>4 DEF AppendRead
    <2> QED  BY <1>1, <2>1 DEF StepsLeft
  <1>5. CASE AppendRetry(p)
    <2>1. pc[p] = "read" /\ pc'[p] = "begin" /\ attempt'[p] = attempt[p] + 1
      BY <1>5 DEF AppendRetry
    <2> QED  BY <1>1, <2>1 DEF StepsLeft
  <1>6. CASE \E id \in EventIds : AppendWrite(p, id)
    <2>1. pc[p] = "read" /\ pc'[p] = "written"
      BY <1>6 DEF AppendWrite
    <2> QED  BY <1>1, <2>1 DEF StepsLeft
  <1>7. CASE AppendCommit(p)
    <2>1. pc[p] = "written" /\ pc'[p] = "committed"
      BY <1>7 DEF AppendCommit
    <2> QED  BY <2>1 DEF StepsLeft
  <1>8. CASE ReadEvents(p)
    <2>1. pc[p] = "reading" /\ pc'[p] = "bundled"
      BY <1>8 DEF ReadEvents
    <2> QED  BY <2>1 DEF StepsLeft
  <1> QED
    BY <1>3, <1>4, <1>5, <1>6, <1>7, <1>8
       DEF AppendStep, AppendRefuse, AppendDuplicate, AppendExhausted, AppendReturn,
           AppendCancel, ReadStep, Bundled, Crash

\* A call of Append, Verify or Bundle takes at most 2 * MaxAttempts + 2 steps of
\* its own (store.go 238-256): the part of CallsReturn that needs no fairness.
THEOREM CallsAreBounded == Spec => CallsBounded
  <1>1. ASSUME Shape, [Next]_vars, NEW q \in Procs, pc[q] # "ready"
        PROVE  \/ StepsLeft(q)' < StepsLeft(q)
               \/ UNCHANGED <<pc[q], call[q], attempt[q], snap[q], bundle[q]>>
    <2>1. CASE UNCHANGED callVars
      BY <2>1 DEF callVars
    <2>2. ASSUME NEW p \in Procs,
                 \/ AppendStep(p) \/ AppendCancel(p) \/ ReadStep(p) \/ Crash(p)
                 \/ \E r \in Runs, id \in CallerIds \cup {None} : AppendCall(p, r, id)
                 \/ \E r \in Runs : ReadRun(p, r)
          PROVE  \/ StepsLeft(q)' < StepsLeft(q)
                 \/ UNCHANGED <<pc[q], call[q], attempt[q], snap[q], bundle[q]>>
      <3>1. CASE p # q
        BY <1>1, <2>2, <3>1, LocalsOfOthers
      <3>2. CASE p = q
        <4>1. AppendStep(q) \/ AppendCancel(q) \/ ReadStep(q) \/ Crash(q)
          BY <1>1, <2>2, <3>2 DEF AppendCall, ReadRun
        <4> QED  BY <1>1, <4>1, StepsDecrease
      <3> QED  BY <3>1, <3>2
    <2> QED
      BY <1>1, <2>1, <2>2 DEF Next, Start, MarkIdle, Complete, CloseMission, Attach, Rename, vars
  <1>2. Shape /\ [Next]_vars =>
            [\A p \in Procs : pc[p] # "ready" =>
                \/ StepsLeft(p)' < StepsLeft(p)
                \/ UNCHANGED <<pc[p], call[p], attempt[p], snap[p], bundle[p]>>]_vars
    BY <1>1
  <1>3. Ledger => Shape
    BY DEF Ledger
  <1> QED  BY <1>2, <1>3, LedgerInvariant, PTL DEF Spec, CallsBounded
=============================================================================
