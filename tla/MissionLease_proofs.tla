------------------------ MODULE MissionLease_proofs ------------------------
(***************************************************************************)
(* Proofs about MissionLease for any number of workers, missions, lease    *)
(* durations and retries: the types, the transaction discipline, the one   *)
(* line of ownership and what a worker may conclude from the lease it      *)
(* remembers.                                                              *)
(***************************************************************************)
EXTENDS MissionLease, TLAPS

Places == {"ready", "begin", "read", "written", "committed", "compiling"}
Inside == Places \ {"ready"}
Keeping == {"handoff", "renew", "release"}      \* the calls that name a token

\* What a worker at place l of a call has in memory: the call c, the snapshot
\* s and the row r.
Fits(l, c, s, r) ==
    /\ l \in Inside => /\ c \in Call
                       /\ c.op # "release" => c.ttl \in TTLs
                       /\ c.op # "acquire" => c.mission \in Missions
                       /\ c.op \in Keeping => c.token \in Tokens
    /\ l \in {"read", "written"} => s \in [Missions -> Mission]
    /\ l \in {"written", "committed", "compiling"} =>
          c.mission \in Missions /\ r \in LeaseRow
    /\ l = "compiling" => c.op = "acquire"

CallShape == \A p \in Procs : Fits(pc[p], call[p], snap[p], lease[p])

Shape == TypeOK /\ CallShape

\* What SQLite's snapshot rule gives a lease transaction: as long as its
\* snapshot is the newest version, and in particular once it holds the write
\* lock, the missions it has read are those of the ledger.
SnapshotCurrent ==
    \A p \in Procs :
        /\ writer = {p} <=> pc[p] = "written"
        /\ p \in fresh => pc[p] \in {"read", "written"} /\ snap[p] = missions
        /\ pc[p] = "written" => p \in fresh

\* No lease row is younger than the clock; tokens number the terms of a mission.
HistoryOrdered ==
    \A m \in Missions :
        missions[m].leases # <<>> =>
            /\ Latest(missions[m].leases).time <= now
            /\ Latest(missions[m].leases).token < Len(missions[m].leases)

\* The action of the row a call inserts.
ActionOf(op) == CASE op = "handoff" -> "handoff"
                  [] op = "renew"   -> "renewed"
                  [] op = "release" -> "released"
                  [] OTHER          -> "claimed"

\* The uncommitted row of call c is the next row of its mission in db, at an
\* instant that is not after t.
RowFits(c, row, db, t) ==
    /\ Follows(row, db[c.mission].leases)
    /\ row.time <= t
    /\ row.action = ActionOf(c.op)
    /\ row.action # "released" => row.time < row.expires
    /\ row.action = "claimed" => db[c.mission].status = "active"
    /\ c.op \in Keeping => Latest(db[c.mission].leases).token = c.token
    /\ c.op = "acquire" => AcquireAllowed(db, c.mission, row.time)

RowReady == \A p \in Procs : pc[p] = "written" => RowFits(call[p], lease[p], missions, now)

Register == SnapshotCurrent /\ HistoryOrdered /\ RowReady

\* A worker bears token k of mission m: it remembers that lease, it is inside a
\* call that names it, or it is about to return it.
BearsOf(l, c, row, b, m, k) ==
    \/ b # None /\ b.mission = m /\ b.token = k
    \/ l \in {"begin", "read", "written"} /\ c.op \in Keeping /\ c.mission = m /\ c.token = k
    \/ l \in {"committed", "compiling"} /\ c.mission = m /\ row.token = k

Bears(p, m, k) == BearsOf(pc[p], call[p], lease[p], held[p], m, k)

\* A token has been issued before it is borne, and only one worker bears it.
OneBearer ==
    \A p \in Procs : \A m \in Missions : \A k \in Tokens : Bears(p, m, k) =>
        /\ k < Len(missions[m].leases)
        /\ \A q \in Procs \ {p} : ~Bears(q, m, k)

\* The token of a handoff is not yet remembered by the worker that hands off.
HandoffPending ==
    \A p \in Procs : pc[p] = "committed" /\ call[p].op = "handoff" /\ held[p] # None =>
        ~(held[p].mission = call[p].mission /\ held[p].token = lease[p].token)

\* The lease of m with token k that is good until instant until: as long as it
\* has not run out at instant t, it is the last row of m.
Holds(db, t, m, k, until) ==
    until > t => /\ db[m].leases # <<>>
                 /\ Latest(db[m].leases).token = k
                 /\ Latest(db[m].leases).action # "released"
                 /\ Latest(db[m].leases).expires = until

Until(row) == IF row.action = "released" THEN 0 ELSE row.expires

\* What a worker remembers b, and what it is about to return, is right.
Sound(l, c, row, b, db, t) ==
    /\ b # None /\ l # "committed" => Holds(db, t, b.mission, b.token, b.until)
    /\ l \in {"committed", "compiling"} => Holds(db, t, c.mission, row.token, Until(row))

BeliefSound == \A p \in Procs : Sound(pc[p], call[p], lease[p], held[p], missions, now)

Custody == OneBearer /\ HandoffPending /\ BeliefSound

-----------------------------------------------------------------------------
(* Types *)

LEMMA CallType ==
  ASSUME NEW op \in {"claim", "acquire", "handoff", "renew", "release"},
         NEW m \in Missions \cup {None}, NEW k \in Tokens \cup {None},
         NEW ttl \in TTLs \cup {None}, NEW q \in Procs
  PROVE  [op |-> op, mission |-> m, token |-> k, ttl |-> ttl, to |-> q] \in Call
  BY DEF Call

LEMMA CallFields ==
  ASSUME NEW c \in Call
  PROVE  /\ c.op \in {"claim", "acquire", "handoff", "renew", "release"}
         /\ c.mission \in Missions \cup {None}
         /\ c.token \in Tokens \cup {None}
         /\ c.ttl \in TTLs \cup {None}
         /\ c.to \in Procs
  BY DEF Call

LEMMA RowFields ==
  ASSUME NEW row \in LeaseRow
  PROVE  /\ row.action \in Actions
         /\ row.token \in Nat
         /\ row.time \in Nat
         /\ row.expires \in Nat
  BY DEF LeaseRow, Tokens

LEMMA MissionFields ==
  ASSUME NEW mission \in Mission
  PROVE  /\ mission.status \in {"active", "completed"}
         /\ mission.updated \in Nat
         /\ mission.leases \in Seq(LeaseRow)
  BY DEF Mission

\* The last row of a lease history.
LEMMA LatestType ==
  ASSUME NEW leases \in Seq(LeaseRow), leases # <<>>
  PROVE  /\ Latest(leases) \in LeaseRow
         /\ Len(leases) \in Nat \ {0}
  BY DEF Latest

LEMMA LeasedType ==
  ASSUME NEW mission \in Mission, NEW row \in LeaseRow
  PROVE  Leased(mission, row) \in Mission
  <1>1. Append(mission.leases, row) \in Seq(LeaseRow)
    BY MissionFields
  <1> QED  BY <1>1, MissionFields, RowFields DEF Leased, Mission

LEMMA NewLeaseType ==
  ASSUME NEW action \in Actions, NEW leases \in Seq(LeaseRow), NEW t \in Nat, NEW ttl \in TTLs
  PROVE  NewLease(action, leases, t, ttl) \in LeaseRow
  <1>1. t + ttl \in Nat /\ Len(leases) \in Nat
    BY TTLAssumption
  <1>2. (IF leases = <<>> THEN None ELSE Latest(leases).token) \in Tokens \cup {None}
    BY LatestType, RowFields DEF Tokens
  <1> QED  BY <1>1, <1>2 DEF NewLease, LeaseRow, Tokens

LEMMA SameLeaseType ==
  ASSUME NEW action \in Actions, NEW leases \in Seq(LeaseRow), leases # <<>>,
         NEW t \in Nat, NEW expires \in Nat
  PROVE  SameLease(action, leases, t, expires) \in LeaseRow
  BY LatestType, RowFields DEF SameLease, LeaseRow, Tokens

LEMMA RememberType ==
  ASSUME Shape, NEW p \in Procs, pc[p] \in {"committed", "compiling"}
  PROVE  Remember(p) \in Belief
  <1>1. call[p].mission \in Missions /\ lease[p] \in LeaseRow
    BY DEF Shape, CallShape, Fits
  <1> QED  BY <1>1, RowFields DEF Remember, Belief, Tokens

LEMMA GivenUpType ==
  ASSUME Shape, NEW p \in Procs
  PROVE  GivenUp(p) \in Belief \cup {None}
  BY DEF Shape, TypeOK, GivenUp, Belief

\* What the transaction of worker p decides about mission m.
LEMMA AllowedFacts ==
  ASSUME Shape, NEW p \in Procs, pc[p] = "read", NEW m \in Missions, Allowed(p, m)
  PROVE  /\ call[p] \in Call
         /\ snap[p][m] \in Mission
         /\ call[p].op # "acquire" => m = call[p].mission
         /\ call[p].op \in {"claim", "acquire"} =>
               /\ snap[p][m].status = "active"
               /\ ~Live(snap[p][m].leases, now)
         /\ call[p].op \in Keeping => Owns(snap[p][m].leases, call[p].token, now)
         /\ call[p].op = "acquire" => AcquireAllowed(snap[p], m, now)
  <1>1. call[p] \in Call /\ snap[p] \in [Missions -> Mission]
    BY DEF Shape, CallShape, Fits, Inside, Places
  <1>2. call[p].op = "acquire" => AcquireAllowed(snap[p], m, now)
    BY DEF Allowed
  <1>3. AcquireAllowed(snap[p], m, now) =>
            snap[p][m].status = "active" /\ ~Live(snap[p][m].leases, now)
    BY DEF AcquireAllowed, Available
  <1> QED
    BY <1>1, <1>2, <1>3
       DEF Allowed, ClaimAllowed, HandoffAllowed, RenewAllowed, ReleaseAllowed, Keeping

\* The row it inserts.
LEMMA NextRowFacts ==
  ASSUME Shape, NEW p \in Procs, pc[p] = "read", NEW m \in Missions, Allowed(p, m)
  PROVE  /\ NextRow(p, m) \in LeaseRow
         /\ NextRow(p, m).action = ActionOf(call[p].op)
         /\ NextRow(p, m).time = now
         /\ NextRow(p, m).action # "released" => now < NextRow(p, m).expires
         /\ NextRow(p, m).prev = IF snap[p][m].leases = <<>> THEN None
                                 ELSE Latest(snap[p][m].leases).token
         /\ NextRow(p, m).token = IF call[p].op \in {"renew", "release"}
                                  THEN Latest(snap[p][m].leases).token
                                  ELSE Len(snap[p][m].leases)
  <1> DEFINE leases == snap[p][m].leases
             c == call[p]
  <1>1. c \in Call /\ leases \in Seq(LeaseRow) /\ now \in Nat
    BY AllowedFacts, MissionFields DEF Shape, TypeOK
  <1>2. c.op \in Keeping => leases # <<>>
    BY AllowedFacts DEF Owns, Live
  <1>3. c.op # "release" => c.ttl \in TTLs
    BY DEF Shape, CallShape, Fits, Inside, Places
  <1>4. c.op \in {"claim", "acquire", "handoff", "renew", "release"}
    BY <1>1, CallFields
  <1>5. c.op # "release" => now + c.ttl \in Nat /\ now < now + c.ttl
    <2>1. \A ttl \in TTLs : now + ttl \in Nat /\ now < now + ttl
      BY <1>1, TTLAssumption
    <2> QED  BY <1>3, <2>1
  <1> HIDE DEF leases
  <1>6. CASE c.op \in {"claim", "acquire"}
    <2>1. NextRow(p, m) = NewLease("claimed", leases, now, c.ttl)
      BY <1>6 DEF NextRow, ClaimRow, leases
    <2>2. NewLease("claimed", leases, now, c.ttl) \in LeaseRow
      BY <1>1, <1>3, <1>6, NewLeaseType DEF Actions
    <2> QED  BY <1>5, <1>6, <2>1, <2>2 DEF NewLease, ActionOf, leases
  <1>7. CASE c.op = "handoff"
    <2>1. NextRow(p, m) = NewLease("handoff", leases, now, c.ttl)
      BY <1>7 DEF NextRow, HandoffRow, leases
    <2>2. NewLease("handoff", leases, now, c.ttl) \in LeaseRow
      BY <1>1, <1>3, <1>7, NewLeaseType DEF Actions
    <2> QED  BY <1>5, <1>7, <2>1, <2>2 DEF NewLease, ActionOf, leases
  <1>8. CASE c.op = "renew"
    <2>1. NextRow(p, m) = SameLease("renewed", leases, now, now + c.ttl)
      BY <1>8 DEF NextRow, RenewRow, leases
    <2>2. SameLease("renewed", leases, now, now + c.ttl) \in LeaseRow
      BY <1>1, <1>2, <1>5, <1>8, SameLeaseType DEF Actions, Keeping
    <2> QED  BY <1>2, <1>5, <1>8, <2>1, <2>2 DEF SameLease, ActionOf, leases, Keeping
  <1>9. CASE c.op = "release"
    <2>1. NextRow(p, m) = SameLease("released", leases, now, Latest(leases).expires)
      BY <1>9 DEF NextRow, ReleaseRow, leases
    <2>2. SameLease("released", leases, now, Latest(leases).expires) \in LeaseRow
      BY <1>1, <1>2, <1>9, SameLeaseType, LatestType, RowFields DEF Actions, Keeping
    <2> QED  BY <1>2, <1>9, <2>1, <2>2 DEF SameLease, ActionOf, leases, Keeping
  <1> QED  BY <1>4, <1>6, <1>7, <1>8, <1>9

\* One worker moves to place l with call c, attempt a, snapshot s and row r.
LEMMA Moves ==
  ASSUME Shape, NEW p \in Procs, NEW l \in Places, NEW c \in Call \cup {None},
         NEW a \in 0..MaxAttempts, NEW s \in [Missions -> Mission] \cup {None},
         NEW r \in LeaseRow \cup {None}, Fits(l, c, s, r),
         pc' = [pc EXCEPT ![p] = l], call' = [call EXCEPT ![p] = c],
         attempt' = [attempt EXCEPT ![p] = a], snap' = [snap EXCEPT ![p] = s],
         lease' = [lease EXCEPT ![p] = r],
         missions' \in [Missions -> Mission], now' \in Nat,
         held' \in [Procs -> Belief \cup {None}], TxTypeOK'
  PROVE  Shape'
  <1>1. TypeOK'
    BY DEF Shape, TypeOK, Places
  <1>2. ASSUME NEW q \in Procs
        PROVE  Fits(pc'[q], call'[q], snap'[q], lease'[q])
    BY DEF Shape, TypeOK, CallShape
  <1> QED  BY <1>1, <1>2 DEF Shape, CallShape

\* What a worker does not touch, in the form Moves asks for.
LEMMA Untouched ==
  ASSUME Shape, NEW p \in Procs
  PROVE  /\ call = [call EXCEPT ![p] = call[p]] /\ call[p] \in Call \cup {None}
         /\ attempt = [attempt EXCEPT ![p] = attempt[p]] /\ attempt[p] \in 0..MaxAttempts
         /\ snap = [snap EXCEPT ![p] = snap[p]]
         /\ snap[p] \in [Missions -> Mission] \cup {None}
         /\ lease = [lease EXCEPT ![p] = lease[p]] /\ lease[p] \in LeaseRow \cup {None}
         /\ missions \in [Missions -> Mission]
         /\ now \in Nat
         /\ held \in [Procs -> Belief \cup {None}]
         /\ TxTypeOK
         /\ Fits(pc[p], call[p], snap[p], lease[p])
  BY DEF Shape, TypeOK, CallShape

LEMMA UntouchedNext ==
  ASSUME Shape, NEW p \in Procs
  PROVE  /\ UNCHANGED call => call' = [call EXCEPT ![p] = call[p]]
         /\ UNCHANGED attempt => attempt' = [attempt EXCEPT ![p] = attempt[p]]
         /\ UNCHANGED snap => snap' = [snap EXCEPT ![p] = snap[p]]
         /\ UNCHANGED lease => lease' = [lease EXCEPT ![p] = lease[p]]
         /\ UNCHANGED missions => missions' \in [Missions -> Mission]
         /\ UNCHANGED now => now' \in Nat
         /\ UNCHANGED held => held' \in [Procs -> Belief \cup {None}]
         /\ call[p] \in Call \cup {None}
         /\ attempt[p] \in 0..MaxAttempts
         /\ snap[p] \in [Missions -> Mission] \cup {None}
         /\ lease[p] \in LeaseRow \cup {None}
  BY Untouched

LEMMA TxTypes ==
  ASSUME TxTypeOK, NEW p \in Procs,
         TxSnapshot(p) \/ TxLock(p) \/ TxCommit(p) \/ TxRollback(p) \/ TxStatement
                       \/ UNCHANGED txVars
  PROVE  TxTypeOK'
  BY DEF TxTypeOK, TxSnapshot, TxLock, TxCommit, TxRollback, TxStatement, txVars

LEMMA ReturnShape ==
  ASSUME Shape, NEW p \in Procs, Return(p), UNCHANGED <<missions, now>>,
         held' \in [Procs -> Belief \cup {None}], TxTypeOK'
  PROVE  Shape'
  <1>1. Fits("ready", None, None, None) /\ "ready" \in Places
    BY DEF Fits, Inside, Places
  <1>2. 0 \in 0..MaxAttempts
    BY LimitsAssumption
  <1> QED  BY <1>1, <1>2, Untouched, Moves DEF Return

LEMMA EnterShape ==
  ASSUME Shape, NEW p \in Procs, NEW c \in Call, Enter(p, c),
         c.op # "release" => c.ttl \in TTLs,
         c.op # "acquire" => c.mission \in Missions,
         c.op \in Keeping => c.token \in Tokens
  PROVE  Shape'
  <1>1. Fits("begin", c, snap[p], lease[p]) /\ "begin" \in Places
    BY DEF Fits, Inside, Places
  <1>2. 1 \in 0..MaxAttempts
    BY LimitsAssumption
  <1>3. TxTypeOK'
    BY Untouched, TxTypes DEF Enter
  <1>4. UNCHANGED <<missions, now, snap, lease, held>>
    BY DEF Enter
  <1>5. /\ pc' = [pc EXCEPT ![p] = "begin"]
        /\ call' = [call EXCEPT ![p] = c]
        /\ attempt' = [attempt EXCEPT ![p] = 1]
    BY DEF Enter
  <1>6. /\ snap' = [snap EXCEPT ![p] = snap[p]]
        /\ lease' = [lease EXCEPT ![p] = lease[p]]
        /\ missions' \in [Missions -> Mission]
        /\ now' \in Nat
        /\ held' \in [Procs -> Belief \cup {None}]
    BY <1>4, Untouched
  <1>7. /\ snap[p] \in [Missions -> Mission] \cup {None}
        /\ lease[p] \in LeaseRow \cup {None}
    BY Untouched
  <1> QED  BY <1>1, <1>2, <1>3, <1>5, <1>6, <1>7, Moves

\* A step of the environment leaves the workers where they are.
LEMMA EnvironmentShape ==
  ASSUME Shape, missions' \in [Missions -> Mission], now' \in Nat, TxTypeOK',
         UNCHANGED <<callVars, held>>
  PROVE  Shape'
  BY DEF Shape, TypeOK, CallShape, callVars

LEMMA InitShape == Init => Shape
  <1> SUFFICES ASSUME Init PROVE Shape
    OBVIOUS
  <1>1. [status |-> "active", updated |-> 0, leases |-> <<>>] \in Mission
    BY DEF Mission
  <1>2. 0 \in 0..MaxAttempts
    BY LimitsAssumption
  <1>3. TypeOK
    BY <1>1, <1>2 DEF Init, TypeOK, TxInit, TxTypeOK
  <1>4. CallShape
    BY DEF Init, CallShape, Fits, Inside, Places
  <1> QED  BY <1>3, <1>4 DEF Shape

LEMMA CallsShape ==
  ASSUME Shape, NEW p \in Procs,
         \/ \E m \in Missions, ttl \in TTLs : ClaimMission(p, m, ttl)
         \/ \E ttl \in TTLs : AcquireMission(p, ttl) \/ RenewMission(p, ttl)
         \/ \E q \in Procs, ttl \in TTLs : HandoffMission(p, q, ttl)
         \/ ReleaseMission(p)
  PROVE  \E c \in Call : /\ Enter(p, c)
                         /\ c.op # "release" => c.ttl \in TTLs
                         /\ c.op # "acquire" => c.mission \in Missions
                         /\ c.op \in Keeping => /\ c.token \in Tokens
                                                /\ held[p] # None
                                                /\ c.mission = held[p].mission
                                                /\ c.token = held[p].token
  <1>1. held[p] # None => held[p].mission \in Missions /\ held[p].token \in Tokens
    BY DEF Shape, TypeOK, Belief
  <1>2. ASSUME NEW m \in Missions, NEW ttl \in TTLs, ClaimMission(p, m, ttl)
        PROVE  \E c \in Call : Enter(p, c) /\ c.op = "claim" /\ c.ttl \in TTLs
                                            /\ c.mission \in Missions
    BY <1>2, CallType DEF ClaimMission
  <1>3. ASSUME NEW ttl \in TTLs, AcquireMission(p, ttl)
        PROVE  \E c \in Call : Enter(p, c) /\ c.op = "acquire" /\ c.ttl \in TTLs
    BY <1>3, CallType DEF AcquireMission
  <1>4. ASSUME NEW ttl \in TTLs, RenewMission(p, ttl)
        PROVE  \E c \in Call : /\ Enter(p, c) /\ c.op = "renew" /\ c.ttl \in TTLs
                               /\ held[p] # None
                               /\ c.mission = held[p].mission /\ c.token = held[p].token
    BY <1>1, <1>4, CallType DEF RenewMission
  <1>5. ASSUME NEW q \in Procs, NEW ttl \in TTLs, HandoffMission(p, q, ttl)
        PROVE  \E c \in Call : /\ Enter(p, c) /\ c.op = "handoff" /\ c.ttl \in TTLs
                               /\ held[p] # None
                               /\ c.mission = held[p].mission /\ c.token = held[p].token
    BY <1>1, <1>5, CallType DEF HandoffMission
  <1>6. ASSUME ReleaseMission(p)
        PROVE  \E c \in Call : /\ Enter(p, c) /\ c.op = "release"
                               /\ held[p] # None
                               /\ c.mission = held[p].mission /\ c.token = held[p].token
    BY <1>1, <1>6, CallType DEF ReleaseMission
  <1> QED  BY <1>1, <1>2, <1>3, <1>4, <1>5, <1>6 DEF Keeping

LEMMA ReadShape ==
  ASSUME Shape, NEW p \in Procs, LeaseRead(p)
  PROVE  Shape'
  <1>1. Fits("read", call[p], missions, lease[p]) /\ "read" \in Places
    BY Untouched DEF LeaseRead, Fits, Inside, Places
  <1>2. TxTypeOK'
    BY Untouched, TxTypes DEF LeaseRead
  <1>3. /\ pc' = [pc EXCEPT ![p] = "read"]
        /\ snap' = [snap EXCEPT ![p] = missions]
        /\ missions \in [Missions -> Mission] \cup {None}
        /\ UNCHANGED <<missions, now, call, attempt, lease, held>>
    BY Untouched DEF LeaseRead
  <1>4. /\ call' = [call EXCEPT ![p] = call[p]] /\ call[p] \in Call \cup {None}
        /\ attempt' = [attempt EXCEPT ![p] = attempt[p]] /\ attempt[p] \in 0..MaxAttempts
        /\ lease' = [lease EXCEPT ![p] = lease[p]] /\ lease[p] \in LeaseRow \cup {None}
        /\ missions' \in [Missions -> Mission] /\ now' \in Nat
        /\ held' \in [Procs -> Belief \cup {None}]
    BY <1>3, UntouchedNext
  <1> QED  BY ZenonT(30), <1>1, <1>2, <1>3, <1>4, Moves

\* The call of worker p once it has inserted a row for m.
LEMMA WriteFacts ==
  ASSUME Shape, NEW p \in Procs, NEW m \in Missions, LeaseWrite(p, m)
  PROVE  /\ pc[p] = "read" /\ Allowed(p, m)
         /\ pc' = [pc EXCEPT ![p] = "written"]
         /\ [call[p] EXCEPT !.mission = m] \in Call
         /\ call' = [call EXCEPT ![p] = [call[p] EXCEPT !.mission = m]]
         /\ call'[p] = [call[p] EXCEPT !.mission = m]
         /\ lease' = [lease EXCEPT ![p] = NextRow(p, m)]
         /\ lease'[p] = NextRow(p, m)
         /\ NextRow(p, m) \in LeaseRow
         /\ UNCHANGED <<missions, now, attempt, snap, held>>
         /\ TxLock(p)
  <1>1. pc[p] = "read" /\ Allowed(p, m) /\ TxLock(p)
    BY DEF LeaseWrite
  <1>2. call[p] \in Call /\ NextRow(p, m) \in LeaseRow
    BY <1>1, AllowedFacts, NextRowFacts
  <1>3. [call[p] EXCEPT !.mission = m] \in Call
    BY <1>2 DEF Call
  <1> QED  BY <1>1, <1>2, <1>3 DEF LeaseWrite, Shape, TypeOK

LEMMA WriteShape ==
  ASSUME Shape, NEW p \in Procs, NEW m \in Missions, LeaseWrite(p, m)
  PROVE  Shape'
  <1> DEFINE c == [call[p] EXCEPT !.mission = m]
  <1>1. /\ c \in Call
        /\ c.op = call[p].op /\ c.ttl = call[p].ttl
        /\ c.token = call[p].token /\ c.mission = m
    BY WriteFacts, AllowedFacts DEF Call
  <1> HIDE DEF c
  <1>2. Fits("written", c, snap[p], NextRow(p, m)) /\ "written" \in Places
    BY <1>1, WriteFacts, Untouched DEF Fits, Inside, Places
  <1>3. TxTypeOK'
    BY WriteFacts, Untouched, TxTypes
  <1>4. /\ call' = [call EXCEPT ![p] = c]
        /\ attempt' = [attempt EXCEPT ![p] = attempt[p]] /\ attempt[p] \in 0..MaxAttempts
        /\ snap' = [snap EXCEPT ![p] = snap[p]]
        /\ snap[p] \in [Missions -> Mission] \cup {None}
        /\ missions' \in [Missions -> Mission] /\ now' \in Nat
        /\ held' \in [Procs -> Belief \cup {None}]
    BY WriteFacts, Untouched DEF c
  <1>5. /\ pc' = [pc EXCEPT ![p] = "written"]
        /\ lease' = [lease EXCEPT ![p] = NextRow(p, m)]
        /\ NextRow(p, m) \in LeaseRow
    BY WriteFacts
  <1> QED  BY <1>1, <1>2, <1>3, <1>4, <1>5, Moves

LEMMA RetryShape ==
  ASSUME Shape, NEW p \in Procs, LeaseRetry(p)
  PROVE  Shape'
  <1>1. Fits("begin", call[p], None, lease[p]) /\ "begin" \in Places
    BY Untouched DEF LeaseRetry, Fits, Inside, Places
  <1>2. attempt[p] + 1 \in 0..MaxAttempts
    BY Untouched, LimitsAssumption DEF LeaseRetry
  <1>3. TxTypeOK'
    BY Untouched, TxTypes DEF LeaseRetry
  <1>4. /\ pc' = [pc EXCEPT ![p] = "begin"]
        /\ attempt' = [attempt EXCEPT ![p] = attempt[p] + 1]
        /\ snap' = [snap EXCEPT ![p] = None]
        /\ UNCHANGED <<missions, now, call, lease, held>>
    BY DEF LeaseRetry
  <1>5. /\ call' = [call EXCEPT ![p] = call[p]] /\ call[p] \in Call \cup {None}
        /\ lease' = [lease EXCEPT ![p] = lease[p]] /\ lease[p] \in LeaseRow \cup {None}
        /\ missions' \in [Missions -> Mission] /\ now' \in Nat
        /\ held' \in [Procs -> Belief \cup {None}]
    BY <1>4, UntouchedNext
  <1> QED  BY <1>1, <1>2, <1>3, <1>4, <1>5, Moves

LEMMA CommitFacts ==
  ASSUME Shape, NEW p \in Procs, LeaseCommit(p)
  PROVE  /\ pc[p] = "written"
         /\ call[p] \in Call /\ call[p].mission \in Missions /\ lease[p] \in LeaseRow
         /\ missions' = [missions EXCEPT ![call[p].mission] =
                             Leased(missions[call[p].mission], lease[p])]
         /\ missions' \in [Missions -> Mission]
         /\ pc'[p] \in {"committed", "compiling"}
         /\ pc'[p] = "compiling" <=> call[p].op = "acquire"
         /\ pc' = [pc EXCEPT ![p] = pc'[p]]
         /\ UNCHANGED <<now, call, lease, held>>
         /\ TxCommit(p)
  <1>1. pc[p] = "written"
    BY DEF LeaseCommit
  <1>2. call[p] \in Call /\ call[p].mission \in Missions /\ lease[p] \in LeaseRow
    BY <1>1, Untouched DEF Fits, Inside, Places
  <1>3. Leased(missions[call[p].mission], lease[p]) \in Mission
    BY <1>2, LeasedType, Untouched
  <1> QED  BY <1>1, <1>2, <1>3 DEF LeaseCommit, Shape, TypeOK

LEMMA CommitShape ==
  ASSUME Shape, NEW p \in Procs, LeaseCommit(p)
  PROVE  Shape'
  <1>1. Fits(pc'[p], call[p], None, lease[p]) /\ pc'[p] \in Places
    BY CommitFacts, Untouched DEF Fits, Inside, Places
  <1>2. TxTypeOK'
    BY CommitFacts, Untouched, TxTypes
  <1>3. 0 \in 0..MaxAttempts
    BY LimitsAssumption
  <1>4. attempt' = [attempt EXCEPT ![p] = 0] /\ snap' = [snap EXCEPT ![p] = None]
    BY DEF LeaseCommit
  <1>5. /\ pc' = [pc EXCEPT ![p] = pc'[p]]
        /\ missions' \in [Missions -> Mission]
        /\ UNCHANGED <<now, call, lease, held>>
    BY CommitFacts
  <1>6. /\ call' = [call EXCEPT ![p] = call[p]] /\ call[p] \in Call \cup {None}
        /\ lease' = [lease EXCEPT ![p] = lease[p]] /\ lease[p] \in LeaseRow \cup {None}
        /\ now' \in Nat
        /\ held' \in [Procs -> Belief \cup {None}]
    BY <1>5, UntouchedNext
  <1> QED  BY <1>1, <1>2, <1>3, <1>4, <1>5, <1>6, Moves

\* The steps that end a call.
Leaves(p) == \/ LeaseRefuse(p) \/ AcquireUnverified(p) \/ LeaseExhausted(p) \/ LeaseCancel(p)
             \/ LeaseReturn(p) \/ ContextReady(p) \/ Crash(p)

LEMMA LeavesShape ==
  ASSUME Shape, NEW p \in Procs, Leaves(p)
  PROVE  Shape'
  <1>1. Return(p) /\ UNCHANGED <<missions, now>>
    BY DEF Leaves, LeaseRefuse, AcquireUnverified, LeaseExhausted, LeaseCancel, LeaseReturn,
           ContextReady, Crash
  <1>2. TxTypeOK'
    BY Untouched, TxTypes
       DEF Leaves, LeaseRefuse, AcquireUnverified, LeaseExhausted, LeaseCancel, LeaseReturn,
           ContextReady, Crash
  <1>3. held' \in [Procs -> Belief \cup {None}]
    <2>1. CASE LeaseReturn(p)
      <3>1. Remember(p) \in Belief
        BY <2>1, RememberType DEF LeaseReturn
      <3> QED  BY <2>1, <3>1, GivenUpType, Untouched DEF LeaseReturn
    <2>2. CASE ContextReady(p)
      <3>1. Remember(p) \in Belief
        BY <2>2, RememberType DEF ContextReady
      <3> QED  BY <2>2, <3>1, Untouched DEF ContextReady
    <2>3. CASE held' = held \/ held' = [held EXCEPT ![p] = None]
      BY <2>3, Untouched
    <2> QED
      BY <2>1, <2>2, <2>3
         DEF Leaves, LeaseRefuse, AcquireUnverified, LeaseExhausted, LeaseCancel, Crash
  <1> QED  BY <1>1, <1>2, <1>3, ReturnShape

LEMMA FailedFacts ==
  ASSUME Shape, NEW p \in Procs, ContextFailed(p)
  PROVE  /\ pc[p] = "compiling" /\ call[p] \in Call
         /\ call[p].mission \in Missions /\ lease[p] \in LeaseRow
         /\ pc' = [pc EXCEPT ![p] = "begin"]
         /\ \E c \in Call : /\ call' = [call EXCEPT ![p] = c]
                            /\ c.op = "release"
                             /\ c.mission = call[p].mission
                             /\ c.token = lease[p].token
         /\ lease' = [lease EXCEPT ![p] = None]
         /\ attempt' = [attempt EXCEPT ![p] = 1]
         /\ UNCHANGED <<missions, now, snap, held, txVars>>
  <1>1. pc[p] = "compiling"
    BY DEF ContextFailed
  <1>2. call[p] \in Call /\ call[p].mission \in Missions /\ lease[p] \in LeaseRow
    BY <1>1, Untouched DEF Fits, Inside, Places
  <1>3. [op |-> "release", mission |-> call[p].mission, token |-> lease[p].token,
         ttl |-> None, to |-> p] \in Call
    BY <1>2, RowFields, CallType DEF Tokens
  <1>4. call' = [call EXCEPT ![p] = [op |-> "release", mission |-> call[p].mission,
                                     token |-> lease[p].token, ttl |-> None, to |-> p]]
    BY DEF ContextFailed
  <1> QED  BY <1>1, <1>2, <1>3, <1>4 DEF ContextFailed

LEMMA FailedShape ==
  ASSUME Shape, NEW p \in Procs, ContextFailed(p)
  PROVE  Shape'
  <1>1. PICK c \in Call : /\ call' = [call EXCEPT ![p] = c]
                          /\ c.op = "release"
                          /\ c.mission = call[p].mission
                          /\ c.token = lease[p].token
    BY FailedFacts
  <1>2. Fits("begin", c, snap[p], None) /\ "begin" \in Places
    BY <1>1, FailedFacts, RowFields DEF Fits, Inside, Places, Keeping, Tokens
  <1>3. 1 \in 0..MaxAttempts
    BY LimitsAssumption
  <1>4. TxTypeOK'
    BY FailedFacts, Untouched, TxTypes
  <1>5. /\ pc' = [pc EXCEPT ![p] = "begin"]
        /\ attempt' = [attempt EXCEPT ![p] = 1]
        /\ lease' = [lease EXCEPT ![p] = None]
        /\ UNCHANGED <<missions, now, snap, held, txVars>>
    BY FailedFacts
  <1> QED  BY <1>1, <1>2, <1>3, <1>4, <1>5, Untouched, Moves

\* Steps outside the lease transactions.
Environment == Tick \/ \E m \in Missions : CheckpointMission(m) \/ CompleteMission(m)

LEMMA EnvironmentFacts ==
  ASSUME Shape, Environment
  PROVE  /\ UNCHANGED <<callVars, held>>
         /\ missions' \in [Missions -> Mission]
         /\ now' \in Nat /\ now <= now'
         /\ \A m \in Missions : missions'[m].leases = missions[m].leases
         /\ TxStatement \/ (UNCHANGED txVars /\ UNCHANGED missions)
  <1>1. CASE Tick
    BY <1>1 DEF Tick, Shape, TypeOK
  <1>2. ASSUME NEW m \in Missions, CheckpointMission(m)
        PROVE  /\ missions' \in [Missions -> Mission]
               /\ \A n \in Missions : missions'[n].leases = missions[n].leases
    <2>1. [missions[m] EXCEPT !.updated = now] \in Mission
      BY DEF Shape, TypeOK, Mission
    <2> QED  BY <1>2, <2>1 DEF CheckpointMission, Shape, TypeOK, Mission
  <1>3. ASSUME NEW m \in Missions, CompleteMission(m)
        PROVE  /\ missions' \in [Missions -> Mission]
               /\ \A n \in Missions : missions'[n].leases = missions[n].leases
    <2>1. [missions[m] EXCEPT !.status = "completed", !.updated = now] \in Mission
      BY DEF Shape, TypeOK, Mission
    <2> QED  BY <1>3, <2>1 DEF CompleteMission, Shape, TypeOK, Mission
  <1>4. now \in Nat
    BY DEF Shape, TypeOK
  <1>5. ASSUME NEW m \in Missions, CheckpointMission(m) \/ CompleteMission(m)
        PROVE  UNCHANGED <<now, callVars, held>> /\ TxStatement
    BY <1>5 DEF CheckpointMission, CompleteMission
  <1>6. CASE \E m \in Missions : CheckpointMission(m) \/ CompleteMission(m)
    BY <1>2, <1>3, <1>4, <1>5, <1>6
  <1> QED  BY <1>1, <1>6 DEF Environment

\* The cases of Next, as the proofs below split it.
NextCases ==
    \/ \E p \in Procs :
          \/ \E c \in Call : /\ Enter(p, c)
                             /\ c.op # "release" => c.ttl \in TTLs
                             /\ c.op # "acquire" => c.mission \in Missions
                             /\ c.op \in Keeping => /\ c.token \in Tokens
                                                    /\ held[p] # None
                                                    /\ c.mission = held[p].mission
                                                    /\ c.token = held[p].token
          \/ LeaseRead(p)
          \/ \E m \in Missions : LeaseWrite(p, m)
          \/ LeaseRetry(p)
          \/ LeaseCommit(p)
          \/ ContextFailed(p)
          \/ Leaves(p)
    \/ Environment
    \/ UNCHANGED vars

LEMMA Cases ==
  ASSUME Shape, [Next]_vars
  PROVE  NextCases
  <1>1. ASSUME NEW p \in Procs, CallStep(p) \/ LeaseCancel(p) \/ Crash(p)
        PROVE  NextCases
    BY <1>1 DEF CallStep, NextCases, Leaves
  <1>2. ASSUME NEW p \in Procs,
               \/ \E m \in Missions, ttl \in TTLs : ClaimMission(p, m, ttl)
               \/ \E ttl \in TTLs : AcquireMission(p, ttl) \/ RenewMission(p, ttl)
               \/ \E q \in Procs, ttl \in TTLs : HandoffMission(p, q, ttl)
               \/ ReleaseMission(p)
        PROVE  NextCases
    BY <1>2, CallsShape DEF NextCases
  <1>3. CASE Tick \/ (\E m \in Missions : CheckpointMission(m) \/ CompleteMission(m))
    BY <1>3 DEF NextCases, Environment
  <1>4. CASE UNCHANGED vars
    BY <1>4 DEF NextCases
  <1> QED  BY <1>1, <1>2, <1>3, <1>4 DEF Next

LEMMA NextShape == Shape /\ [Next]_vars => Shape'
  <1> SUFFICES ASSUME Shape, [Next]_vars PROVE Shape'
    OBVIOUS
  <1>1. CASE Environment
    <2>1. TxStatement => TxTypeOK'
      BY DEF Shape, TypeOK, TxTypeOK, TxStatement
    <2>2. UNCHANGED txVars => TxTypeOK'
      BY DEF Shape, TypeOK, TxTypeOK, txVars
    <2> QED  BY <1>1, <2>1, <2>2, EnvironmentFacts, EnvironmentShape
  <1>2. CASE UNCHANGED vars
    BY <1>2 DEF vars, callVars, txVars, Shape, TypeOK, CallShape, TxTypeOK
  <1>3. ASSUME NEW p \in Procs, NEW c \in Call, Enter(p, c),
               c.op # "release" => c.ttl \in TTLs,
               c.op # "acquire" => c.mission \in Missions,
               c.op \in Keeping => c.token \in Tokens
        PROVE  Shape'
    BY <1>3, EnterShape
  <1>4. NextCases
    BY Cases
  <1> QED
    BY <1>1, <1>2, <1>3, <1>4, ReadShape, WriteShape, RetryShape, CommitShape, FailedShape,
       LeavesShape DEF NextCases

\* Type correctness (lease.go 18-405): no lease call loses the shape of its
\* rows, and none goes round the retry loop more than maxWriteAttempts times.
THEOREM TypeCorrect == Spec => []TypeOK
  <1>1. Init => Shape
    BY InitShape
  <1>2. Shape /\ [Next]_vars => Shape'
    BY NextShape
  <1>3. Shape => TypeOK
    BY DEF Shape
  <1> QED  BY <1>1, <1>2, <1>3, PTL DEF Spec

-----------------------------------------------------------------------------
(* The transaction discipline *)

\* The steps of worker p leave the other workers where they are.
OthersStay(p) == \A q \in Procs \ {p} : /\ pc'[q] = pc[q]
                                        /\ call'[q] = call[q]
                                        /\ snap'[q] = snap[q]
                                        /\ lease'[q] = lease[q]

\* Every step of worker p but the first read, the first write and the commit.
Aside(p) == (\E c \in Call : Enter(p, c)) \/ LeaseRetry(p) \/ ContextFailed(p) \/ Leaves(p)

LEMMA ReturnStays ==
  ASSUME Shape, NEW p \in Procs, Return(p)
  PROVE  OthersStay(p) /\ pc'[p] = "ready"
  BY DEF Shape, TypeOK, Return, OthersStay

LEMMA AsideFacts ==
  ASSUME Shape, NEW p \in Procs, Aside(p)
  PROVE  /\ OthersStay(p)
         /\ UNCHANGED <<missions, now>>
         /\ pc'[p] \in {"ready", "begin"}
         /\ \/ TxRollback(p)
            \/ UNCHANGED txVars /\ pc[p] \notin {"read", "written"}
  <1>1. ASSUME NEW c \in Call, Enter(p, c)
        PROVE  /\ OthersStay(p) /\ UNCHANGED <<missions, now, txVars>>
               /\ pc'[p] = "begin" /\ pc[p] = "ready"
    BY <1>1 DEF Enter, OthersStay, Shape, TypeOK
  <1>2. CASE LeaseRetry(p)
    BY <1>2 DEF LeaseRetry, OthersStay, Shape, TypeOK
  <1>3. CASE ContextFailed(p)
    BY <1>3 DEF ContextFailed, OthersStay, Shape, TypeOK
  <1>4. CASE Leaves(p)
    <2>1. Return(p) /\ UNCHANGED <<missions, now>>
      BY <1>4 DEF Leaves, LeaseRefuse, AcquireUnverified, LeaseExhausted, LeaseCancel,
                  LeaseReturn, ContextReady, Crash
    <2>2. TxRollback(p) \/ (UNCHANGED txVars /\ pc[p] \notin {"read", "written"})
      BY <1>4 DEF Leaves, LeaseRefuse, AcquireUnverified, LeaseExhausted, LeaseCancel,
                  LeaseReturn, ContextReady, Crash
    <2> QED  BY <2>1, <2>2, ReturnStays
  <1> QED  BY <1>1, <1>2, <1>3, <1>4 DEF Aside

LEMMA AsideSnapshot ==
  ASSUME Shape, SnapshotCurrent, NEW p \in Procs, Aside(p)
  PROVE  SnapshotCurrent'
  <1> SUFFICES ASSUME NEW q \in Procs
               PROVE  /\ writer' = {q} <=> pc'[q] = "written"
                      /\ q \in fresh' => pc'[q] \in {"read", "written"} /\ snap'[q] = missions'
                      /\ pc'[q] = "written" => q \in fresh'
    BY DEF SnapshotCurrent
  <1>1. missions' = missions /\ OthersStay(p) /\ pc'[p] \in {"ready", "begin"}
    BY AsideFacts
  <1>2. CASE TxRollback(p)
    <2>1. CASE q = p
      BY <1>1, <1>2, <2>1 DEF TxRollback
    <2>2. CASE q # p
      <3>1. writer' = {q} <=> writer = {q}
        BY <1>2, <2>2 DEF TxRollback, Shape, TypeOK, TxTypeOK
      <3>2. q \in fresh' <=> q \in fresh
        BY <1>2, <2>2 DEF TxRollback
      <3> QED  BY <1>1, <2>2, <3>1, <3>2 DEF SnapshotCurrent, OthersStay
    <2> QED  BY <2>1, <2>2
  <1>3. CASE UNCHANGED txVars /\ pc[p] \notin {"read", "written"}
    BY <1>1, <1>3 DEF txVars, SnapshotCurrent, OthersStay
  <1> QED  BY <1>2, <1>3, AsideFacts

LEMMA NextSnapshot ==
  ASSUME Shape, SnapshotCurrent, [Next]_vars
  PROVE  SnapshotCurrent'
  <1>1. ASSUME NEW p \in Procs, LeaseRead(p)
        PROVE  SnapshotCurrent'
    BY <1>1 DEF LeaseRead, TxSnapshot, SnapshotCurrent, Shape, TypeOK, TxTypeOK
  <1>2. ASSUME NEW p \in Procs, NEW m \in Missions, LeaseWrite(p, m)
        PROVE  SnapshotCurrent'
    BY <1>2 DEF LeaseWrite, TxLock, TxMayWrite, SnapshotCurrent, Shape, TypeOK, TxTypeOK
  <1>3. ASSUME NEW p \in Procs, LeaseCommit(p)
        PROVE  SnapshotCurrent'
    BY <1>3 DEF LeaseCommit, TxCommit, SnapshotCurrent, Shape, TypeOK, TxTypeOK
  <1>4. CASE Environment
    BY <1>4, EnvironmentFacts DEF TxStatement, txVars, callVars, SnapshotCurrent
  <1>5. CASE UNCHANGED vars
    BY <1>5 DEF vars, callVars, txVars, SnapshotCurrent
  <1>6. ASSUME NEW p \in Procs, Aside(p)
        PROVE  SnapshotCurrent'
    BY <1>6, AsideSnapshot
  <1> QED
    BY <1>1, <1>2, <1>3, <1>4, <1>5, <1>6, Cases DEF NextCases, Aside

-----------------------------------------------------------------------------
(* The row a transaction is about to commit *)

\* Appending row to a lease history makes it the last row.
LEMMA AppendedLatest ==
  ASSUME NEW leases \in Seq(LeaseRow), NEW row \in LeaseRow
  PROVE  /\ Append(leases, row) # <<>>
         /\ Latest(Append(leases, row)) = row
         /\ Len(Append(leases, row)) = Len(leases) + 1
         /\ Append(leases, row) \in Seq(LeaseRow)
  BY DEF Latest

\* The lease histories after a commit.
LEMMA CommitLeases ==
  ASSUME Shape, NEW p \in Procs, LeaseCommit(p), NEW m \in Missions
  PROVE  /\ m # call[p].mission => missions'[m] = missions[m]
         /\ m = call[p].mission =>
               /\ missions'[m].leases = Append(missions[m].leases, lease[p])
               /\ missions'[m].status = missions[m].status
         /\ missions[m].leases \in Seq(LeaseRow)
         /\ lease[p] \in LeaseRow
  <1>1. missions[m].leases \in Seq(LeaseRow)
    BY Untouched, MissionFields
  <1>2. missions' = [missions EXCEPT ![call[p].mission] =
                        Leased(missions[call[p].mission], lease[p])]
    BY CommitFacts
  <1>3. missions'[m] = IF m = call[p].mission THEN Leased(missions[m], lease[p])
                       ELSE missions[m]
    BY <1>2, Untouched
  <1>4. /\ Leased(missions[m], lease[p]).leases = Append(missions[m].leases, lease[p])
        /\ Leased(missions[m], lease[p]).status = missions[m].status
    BY DEF Leased
  <1>5. lease[p] \in LeaseRow
    BY CommitFacts
  <1> QED  BY <1>1, <1>3, <1>4, <1>5

\* In a transaction that may insert, the next row continues the history.
LEMMA WriteFits ==
  ASSUME Shape, SnapshotCurrent, HistoryOrdered, NEW p \in Procs, NEW m \in Missions,
         LeaseWrite(p, m)
  PROVE  RowFits(call'[p], NextRow(p, m), missions, now)
  <1> DEFINE leases == missions[m].leases
             row == NextRow(p, m)
             c == [call[p] EXCEPT !.mission = m]
  <1>1. snap[p] = missions
    BY WriteFacts DEF TxLock, TxMayWrite, SnapshotCurrent
  <1>2. /\ c.op = call[p].op /\ c.op \in {"claim", "acquire", "handoff", "renew", "release"}
        /\ c.token = call[p].token /\ c.mission = m /\ call'[p] = c
    <2>1. call[p] \in Call /\ call'[p] = c
      BY WriteFacts, AllowedFacts
    <2> QED  BY <2>1, CallFields DEF Call
  <1> HIDE DEF c
  <1>3. /\ c.op \in {"claim", "acquire"} => /\ missions[m].status = "active"
                                            /\ ~Live(leases, now)
        /\ c.op \in Keeping => Owns(leases, c.token, now)
        /\ c.op = "acquire" => AcquireAllowed(missions, m, now)
    BY <1>1, <1>2, WriteFacts, AllowedFacts
  <1>4. /\ row \in LeaseRow
        /\ row.action = ActionOf(c.op)
        /\ row.time = now
        /\ row.action # "released" => now < row.expires
        /\ row.prev = IF leases = <<>> THEN None ELSE Latest(leases).token
        /\ row.token = IF c.op \in {"renew", "release"} THEN Latest(leases).token
                       ELSE Len(leases)
    <2>1. pc[p] = "read" /\ Allowed(p, m)
      BY WriteFacts
    <2>2. snap[p][m].leases = leases
      BY <1>1
    <2> HIDE DEF leases, row
    <2> QED  BY <1>2, <2>1, <2>2, NextRowFacts DEF row
  <1> HIDE DEF row
  <1>5. leases # <<>> => Latest(leases).time <= now
    BY DEF HistoryOrdered
  <1>6. now \in Nat
    BY Untouched
  <1> HIDE DEF leases
  <1>7. row.action = "claimed" <=> ~Live(leases, row.time)
    BY <1>2, <1>3, <1>4 DEF Owns, Keeping, ActionOf
  <1>8. IF row.action \in {"claimed", "handoff"} THEN row.token = Len(leases)
        ELSE row.token = Latest(leases).token
    BY <1>2, <1>4 DEF ActionOf
  <1>9. Follows(row, leases)
    BY <1>4, <1>5, <1>7, <1>8 DEF Follows
  <1>10. c.op \in Keeping => Latest(leases).token = c.token
    BY <1>3 DEF Owns
  <1>11. row.action = "claimed" => missions[m].status = "active"
    BY <1>2, <1>3, <1>4 DEF ActionOf
  <1>12. row.time <= now /\ (row.action # "released" => row.time < row.expires)
    BY <1>4, <1>6
  <1>13. RowFits(c, row, missions, now)
    BY <1>2, <1>3, <1>4, <1>9, <1>10, <1>11, <1>12 DEF RowFits, leases
  <1> QED  BY <1>2, <1>13 DEF row

\* Time alone does not spoil it.
LEMMA FitsLater ==
  ASSUME NEW c, NEW row \in LeaseRow, NEW db, NEW t \in Nat, NEW u \in Nat, t <= u,
         RowFits(c, row, db, t)
  PROVE  RowFits(c, row, db, u)
  <1>1. row.time \in Nat
    BY RowFields
  <1>2. row.time <= u
    BY <1>1 DEF RowFits
  <1> QED  BY <1>2 DEF RowFits

LEMMA InitRegister == Init => Register
  BY DEF Init, TxInit, Register, SnapshotCurrent, HistoryOrdered, RowReady

LEMMA NextRegister == Shape /\ Register /\ [Next]_vars => Register'
  <1> SUFFICES ASSUME Shape, Register, [Next]_vars PROVE Register'
    OBVIOUS
  <1> USE DEF Register
  <1>1. SnapshotCurrent'
    BY NextSnapshot
  <1>2. ASSUME UNCHANGED <<missions, now>>
        PROVE  HistoryOrdered'
    BY <1>2 DEF HistoryOrdered
  <1>3. ASSUME NEW p \in Procs, pc'[p] # "written", OthersStay(p), UNCHANGED <<missions, now>>
        PROVE  RowReady'
    BY <1>3 DEF RowReady, OthersStay
  <1>4. ASSUME NEW p \in Procs, Aside(p)
        PROVE  Register'
    BY <1>1, <1>2, <1>3, <1>4, AsideFacts
  <1>5. ASSUME NEW p \in Procs, LeaseRead(p)
        PROVE  Register'
    <2>1. OthersStay(p) /\ pc'[p] = "read" /\ UNCHANGED <<missions, now>>
      BY <1>5 DEF LeaseRead, OthersStay, Shape, TypeOK
    <2> QED  BY <1>1, <1>2, <1>3, <2>1
  <1>6. ASSUME NEW p \in Procs, NEW m \in Missions, LeaseWrite(p, m)
        PROVE  Register'
    <2>1. OthersStay(p) /\ UNCHANGED <<missions, now>>
      BY <1>6 DEF LeaseWrite, OthersStay, Shape, TypeOK
    <2>2. lease'[p] = NextRow(p, m)
      BY <1>6, WriteFacts, Untouched
    <2>3. RowFits(call'[p], lease'[p], missions', now')
      BY <1>6, <2>1, <2>2, WriteFits
    <2>4. RowReady'
      BY <2>1, <2>3 DEF RowReady, OthersStay
    <2> QED  BY <1>1, <1>2, <2>1, <2>4
  <1>7. ASSUME NEW p \in Procs, LeaseCommit(p)
        PROVE  Register'
    <2>1. \A q \in Procs : pc'[q] # "written"
      BY <1>1, <1>7 DEF LeaseCommit, TxCommit, SnapshotCurrent
    <2>2. RowFits(call[p], lease[p], missions, now)
      BY <1>7, CommitFacts DEF RowReady
    <2>3. now' = now
      BY <1>7, CommitFacts
    <2>4. ASSUME NEW m \in Missions
          PROVE  missions'[m].leases # <<>> =>
                     /\ Latest(missions'[m].leases).time <= now'
                     /\ Latest(missions'[m].leases).token < Len(missions'[m].leases)
      <3>1. CASE m # call[p].mission
        BY <1>7, <2>3, <3>1, CommitLeases DEF HistoryOrdered
      <3>2. CASE m = call[p].mission
        <4> DEFINE leases == missions[m].leases
                   row == lease[p]
        <4>1. /\ leases \in Seq(LeaseRow) /\ row \in LeaseRow
              /\ missions'[m].leases = Append(leases, row)
          BY <1>7, <3>2, CommitLeases
        <4>2. /\ row.time <= now /\ Follows(row, leases)
              /\ row.action # "claimed" => Live(leases, row.time)
          BY <2>2, <3>2 DEF RowFits, Follows
        <4>3. leases # <<>> => Latest(leases).token < Len(leases)
          BY DEF HistoryOrdered
        <4> HIDE DEF leases, row
        <4>4. row.token = Len(leases) \/ (leases # <<>> /\ row.token = Latest(leases).token)
          BY <4>2 DEF Follows, Live
        <4>5. row.token < Len(leases) + 1
          <5>1. Len(leases) \in Nat /\ row.token \in Nat
            BY <4>1, RowFields
          <5> QED  BY <4>3, <4>4, <5>1
        <4> QED  BY <2>3, <4>1, <4>2, <4>5, AppendedLatest
      <3> QED  BY <3>1, <3>2
    <2>5. HistoryOrdered'
      BY <2>4 DEF HistoryOrdered
    <2> QED  BY <1>1, <2>1, <2>5 DEF RowReady
  <1>8. CASE Environment
    <2>1. /\ \A m \in Missions : missions'[m].leases = missions[m].leases
          /\ now \in Nat /\ now' \in Nat /\ now <= now'
          /\ UNCHANGED callVars
      BY <1>8, EnvironmentFacts, Untouched DEF Shape, TypeOK
    <2>2. HistoryOrdered'
      <3>1. ASSUME NEW m \in Missions, missions[m].leases # <<>>
            PROVE  /\ Latest(missions[m].leases).time \in Nat
                   /\ Latest(missions[m].leases).time <= now
        BY <3>1, LatestType, RowFields, MissionFields DEF HistoryOrdered, Shape, TypeOK
      <3>2. ASSUME NEW m \in Missions, missions[m].leases # <<>>
            PROVE  Latest(missions[m].leases).time <= now'
        BY <2>1, <3>1, <3>2
      <3> QED  BY <2>1, <3>2 DEF HistoryOrdered
    <2>3. RowReady'
      <3>1. CASE TxStatement
        BY <2>1, <3>1 DEF TxStatement, SnapshotCurrent, RowReady, callVars
      <3>2. CASE UNCHANGED missions
        <4>1. ASSUME NEW p \in Procs, pc[p] = "written"
              PROVE  lease[p] \in LeaseRow /\ RowFits(call[p], lease[p], missions, now)
          BY <4>1, Untouched DEF RowReady, Fits
        <4>2. ASSUME NEW p \in Procs, pc[p] = "written"
              PROVE  RowFits(call[p], lease[p], missions, now')
          BY <2>1, <4>1, <4>2, FitsLater
        <4> QED  BY <2>1, <3>2, <4>2 DEF RowReady, callVars
      <3> QED  BY <1>8, <3>1, <3>2, EnvironmentFacts
    <2> QED  BY <1>1, <2>2, <2>3
  <1>9. CASE UNCHANGED vars
    BY <1>1, <1>2, <1>9 DEF vars, callVars, RowReady
  <1> QED
    BY <1>4, <1>5, <1>6, <1>7, <1>8, <1>9, Cases DEF NextCases, Aside

-----------------------------------------------------------------------------
(* One line of ownership *)

\* A row that follows a history in order extends it in order.
LEMMA FollowsAppended ==
  ASSUME NEW leases \in Seq(LeaseRow), NEW row \in LeaseRow, Follows(row, leases),
         \A i \in 1..Len(leases) : Follows(leases[i], SubSeq(leases, 1, i - 1)),
         NEW i \in 1..Len(Append(leases, row))
  PROVE  Follows(Append(leases, row)[i], SubSeq(Append(leases, row), 1, i - 1))
  <1>1. CASE i = Len(leases) + 1
    <2>1. SubSeq(Append(leases, row), 1, i - 1) = leases
      BY <1>1
    <2>2. Append(leases, row)[i] = row
      BY <1>1
    <2> QED  BY <2>1, <2>2
  <1>2. CASE i # Len(leases) + 1
    <2>1. i \in 1..Len(leases)
      BY <1>2
    <2>2. SubSeq(Append(leases, row), 1, i - 1) = SubSeq(leases, 1, i - 1)
      BY <2>1
    <2>3. Append(leases, row)[i] = leases[i]
      BY <2>1
    <2> QED  BY <2>1, <2>2, <2>3
  <1> QED  BY <1>1, <1>2

LEMMA NextAuthorised ==
  Shape /\ Register /\ HistoryAuthorised /\ [Next]_vars => HistoryAuthorised'
  <1> SUFFICES ASSUME Shape, Register, HistoryAuthorised, [Next]_vars PROVE HistoryAuthorised'
    OBVIOUS
  <1>1. ASSUME \A m \in Missions : missions'[m].leases = missions[m].leases
        PROVE  HistoryAuthorised'
    BY <1>1 DEF HistoryAuthorised
  <1>2. ASSUME UNCHANGED missions
        PROVE  HistoryAuthorised'
    BY <1>1, <1>2
  <1>3. ASSUME NEW p \in Procs, LeaseCommit(p)
        PROVE  HistoryAuthorised'
    <2>1. Follows(lease[p], missions[call[p].mission].leases)
      BY <1>3, CommitFacts DEF Register, RowReady, RowFits
    <2>2. ASSUME NEW m \in Missions, NEW i \in 1..Len(missions'[m].leases)
          PROVE  Follows(missions'[m].leases[i], SubSeq(missions'[m].leases, 1, i - 1))
      <3>1. \A j \in 1..Len(missions[m].leases) :
                Follows(missions[m].leases[j], SubSeq(missions[m].leases, 1, j - 1))
        BY DEF HistoryAuthorised
      <3> QED  BY <1>3, <2>1, <2>2, <3>1, CommitLeases, FollowsAppended
    <2> QED  BY <2>2 DEF HistoryAuthorised
  <1>4. ASSUME NEW p \in Procs, Aside(p)
        PROVE  HistoryAuthorised'
    BY <1>2, <1>4, AsideFacts
  <1>5. ASSUME NEW p \in Procs, LeaseRead(p) \/ \E m \in Missions : LeaseWrite(p, m)
        PROVE  HistoryAuthorised'
    BY <1>2, <1>5 DEF LeaseRead, LeaseWrite
  <1>6. CASE Environment
    BY <1>1, <1>6, EnvironmentFacts
  <1>7. CASE UNCHANGED vars
    BY <1>2, <1>7 DEF vars
  <1> QED
    BY <1>3, <1>4, <1>5, <1>6, <1>7, Cases DEF NextCases, Aside

LEMMA RegisterInvariant == Spec => [](Shape /\ Register)
  <1>1. Init => Shape /\ Register
    BY InitShape, InitRegister
  <1>2. Shape /\ Register /\ [Next]_vars => (Shape /\ Register)'
    BY NextShape, NextRegister
  <1> QED  BY <1>1, <1>2, PTL DEF Spec

\* The retained lease rows of a mission are one line of ownership, whatever
\* claims, hand-offs, renewals and releases were tried at the same time
\* (lease.go 18-405).
THEOREM AuthorisedHistory == Spec => []HistoryAuthorised
  <1>1. Init => HistoryAuthorised
    BY DEF Init, HistoryAuthorised
  <1> QED  BY <1>1, RegisterInvariant, NextAuthorised, PTL DEF Spec

-----------------------------------------------------------------------------
(* Who bears a token *)

\* The mission and the token of what a worker bears.
LEMMA BeliefFields ==
  ASSUME Shape, NEW p \in Procs
  PROVE  /\ held[p] # None => /\ held[p].mission \in Missions
                              /\ held[p].token \in Tokens
                              /\ held[p].until \in Nat
         /\ pc[p] \in {"committed", "compiling"} => /\ call[p].mission \in Missions
                                                    /\ lease[p].token \in Tokens
                                                    /\ lease[p] \in LeaseRow
                                                    /\ Until(lease[p]) \in Nat
                                                    /\ call[p] \in Call
  <1>1. held[p] # None => held[p] \in Belief
    BY Untouched
  <1>2. pc[p] \in {"committed", "compiling"} => /\ call[p].mission \in Missions
                                                /\ lease[p] \in LeaseRow
                                               /\ call[p] \in Call
    BY Untouched DEF Fits, Inside, Places
  <1>3. pc[p] \in {"committed", "compiling"} => /\ lease[p].token \in Tokens
                                                /\ Until(lease[p]) \in Nat
    BY <1>2, RowFields DEF Until, Tokens
  <1> QED  BY <1>1, <1>2, <1>3 DEF Belief

\* What a worker believes stays right while no row is added.
LEMMA HoldsLater ==
  ASSUME NEW db, NEW e, NEW m, NEW k, NEW until \in Nat, NEW t \in Nat, NEW u \in Nat, t <= u,
         e[m].leases = db[m].leases, Holds(db, t, m, k, until)
  PROVE  Holds(e, u, m, k, until)
  BY DEF Holds

LEMMA SoundLater ==
  ASSUME Shape, NEW p \in Procs, NEW e, NEW u \in Nat, now <= u,
         \A m \in Missions : e[m].leases = missions[m].leases,
         Sound(pc[p], call[p], lease[p], held[p], missions, now)
  PROVE  Sound(pc[p], call[p], lease[p], held[p], e, u)
  <1>1. now \in Nat
    BY Untouched
  <1> QED  BY <1>1, BeliefFields, HoldsLater DEF Sound

\* A worker that takes up no new token, and believes rightly, disturbs nobody.
LEMMA CustodyMoves ==
  ASSUME Shape, Custody, NEW p \in Procs, OthersStay(p), UNCHANGED <<missions, now>>,
         \A q \in Procs \ {p} : held'[q] = held[q],
         \A m \in Missions : \A k \in Tokens : Bears(p, m, k)' => Bears(p, m, k),
         pc'[p] # "committed",
         Sound(pc'[p], call'[p], lease'[p], held'[p], missions, now)
  PROVE  Custody'
  <1>1. \A q \in Procs : \A m \in Missions : \A k \in Tokens :
            Bears(q, m, k)' => Bears(q, m, k)
    BY DEF OthersStay, Bears
  <1>2. OneBearer'
    BY <1>1 DEF Custody, OneBearer
  <1>3. HandoffPending'
    BY DEF Custody, HandoffPending, OthersStay
  <1>4. BeliefSound'
    BY DEF Custody, BeliefSound, OthersStay
  <1> QED  BY <1>2, <1>3, <1>4 DEF Custody

LEMMA InitCustody == Init => Custody
  BY DEF Init, Custody, OneBearer, Bears, BearsOf, HandoffPending, BeliefSound, Sound

LEMMA EnterCustody ==
  ASSUME Shape, Custody, NEW p \in Procs, NEW c \in Call, Enter(p, c),
         c.op \in Keeping => /\ held[p] # None
                             /\ c.mission = held[p].mission
                             /\ c.token = held[p].token
  PROVE  Custody'
  <1>1. OthersStay(p) /\ UNCHANGED <<missions, now, held>>
    BY DEF Enter, OthersStay, Shape, TypeOK
  <1>2. pc[p] = "ready" /\ pc'[p] = "begin" /\ call'[p] = c
    BY DEF Enter, Shape, TypeOK
  <1>3. \A m \in Missions : \A k \in Tokens : Bears(p, m, k)' => Bears(p, m, k)
    BY <1>1, <1>2 DEF Bears, BearsOf
  <1>4. Sound(pc'[p], call'[p], lease'[p], held'[p], missions, now)
    BY <1>1, <1>2 DEF Custody, BeliefSound, Sound
  <1> QED  BY <1>1, <1>2, <1>3, <1>4, CustodyMoves

\* Steps inside a call before the commit.
LEMMA InsideCustody ==
  ASSUME Shape, Custody, NEW p \in Procs,
         LeaseRead(p) \/ LeaseRetry(p) \/ \E m \in Missions : LeaseWrite(p, m)
  PROVE  Custody'
  <1>1. OthersStay(p) /\ UNCHANGED <<missions, now, held>>
    BY DEF LeaseRead, LeaseRetry, LeaseWrite, OthersStay, Shape, TypeOK
  <1>2. pc[p] \in {"begin", "read"} /\ pc'[p] \in {"begin", "read", "written"}
    BY DEF LeaseRead, LeaseRetry, LeaseWrite, Shape, TypeOK
  <1>3. call'[p].op \in Keeping => /\ call[p].op \in Keeping
                                   /\ call'[p].mission = call[p].mission
                                   /\ call'[p].token = call[p].token
    <2>1. CASE LeaseRead(p) \/ LeaseRetry(p)
      BY <2>1 DEF LeaseRead, LeaseRetry
    <2>2. ASSUME NEW m \in Missions, LeaseWrite(p, m)
          PROVE  call'[p].op \in Keeping => /\ call[p].op \in Keeping
                                            /\ call'[p].mission = call[p].mission
                                            /\ call'[p].token = call[p].token
      <3>1. call'[p] = [call[p] EXCEPT !.mission = m] /\ call[p] \in Call
        BY <2>2, WriteFacts, AllowedFacts
      <3>2. /\ call'[p].op = call[p].op
            /\ call'[p].token = call[p].token
            /\ call'[p].mission = m
        BY <3>1 DEF Call
      <3>3. call[p].op # "acquire" => m = call[p].mission
        BY <2>2, WriteFacts, AllowedFacts
      <3> QED  BY <3>2, <3>3 DEF Keeping
    <2> QED  BY <2>1, <2>2
  <1>4. \A m \in Missions : \A k \in Tokens : Bears(p, m, k)' => Bears(p, m, k)
    BY <1>1, <1>2, <1>3 DEF Bears, BearsOf
  <1>5. Sound(pc'[p], call'[p], lease'[p], held'[p], missions, now)
    BY <1>1, <1>2 DEF Custody, BeliefSound, Sound
  <1> QED  BY <1>1, <1>2, <1>4, <1>5, CustodyMoves

LEMMA FailedCustody ==
  ASSUME Shape, Custody, NEW p \in Procs, ContextFailed(p)
  PROVE  Custody'
  <1>1. OthersStay(p) /\ UNCHANGED <<missions, now, held>>
    BY DEF ContextFailed, OthersStay, Shape, TypeOK
  <1>2. pc[p] = "compiling" /\ pc'[p] = "begin"
    BY DEF ContextFailed, Shape, TypeOK
  <1>3. call'[p].mission = call[p].mission /\ call'[p].token = lease[p].token
    BY FailedFacts DEF Shape, TypeOK
  <1>4. \A m \in Missions : \A k \in Tokens : Bears(p, m, k)' => Bears(p, m, k)
    BY <1>1, <1>2, <1>3 DEF Bears, BearsOf
  <1>5. Sound(pc'[p], call'[p], lease'[p], held'[p], missions, now)
    BY <1>1, <1>2 DEF Custody, BeliefSound, Sound
  <1> QED  BY <1>1, <1>2, <1>4, <1>5, CustodyMoves

\* The lease a call returns is one its caller bears, rightly.
LEMMA RememberFacts ==
  ASSUME Shape, NEW p \in Procs
  PROVE  /\ Remember(p).mission = call[p].mission
         /\ Remember(p).token = lease[p].token
         /\ Remember(p).until = Until(lease[p])
  BY DEF Remember, Until

\* A call that returns nothing, or its lease to its own caller.
LEMMA ReturnCustody ==
  ASSUME Shape, Custody, NEW p \in Procs, Return(p), UNCHANGED <<missions, now>>,
         \/ UNCHANGED held /\ pc[p] # "committed"
         \/ held' = [held EXCEPT ![p] = None]
         \/ held' = [held EXCEPT ![p] = Remember(p)] /\ pc[p] \in {"committed", "compiling"}
  PROVE  Custody'
  <1>1. OthersStay(p) /\ pc'[p] = "ready"
    BY ReturnStays
  <1>2. \A q \in Procs \ {p} : held'[q] = held[q]
    BY DEF Shape, TypeOK
  <1>3. \/ held'[p] = held[p] /\ pc[p] # "committed"
        \/ held'[p] = None
        \/ held'[p] = Remember(p) /\ pc[p] \in {"committed", "compiling"}
    BY DEF Shape, TypeOK
  <1>4. \A m \in Missions : \A k \in Tokens : Bears(p, m, k)' => Bears(p, m, k)
    BY <1>1, <1>3, RememberFacts DEF Bears, BearsOf
  <1>5. Sound(pc'[p], call'[p], lease'[p], held'[p], missions, now)
    BY <1>1, <1>3, RememberFacts DEF Custody, BeliefSound, Sound
  <1> QED  BY <1>1, <1>2, <1>4, <1>5, CustodyMoves

\* A handoff returns: the recipient alone bears the new token.
LEMMA HandoffCustody ==
  ASSUME Shape, Custody, NEW p \in Procs, LeaseReturn(p), call[p].op = "handoff",
         NEW q \in Procs, q = call[p].to, q # p
  PROVE  Custody'
  <1> DEFINE M == call[p].mission
             K == lease[p].token
  <1>1. OthersStay(p) /\ pc'[p] = "ready" /\ UNCHANGED <<missions, now>>
    BY ReturnStays DEF LeaseReturn
  <1>2. pc[p] = "committed" /\ M \in Missions /\ K \in Tokens
    BY BeliefFields DEF LeaseReturn
  <1>3. /\ held'[q] = Remember(p)
        /\ held'[p] = GivenUp(p)
        /\ \A r \in Procs \ {p, q} : held'[r] = held[r]
    BY DEF LeaseReturn, Shape, TypeOK
  <1>4. Bears(p, M, K)
    BY <1>2 DEF Bears, BearsOf
  <1>5. K < Len(missions[M].leases) /\ \A r \in Procs \ {p} : ~Bears(r, M, K)
    BY <1>2, <1>4 DEF Custody, OneBearer
  <1>6. GivenUp(p) # None => /\ held[p] # None
                             /\ GivenUp(p).mission = held[p].mission
                             /\ GivenUp(p).token = held[p].token
                             /\ GivenUp(p).until = 0
    BY DEF GivenUp, Shape, TypeOK, Belief
  <1>7. Remember(p).mission = M /\ Remember(p).token = K /\ Remember(p).until = Until(lease[p])
    BY RememberFacts
  <1>8. held[p] # None => ~(held[p].mission = M /\ held[p].token = K)
    BY <1>2 DEF Custody, HandoffPending
  <1> HIDE DEF M, K
  <1>9. ASSUME NEW m \in Missions, NEW k \in Tokens
        PROVE  /\ Bears(p, m, k)' => Bears(p, m, k) /\ ~(m = M /\ k = K)
               /\ Bears(q, m, k)' => Bears(q, m, k) \/ (m = M /\ k = K)
               /\ \A r \in Procs \ {p, q} :
                      Bears(r, m, k)' => Bears(r, m, k) /\ ~(m = M /\ k = K)
    <2>1. Bears(p, m, k)' => Bears(p, m, k) /\ ~(m = M /\ k = K)
      BY <1>1, <1>3, <1>6, <1>8 DEF Bears, BearsOf
    <2>2. Bears(q, m, k)' => Bears(q, m, k) \/ (m = M /\ k = K)
      BY <1>1, <1>3, <1>7 DEF Bears, BearsOf, OthersStay
    <2>3. \A r \in Procs \ {p, q} : Bears(r, m, k)' => Bears(r, m, k)
      BY <1>1, <1>3 DEF Bears, OthersStay
    <2> QED  BY <1>5, <2>1, <2>2, <2>3
  <1>10. OneBearer'
    <2> SUFFICES ASSUME NEW r \in Procs, NEW m \in Missions, NEW k \in Tokens, Bears(r, m, k)'
                 PROVE  /\ k < Len(missions[m].leases)
                        /\ \A x \in Procs \ {r} : ~Bears(x, m, k)'
      BY <1>1 DEF OneBearer
    <2>1. CASE m = M /\ k = K
      <3>1. r = q
        BY <1>9, <2>1
      <3> QED  BY <1>5, <1>9, <2>1, <3>1
    <2>2. CASE ~(m = M /\ k = K)
      <3>1. \A x \in Procs : Bears(x, m, k)' => Bears(x, m, k)
        BY <1>9, <2>2
      <3> QED  BY <3>1 DEF Custody, OneBearer
    <2> QED  BY <2>1, <2>2
  <1>11. HandoffPending'
    <2> SUFFICES ASSUME NEW r \in Procs, pc'[r] = "committed", call'[r].op = "handoff",
                        held'[r] # None, held'[r].mission = call'[r].mission,
                        held'[r].token = lease'[r].token
                 PROVE  FALSE
      BY DEF HandoffPending
    <2>1. r # p /\ pc[r] = "committed" /\ call'[r] = call[r] /\ lease'[r] = lease[r]
      BY <1>1 DEF OthersStay
    <2>2. CASE r = q
      <3>1. Bears(q, M, K)
        BY <1>3, <1>7, <2>1, <2>2 DEF Bears, BearsOf
      <3> QED  BY <1>5, <2>1, <2>2, <3>1
    <2>3. CASE r # q
      BY <1>3, <2>1, <2>3 DEF Custody, HandoffPending
    <2> QED  BY <2>2, <2>3
  <1>12. BeliefSound'
    <2>1. Sound(pc[p], call[p], lease[p], held[p], missions, now)
      BY DEF Custody, BeliefSound
    <2>2. Sound(pc'[p], call'[p], lease'[p], held'[p], missions, now)
      <3>1. GivenUp(p) # None => Holds(missions, now, GivenUp(p).mission, GivenUp(p).token, 0)
        BY Untouched DEF Holds
      <3> QED  BY <1>1, <1>3, <1>6, <3>1 DEF Sound
    <2>3. Sound(pc'[q], call'[q], lease'[q], held'[q], missions, now)
      <3>1. Holds(missions, now, M, K, Until(lease[p]))
        BY <1>2, <2>1 DEF Sound, M, K
      <3>2. pc'[q] = pc[q] /\ call'[q] = call[q] /\ lease'[q] = lease[q]
        BY <1>1 DEF OthersStay
      <3>3. Sound(pc[q], call[q], lease[q], held[q], missions, now)
        BY DEF Custody, BeliefSound
      <3> QED  BY <1>3, <1>7, <3>1, <3>2, <3>3 DEF Sound
    <2>4. \A r \in Procs \ {p, q} :
              Sound(pc'[r], call'[r], lease'[r], held'[r], missions, now)
      BY <1>1, <1>3 DEF Custody, BeliefSound, OthersStay
    <2> QED  BY <1>1, <2>2, <2>3, <2>4 DEF BeliefSound
  <1> QED  BY <1>10, <1>11, <1>12 DEF Custody

LEMMA LeavesCustody ==
  ASSUME Shape, Custody, NEW p \in Procs, Leaves(p)
  PROVE  Custody'
  <1>1. Return(p) /\ UNCHANGED <<missions, now>>
    BY DEF Leaves, LeaseRefuse, AcquireUnverified, LeaseExhausted, LeaseCancel, LeaseReturn,
           ContextReady, Crash
  <1>2. CASE LeaseReturn(p) /\ call[p].op = "handoff"
    <2>1. call[p].to \in Procs
      BY <1>2, BeliefFields, CallFields DEF LeaseReturn
    <2>2. CASE call[p].to = p
      <3>1. held' = [held EXCEPT ![p] = Remember(p)] /\ pc[p] = "committed"
        BY <1>2, <2>2 DEF LeaseReturn, Shape, TypeOK
      <3> QED  BY <1>1, <3>1, ReturnCustody
    <2> QED  BY <1>2, <2>1, <2>2, HandoffCustody
  <1>3. CASE LeaseReturn(p) /\ call[p].op # "handoff"
    <2>1. held' = [held EXCEPT ![p] = Remember(p)] /\ pc[p] = "committed"
      BY <1>3 DEF LeaseReturn
    <2> QED  BY <1>1, <2>1, ReturnCustody
  <1>4. CASE ContextReady(p)
    <2>1. held' = [held EXCEPT ![p] = Remember(p)] /\ pc[p] = "compiling"
      BY <1>4 DEF ContextReady
    <2> QED  BY <1>1, <2>1, ReturnCustody
  <1>5. CASE Crash(p)
    BY <1>1, <1>5, ReturnCustody DEF Crash
  <1>6. CASE LeaseRefuse(p) \/ AcquireUnverified(p) \/ LeaseExhausted(p) \/ LeaseCancel(p)
    <2>1. UNCHANGED held /\ pc[p] # "committed"
      BY <1>6 DEF LeaseRefuse, AcquireUnverified, LeaseExhausted, LeaseCancel
    <2> QED  BY <1>1, <2>1, ReturnCustody
  <1> QED  BY <1>2, <1>3, <1>4, <1>5, <1>6 DEF Leaves

\* A commit by p takes no live lease away from anybody but p.
LEMMA CommitHolds ==
  ASSUME Shape, Register, NEW p \in Procs, LeaseCommit(p),
         NEW m \in Missions, NEW k \in Tokens, NEW until \in Nat,
         Holds(missions, now, m, k, until),
         ~(m = call[p].mission /\ call[p].op \in Keeping /\ k = call[p].token)
  PROVE  Holds(missions', now, m, k, until)
  <1>1. CASE m # call[p].mission
    BY <1>1, CommitLeases DEF Holds
  <1>2. CASE m = call[p].mission
    <2> SUFFICES ASSUME until > now PROVE FALSE
      BY DEF Holds
    <2> DEFINE leases == missions[m].leases
               row == lease[p]
    <2>1. /\ leases # <<>> /\ Latest(leases).token = k
          /\ Latest(leases).action # "released" /\ Latest(leases).expires = until
      BY DEF Holds
    <2>2. RowFits(call[p], row, missions, now) /\ row \in LeaseRow /\ call[p] \in Call
      BY CommitFacts DEF Register, RowReady
    <2>3. row.time \in Nat /\ row.time <= now /\ now \in Nat
      BY <2>2, RowFields, Untouched DEF RowFits
    <2> HIDE DEF row, leases
    <2>4. Live(leases, row.time)
      BY <2>1, <2>3 DEF Live
    <2>5. row.action # "claimed"
      BY <1>2, <2>2, <2>4 DEF RowFits, Follows, leases
    <2>6. call[p].op \in Keeping
      BY <2>2, <2>5, CallFields DEF RowFits, ActionOf, Keeping
    <2>7. k = call[p].token
      BY <1>2, <2>1, <2>2, <2>6 DEF RowFits, leases
    <2> QED  BY <1>2, <2>6, <2>7
  <1> QED  BY <1>1, <1>2

\* The token of the row p commits is new, or the one its call named.
LEMMA CommitToken ==
  ASSUME Shape, Register, NEW p \in Procs, LeaseCommit(p)
  PROVE  /\ lease[p].token \in Tokens
         /\ Len(missions[call[p].mission].leases) \in Nat
         /\ \/ call[p].op \in Keeping /\ call[p].op # "handoff"
                 /\ lease[p].token = call[p].token
            \/ lease[p].token = Len(missions[call[p].mission].leases)
         /\ call[p].op = "handoff" =>
               lease[p].token = Len(missions[call[p].mission].leases)
  <1> DEFINE leases == missions[call[p].mission].leases
  <1>1. RowFits(call[p], lease[p], missions, now) /\ lease[p] \in LeaseRow /\ call[p] \in Call
    BY CommitFacts DEF Register, RowReady
  <1>2. leases \in Seq(LeaseRow)
    BY CommitFacts, CommitLeases
  <1>3. /\ lease[p].action = ActionOf(call[p].op)
        /\ call[p].op \in Keeping => Latest(leases).token = call[p].token
        /\ IF lease[p].action \in {"claimed", "handoff"} THEN lease[p].token = Len(leases)
           ELSE lease[p].token = Latest(leases).token
    BY <1>1 DEF RowFits, Follows
  <1>4. lease[p].token \in Tokens /\ Len(leases) \in Nat
    BY <1>1, <1>2, RowFields DEF Tokens
  <1> HIDE DEF leases
  <1>5. call[p].op \in {"claim", "acquire", "handoff"} => lease[p].token = Len(leases)
    BY <1>3 DEF ActionOf
  <1>6. call[p].op \in {"renew", "release"} => lease[p].token = call[p].token
    BY <1>3 DEF ActionOf, Keeping
  <1> QED  BY <1>1, <1>4, <1>5, <1>6, CallFields DEF Keeping, leases

LEMMA CommitCustody ==
  ASSUME Shape, Register, Custody, NEW p \in Procs, LeaseCommit(p)
  PROVE  Custody'
  <1> DEFINE M == call[p].mission
             K == lease[p].token
             n == Len(missions[M].leases)
  <1>1. /\ pc[p] = "written" /\ call[p] \in Call /\ M \in Missions
        /\ pc'[p] \in {"committed", "compiling"}
        /\ pc'[p] = "compiling" <=> call[p].op = "acquire"
        /\ UNCHANGED <<now, call, lease, held>>
        /\ \A r \in Procs \ {p} : pc'[r] = pc[r]
    <2>1. \A r \in Procs \ {p} : pc'[r] = pc[r]
      BY DEF LeaseCommit, Shape, TypeOK
    <2> QED  BY <2>1, CommitFacts
  <1>2. K \in Tokens /\ n \in Nat
    BY CommitToken
  <1>3. \/ call[p].op \in Keeping /\ K = call[p].token
        \/ K = n
    BY CommitToken
  <1>4. call[p].op \in Keeping => Bears(p, M, call[p].token)
    BY <1>1 DEF Bears, BearsOf
  <1>5. call[p].op = "handoff" => K = n
    BY CommitToken
  <1>6. \A m \in Missions : /\ Len(missions[m].leases) \in Nat
                            /\ Len(missions[m].leases) <= Len(missions'[m].leases)
                            /\ Len(missions'[m].leases) \in Nat
                            /\ m = M => Len(missions'[m].leases) = n + 1
    <2> SUFFICES ASSUME NEW m \in Missions
                 PROVE  /\ Len(missions[m].leases) \in Nat
                        /\ Len(missions[m].leases) <= Len(missions'[m].leases)
                        /\ Len(missions'[m].leases) \in Nat
                        /\ m = M => Len(missions'[m].leases) = n + 1
      OBVIOUS
    <2>1. missions[m].leases \in Seq(LeaseRow) /\ lease[p] \in LeaseRow
      BY CommitLeases
    <2>2. m = M => Len(missions'[m].leases) = n + 1
      <3>1. m = M => missions'[m].leases = Append(missions[m].leases, lease[p])
        BY CommitLeases
      <3> QED  BY SMTT(20), <2>1, <3>1, AppendedLatest
    <2>3. m # M => missions'[m] = missions[m]
      BY CommitLeases
    <2> QED  BY <2>1, <2>2, <2>3
  <1>7. ASSUME NEW m \in Missions, NEW k \in Tokens
        PROVE  /\ \A r \in Procs \ {p} : Bears(r, m, k)' => Bears(r, m, k)
               /\ Bears(p, m, k)' => Bears(p, m, k) \/ (m = M /\ k = K)
    BY <1>1 DEF Bears, BearsOf
  <1>8. Bears(p, M, K) \/ \A r \in Procs : ~Bears(r, M, K)
    <2>1. CASE K = n
      BY <1>1, <1>2, <2>1 DEF Custody, OneBearer
    <2> QED  BY <1>3, <1>4, <2>1
  <1> HIDE DEF M, K, n
  <1>9. OneBearer'
    <2> SUFFICES ASSUME NEW r \in Procs, NEW m \in Missions, NEW k \in Tokens, Bears(r, m, k)'
                 PROVE  /\ k < Len(missions'[m].leases)
                        /\ \A x \in Procs \ {r} : ~Bears(x, m, k)'
      BY DEF OneBearer
    <2>1. CASE Bears(r, m, k)
      <3>1. k < Len(missions[m].leases) /\ \A x \in Procs \ {r} : ~Bears(x, m, k)
        BY <2>1 DEF Custody, OneBearer
      <3>2. k < Len(missions'[m].leases)
        BY <1>6, <3>1 DEF Tokens
      <3>3. ASSUME NEW x \in Procs \ {r}, Bears(x, m, k)'
            PROVE  FALSE
        <4>1. x = p /\ m = M /\ k = K
          BY <1>7, <3>1, <3>3
        <4>2. ~Bears(p, M, K) /\ Bears(r, M, K)
          BY <2>1, <3>1, <4>1
        <4> QED  BY <1>8, <4>2
      <3> QED  BY <3>2, <3>3
    <2>2. CASE ~Bears(r, m, k)
      <3>1. r = p /\ m = M /\ k = K
        BY <1>7, <2>2
      <3>2. \A x \in Procs : ~Bears(x, M, K)
        BY <1>8, <2>2, <3>1
      <3>3. K = n
        BY <1>3, <1>4, <3>2 DEF K
      <3>4. k < Len(missions'[m].leases)
        BY <1>2, <1>6, <3>1, <3>3
      <3> QED  BY <1>7, <3>1, <3>2, <3>4
    <2> QED  BY <2>1, <2>2
  <1>10. HandoffPending'
    <2> SUFFICES ASSUME NEW r \in Procs, pc'[r] = "committed", call[r].op = "handoff",
                        held[r] # None, held[r].mission = call[r].mission,
                        held[r].token = lease[r].token
                 PROVE  FALSE
      BY <1>1 DEF HandoffPending
    <2>1. CASE r = p
      <3>1. Bears(p, M, K) /\ K = n
        BY <1>5, <2>1 DEF Bears, BearsOf, M, K
      <3>2. K < n
        BY <1>1, <1>2, <3>1 DEF Custody, OneBearer, M, n
      <3> QED  BY <1>2, <3>1, <3>2
    <2>2. CASE r # p
      BY <1>1, <2>2 DEF Custody, HandoffPending
    <2> QED  BY <2>1, <2>2
  <1>11. ASSUME NEW r \in Procs, r # p \/ call[r].op \notin Keeping,
                NEW m \in Missions, NEW k \in Tokens, NEW until \in Nat,
                Bears(r, m, k), Holds(missions, now, m, k, until)
         PROVE  Holds(missions', now, m, k, until)
    <2>1. ~(m = M /\ call[p].op \in Keeping /\ k = call[p].token)
      BY <1>4, <1>11 DEF Custody, OneBearer
    <2> QED  BY <1>11, <2>1, CommitHolds DEF M
  <1>12. BeliefSound'
    <2> SUFFICES ASSUME NEW r \in Procs
                 PROVE  Sound(pc'[r], call[r], lease[r], held[r], missions', now)
      BY <1>1 DEF BeliefSound
    <2>1. Sound(pc[r], call[r], lease[r], held[r], missions, now)
      BY DEF Custody, BeliefSound
    <2>2. ASSUME held[r] # None, pc'[r] # "committed"
          PROVE  Holds(missions', now, held[r].mission, held[r].token, held[r].until)
      <3>1. pc[r] # "committed" /\ (r # p \/ call[r].op \notin Keeping)
        BY <1>1, <2>2 DEF Keeping
      <3>2. Bears(r, held[r].mission, held[r].token)
        BY <2>2 DEF Bears, BearsOf
      <3>3. Holds(missions, now, held[r].mission, held[r].token, held[r].until)
        BY <2>1, <2>2, <3>1 DEF Sound
      <3> QED  BY <1>11, <2>2, <3>1, <3>2, <3>3, BeliefFields
    <2>3. ASSUME pc'[r] \in {"committed", "compiling"}
          PROVE  Holds(missions', now, call[r].mission, lease[r].token, Until(lease[r]))
      <3>1. CASE r # p
        <4>1. pc[r] \in {"committed", "compiling"}
          BY <1>1, <2>3, <3>1
        <4>2. Bears(r, call[r].mission, lease[r].token)
          BY <4>1 DEF Bears, BearsOf
        <4>3. Holds(missions, now, call[r].mission, lease[r].token, Until(lease[r]))
          BY <2>1, <4>1 DEF Sound
        <4> QED  BY <1>11, <3>1, <4>1, <4>2, <4>3, BeliefFields
      <3>2. CASE r = p
        <4>1. /\ missions'[M].leases # <<>>
              /\ Latest(missions'[M].leases) = lease[p]
          <5>1. /\ missions[M].leases \in Seq(LeaseRow) /\ lease[p] \in LeaseRow
                /\ missions'[M].leases = Append(missions[M].leases, lease[p])
            BY <1>1, CommitLeases DEF M
          <5> QED  BY <5>1, AppendedLatest
        <4>2. now \in Nat
          BY Untouched
        <4> QED  BY <3>2, <4>1, <4>2 DEF Holds, Until, M
      <3> QED  BY <3>1, <3>2
    <2> QED  BY <2>2, <2>3 DEF Sound
  <1> QED  BY <1>9, <1>10, <1>12 DEF Custody

LEMMA NextCustody == Shape /\ Register /\ Custody /\ [Next]_vars => Custody'
  <1> SUFFICES ASSUME Shape, Register, Custody, [Next]_vars PROVE Custody'
    OBVIOUS
  <1>1. ASSUME UNCHANGED <<callVars, held>>, now' \in Nat, now <= now',
               \A m \in Missions : missions'[m].leases = missions[m].leases
        PROVE  Custody'
    <2>1. \A p \in Procs : \A m \in Missions : \A k \in Tokens :
              Bears(p, m, k)' <=> Bears(p, m, k)
      BY <1>1 DEF callVars, Bears
    <2>2. OneBearer'
      BY <1>1, <2>1 DEF Custody, OneBearer
    <2>3. HandoffPending'
      BY <1>1 DEF callVars, Custody, HandoffPending
    <2>4. ASSUME NEW p \in Procs
          PROVE  Sound(pc[p], call[p], lease[p], held[p], missions', now')
      BY <1>1, SoundLater DEF Custody, BeliefSound
    <2>5. BeliefSound'
      BY <1>1, <2>4 DEF callVars, BeliefSound
    <2> QED  BY <2>2, <2>3, <2>5 DEF Custody
  <1>2. CASE Environment
    BY <1>1, <1>2, EnvironmentFacts
  <1>3. CASE UNCHANGED vars
    <2>1. now \in Nat /\ now <= now
      BY DEF Shape, TypeOK
    <2> QED  BY <1>1, <1>3, <2>1 DEF vars
  <1>4. ASSUME NEW p \in Procs, NEW c \in Call, Enter(p, c),
               c.op \in Keeping => /\ held[p] # None
                                   /\ c.mission = held[p].mission
                                   /\ c.token = held[p].token
        PROVE  Custody'
    BY <1>4, EnterCustody
  <1> QED
    BY <1>2, <1>3, <1>4, Cases, InsideCustody, CommitCustody, FailedCustody, LeavesCustody
       DEF NextCases

\* What a worker may conclude from the lease it remembers.
LEMMA CustodyGives ==
  ASSUME Shape, Custody
  PROVE  CurrentHolder
  <1>1. ASSUME NEW p \in Procs, Believes(p)
        PROVE  /\ Owns(missions[held[p].mission].leases, held[p].token, now)
               /\ Bears(p, held[p].mission, held[p].token)
               /\ held[p].mission \in Missions /\ held[p].token \in Tokens
    <2>1. Holds(missions, now, held[p].mission, held[p].token, held[p].until)
      BY <1>1 DEF Believes, Custody, BeliefSound, Sound
    <2> QED  BY <1>1, <2>1, BeliefFields DEF Believes, Holds, Owns, Live, Bears, BearsOf
  <1>2. ASSUME NEW p \in Procs, Believes(p), NEW q \in Procs \ {p}, Believes(q),
               held[q].mission = held[p].mission
        PROVE  FALSE
    <2>1. held[q].token = held[p].token
      BY <1>1, <1>2 DEF Owns
    <2> QED  BY <1>1, <1>2, <2>1 DEF Custody, OneBearer
  <1> QED  BY <1>1, <1>2 DEF CurrentHolder

LEMMA CustodyInvariant == Spec => [](Shape /\ Register /\ Custody)
  <1>1. Init => Custody
    BY InitCustody
  <1> QED  BY <1>1, RegisterInvariant, NextCustody, PTL DEF Spec

\* A worker whose lease has not run out by its own record is the mission's
\* owner, and the only one that thinks so (lease.go 18-405): an old token is
\* good for nothing once it was handed off, released, reclaimed or overtaken.
THEOREM HolderIsCurrent == Spec => []CurrentHolder
  <1>1. Shape /\ Register /\ Custody => CurrentHolder
    BY CustodyGives
  <1> QED  BY <1>1, CustodyInvariant, PTL

-----------------------------------------------------------------------------
(* Implementation of LeaseOwnership *)

LEMMA OwnerFields ==
  ASSUME NEW leases \in Seq(LeaseRow)
  PROVE  /\ OwnerOf(leases) \in Ownership!Term
         /\ leases = <<>> => /\ OwnerOf(leases).token = 0
                             /\ OwnerOf(leases).since = 0
                             /\ OwnerOf(leases).until = 0
         /\ leases # <<>> => /\ OwnerOf(leases).token = Latest(leases).token + 1
                             /\ OwnerOf(leases).since = Latest(leases).time
                             /\ OwnerOf(leases).until = Until(Latest(leases))
  <1>1. CASE leases = <<>>
    BY <1>1 DEF OwnerOf, Ownership!Term
  <1>2. CASE leases # <<>>
    BY <1>2, LatestType, RowFields DEF OwnerOf, Ownership!Term, Until
  <1> QED  BY <1>1, <1>2

\* A row that follows a history changes the owner as LeaseOwnership allows.
LEMMA OwnerChanges ==
  ASSUME NEW leases \in Seq(LeaseRow), NEW row \in LeaseRow, Follows(row, leases),
         leases # <<>> => Latest(leases).token < Len(leases),
         row.action # "released" => row.time < row.expires,
         NEW old, old = OwnerOf(leases), NEW term, term = OwnerOf(Append(leases, row))
  PROVE  /\ term \in Ownership!Term
         /\ term.since = row.time /\ old.since <= row.time
         /\ row.action = "claimed"  => old.until <= row.time /\ term.token > old.token
         /\ row.action = "handoff"  => old.until > row.time /\ term.token > old.token
         /\ row.action = "renewed"  => /\ old.until > row.time /\ term.token = old.token
                                       /\ term.until > row.time
         /\ row.action = "released" => /\ old.until > row.time /\ term.token = old.token
                                       /\ term.until = 0
  <1>1. /\ term \in Ownership!Term
        /\ term.token = row.token + 1 /\ term.since = row.time /\ term.until = Until(row)
    BY AppendedLatest, OwnerFields
  <1>2. /\ row.token \in Nat /\ row.time \in Nat /\ row.expires \in Nat /\ row.action \in Actions
        /\ Len(leases) \in Nat
    BY RowFields
  <1>3. CASE leases = <<>>
    <2>1. old.token = 0 /\ old.since = 0 /\ old.until = 0 /\ Len(leases) = 0
      BY <1>3, OwnerFields
    <2>2. row.action = "claimed" /\ row.token = 0
      BY <1>3, <2>1 DEF Follows, Live
    <2> QED  BY <1>1, <1>2, <2>1, <2>2
  <1>4. CASE leases # <<>>
    <2> DEFINE last == Latest(leases)
    <2>1. /\ last \in LeaseRow
          /\ last.token \in Nat /\ last.time \in Nat /\ last.expires \in Nat
      BY <1>4, LatestType, RowFields
    <2>2. old.token = last.token + 1 /\ old.since = last.time /\ old.until = Until(last)
      BY <1>4, OwnerFields
    <2>3. /\ row.action = "claimed" <=> ~(last.action # "released" /\ last.expires > row.time)
          /\ row.action \in {"claimed", "handoff"} => row.token = Len(leases)
          /\ row.action \notin {"claimed", "handoff"} => row.token = last.token
          /\ last.time <= row.time
      BY <1>4 DEF Follows, Live
    <2>4. last.token < Len(leases)
      BY <1>4
    <2> HIDE DEF last
    <2>5. row.action = "claimed" => old.until <= row.time
      BY <1>2, <2>1, <2>2, <2>3 DEF Until
    <2>6. row.action # "claimed" => old.until > row.time
      BY <1>2, <2>1, <2>2, <2>3 DEF Until
    <2>7. row.action \in {"claimed", "handoff"} => term.token > old.token
      BY <1>1, <1>2, <2>1, <2>2, <2>3, <2>4
    <2>8. row.action \notin {"claimed", "handoff"} => term.token = old.token
      BY <1>1, <2>2, <2>3
    <2>9. /\ row.action = "renewed" => term.until > row.time
          /\ row.action = "released" => term.until = 0
      BY <1>1, <1>2 DEF Until
    <2> QED  BY <1>1, <2>2, <2>3, <2>5, <2>6, <2>7, <2>8, <2>9
  <1> QED  BY <1>3, <1>4

LEMMA InitMaps == Init => Ownership!OInit
  <1> SUFFICES ASSUME Init PROVE Ownership!OInit
    OBVIOUS
  <1>1. \A m \in Missions : missions[m] = [status |-> "active", updated |-> 0, leases |-> <<>>]
    BY DEF Init
  <1>2. ownerOf = [m \in Missions |-> [token |-> 0, since |-> 0, until |-> 0]]
    BY <1>1 DEF ownerOf, OwnerOf
  <1>3. closedOf = {}
    BY <1>1 DEF closedOf
  <1>4. now \in Nat
    BY DEF Init
  <1> QED  BY <1>2, <1>3, <1>4 DEF Ownership!OInit

LEMMA CommitMaps ==
  ASSUME Shape, Register, NEW p \in Procs, LeaseCommit(p)
  PROVE  Ownership!ONext
  <1> DEFINE m == call[p].mission
             leases == missions[m].leases
             row == lease[p]
             term == ownerOf'[m]
  <1>1. /\ m \in Missions /\ row \in LeaseRow /\ leases \in Seq(LeaseRow)
        /\ missions'[m].leases = Append(leases, row)
        /\ missions'[m].status = missions[m].status
        /\ now' = now
        /\ \A n \in Missions \ {m} : missions'[n] = missions[n]
    BY CommitFacts, CommitLeases
  <1>2. /\ Follows(row, leases) /\ row.time <= now
        /\ row.action # "released" => row.time < row.expires
        /\ row.action = "claimed" => missions[m].status = "active"
    BY CommitFacts DEF Register, RowReady, RowFits
  <1>3. leases # <<>> => Latest(leases).token < Len(leases)
    BY <1>1 DEF Register, HistoryOrdered
  <1>4. ownerOf[m] = OwnerOf(leases) /\ term = OwnerOf(Append(leases, row))
    BY <1>1 DEF ownerOf
  <1>5. ownerOf' = [ownerOf EXCEPT ![m] = term]
    BY <1>1 DEF ownerOf
  <1>6. closedOf' = closedOf
    BY <1>1 DEF closedOf
  <1>7. row.action = "claimed" => m \notin closedOf
    BY <1>2 DEF closedOf
  <1>8. row.time \in Nat /\ now \in Nat /\ row.action \in Actions /\ ownerOf[m] \in Ownership!Term
    BY <1>1, <1>4, RowFields, OwnerFields, Untouched
  <1> HIDE DEF leases, row, term
  <1>9. /\ term \in Ownership!Term
        /\ term.since = row.time /\ ownerOf[m].since <= row.time
        /\ row.action = "claimed"  => ownerOf[m].until <= row.time /\ term.token > ownerOf[m].token
        /\ row.action = "handoff"  => ownerOf[m].until > row.time /\ term.token > ownerOf[m].token
        /\ row.action = "renewed"  => /\ ownerOf[m].until > row.time
                                      /\ term.token = ownerOf[m].token
                                      /\ term.until > row.time
        /\ row.action = "released" => /\ ownerOf[m].until > row.time
                                      /\ term.token = ownerOf[m].token
                                      /\ term.until = 0
    BY <1>1, <1>2, <1>3, <1>4, OwnerChanges
  <1>10. Ownership!Change(m, term)
    BY <1>1, <1>5, <1>6 DEF Ownership!Change
  <1>11. term.since \in Ownership!Instants(m)
    BY <1>2, <1>8, <1>9 DEF Ownership!Instants, Ownership!Term
  <1>12. Ownership!Changed(m, term)
    <2>1. CASE row.action = "claimed"
      BY <1>7, <1>9, <1>10, <1>11, <2>1 DEF Ownership!Changed, Ownership!Grant
    <2>2. CASE row.action = "handoff"
      BY <1>9, <1>10, <1>11, <2>2 DEF Ownership!Changed, Ownership!Transfer
    <2>3. CASE row.action = "renewed"
      BY <1>9, <1>10, <1>11, <2>3 DEF Ownership!Changed, Ownership!Extend
    <2>4. CASE row.action = "released"
      BY <1>9, <1>10, <1>11, <2>4 DEF Ownership!Changed, Ownership!Drop
    <2> QED  BY <1>8, <2>1, <2>2, <2>3, <2>4 DEF Actions
  <1> QED  BY <1>1, <1>12 DEF Ownership!ONext, term

LEMMA EnvironmentMaps ==
  ASSUME Shape, Environment
  PROVE  [Ownership!ONext]_(Ownership!ovars)
  <1>1. ownerOf' = ownerOf
    BY EnvironmentFacts DEF ownerOf
  <1>2. CASE Tick
    <2>1. Ownership!Tick
      BY <1>1, <1>2 DEF Tick, closedOf, Ownership!Tick, Shape, TypeOK
    <2> QED  BY <2>1 DEF Ownership!ONext
  <1>3. ASSUME NEW m \in Missions, CheckpointMission(m)
        PROVE  UNCHANGED Ownership!ovars
    <2>1. \A n \in Missions : missions'[n].status = missions[n].status
      BY <1>3 DEF CheckpointMission, Shape, TypeOK, Mission
    <2>2. closedOf' = closedOf
      BY <2>1 DEF closedOf
    <2> QED  BY <1>1, <1>3, <2>2 DEF CheckpointMission, Ownership!ovars
  <1>4. ASSUME NEW m \in Missions, CompleteMission(m)
        PROVE  Ownership!ONext
    <2>1. \A n \in Missions : missions'[n].status =
                                 IF n = m THEN "completed" ELSE missions[n].status
      BY <1>4 DEF CompleteMission, Shape, TypeOK, Mission
    <2>2. closedOf' = closedOf \cup {m}
      BY <2>1 DEF closedOf
    <2> QED  BY <1>1, <1>4, <2>2 DEF CompleteMission, Ownership!Close, Ownership!ONext
  <1> QED  BY <1>2, <1>3, <1>4 DEF Environment

LEMMA NextMaps ==
  Shape /\ Register /\ [Next]_vars => [Ownership!ONext]_(Ownership!ovars)
  <1> SUFFICES ASSUME Shape, Register, [Next]_vars
               PROVE  [Ownership!ONext]_(Ownership!ovars)
    OBVIOUS
  <1>1. ASSUME UNCHANGED <<missions, now>>
        PROVE  UNCHANGED Ownership!ovars
    BY <1>1 DEF Ownership!ovars, ownerOf, closedOf
  <1>2. ASSUME NEW p \in Procs, Aside(p) \/ LeaseRead(p) \/ \E m \in Missions : LeaseWrite(p, m)
        PROVE  UNCHANGED Ownership!ovars
    <2>1. CASE Aside(p)
      BY <1>1, <2>1, AsideFacts
    <2>2. CASE LeaseRead(p) \/ \E m \in Missions : LeaseWrite(p, m)
      BY <1>1, <2>2 DEF LeaseRead, LeaseWrite
    <2> QED  BY <1>2, <2>1, <2>2
  <1>3. CASE UNCHANGED vars
    BY <1>1, <1>3 DEF vars
  <1> QED
    BY <1>2, <1>3, CommitMaps, EnvironmentMaps, Cases DEF NextCases, Aside

\* The lease transactions (lease.go 18-405) implement one register of
\* ownership per mission: each change has its place in time, no owner loses a
\* live lease against its will, and completed missions get no new owner.
THEOREM LeasesImplementOwnership == Spec => ImplementsOwnership
  <1>1. Init => Ownership!OInit
    BY InitMaps
  <1> QED
    BY <1>1, RegisterInvariant, NextMaps, PTL DEF Spec, ImplementsOwnership, Ownership!Spec

-----------------------------------------------------------------------------
(* Acquisition *)

LEMMA CommitOldest ==
  ASSUME Shape, Register, NEW p \in Procs, LeaseCommit(p), pc'[p] = "compiling",
         NEW n \in Available(missions, lease[p].time)
  PROVE  ~Older(missions, n, call[p].mission)
  <1> DEFINE m == call[p].mission
  <1>1. m \in Missions /\ call[p].op = "acquire"
    BY CommitFacts
  <1>2. AcquireAllowed(missions, m, lease[p].time)
    BY <1>1, CommitFacts DEF Register, RowReady, RowFits
  <1>3. n \in Missions
    BY DEF Available
  <1>4. m \in Nat /\ n \in Nat /\ missions[m].updated \in Nat /\ missions[n].updated \in Nat
    BY <1>1, <1>3, MissionsAssumption, MissionFields, Untouched
  <1>5. n = m \/ Older(missions, m, n)
    BY <1>2 DEF AcquireAllowed
  <1> HIDE DEF m
  <1>6. ~Older(missions, n, m)
    BY <1>4, <1>5 DEF Older
  <1> QED  BY <1>6 DEF m

LEMMA NextOldest ==
  ASSUME Shape, Register, [Next]_vars, NEW p \in Procs, pc[p] = "written", pc'[p] = "compiling"
  PROVE  \A n \in Available(missions, lease[p].time) : ~Older(missions, n, call[p].mission)
  <1>1. ASSUME NEW q \in Procs, Aside(q) \/ LeaseRead(q) \/ \E m \in Missions : LeaseWrite(q, m)
        PROVE  FALSE
    <2>1. pc'[q] # "compiling" /\ OthersStay(q)
      <3>1. CASE Aside(q)
        BY <3>1, AsideFacts
      <3>2. CASE LeaseRead(q) \/ \E m \in Missions : LeaseWrite(q, m)
        BY <3>2 DEF LeaseRead, LeaseWrite, OthersStay, Shape, TypeOK
      <3> QED  BY <1>1, <3>1, <3>2
    <2> QED  BY <2>1 DEF OthersStay
  <1>2. ASSUME NEW q \in Procs, LeaseCommit(q)
        PROVE  p = q
    BY <1>2 DEF LeaseCommit, Shape, TypeOK
  <1>3. ~Environment /\ ~UNCHANGED vars
    BY EnvironmentFacts DEF vars, callVars
  <1> QED  BY <1>1, <1>2, <1>3, CommitOldest, Cases DEF NextCases, Aside

\* Acquisition (lease.go 104-220) takes the oldest active mission nobody owns:
\* no mission that was available at the instant in its row is older when it
\* commits.
THEOREM OldestAcquired == Spec => AcquiresOldest
  <1>1. Shape /\ Register /\ [Next]_vars =>
            [\A p \in Procs :
                (pc[p] = "written" /\ pc'[p] = "compiling") =>
                    \A n \in Available(missions, lease[p].time) :
                        ~Older(missions, n, call[p].mission)]_vars
    BY NextOldest
  <1> QED  BY <1>1, RegisterInvariant, PTL DEF Spec, AcquiresOldest

-----------------------------------------------------------------------------
(* Calls are bounded *)

\* The number of the pass of every other worker.
LEMMA AttemptsOfOthers ==
  ASSUME Shape, NEW p \in Procs, NEW q \in Procs, q # p,
         \/ \E c \in Call : Enter(p, c)
         \/ LeaseRead(p) \/ LeaseRetry(p) \/ LeaseCommit(p) \/ ContextFailed(p) \/ Leaves(p)
         \/ \E m \in Missions : LeaseWrite(p, m)
  PROVE  UNCHANGED attempt[q]
  <1>1. attempt \in [Procs -> 0..MaxAttempts]
    BY DEF Shape, TypeOK
  <1>2. CASE Leaves(p)
    <2>1. Return(p)
      BY <1>2 DEF Leaves, LeaseRefuse, AcquireUnverified, LeaseExhausted, LeaseCancel,
                  LeaseReturn, ContextReady, Crash
    <2> QED  BY <1>1, <2>1 DEF Return
  <1> QED
    BY <1>1, <1>2
       DEF Enter, LeaseRead, LeaseRetry, LeaseCommit, ContextFailed, LeaseWrite

\* So the others stay where they are inside their calls.
LEMMA CallsOfOthers ==
  ASSUME Shape, NEW p \in Procs, NEW q \in Procs, q # p,
         \/ \E c \in Call : Enter(p, c)
         \/ LeaseRead(p) \/ LeaseRetry(p) \/ LeaseCommit(p) \/ ContextFailed(p) \/ Leaves(p)
         \/ \E m \in Missions : LeaseWrite(p, m)
  PROVE  UNCHANGED <<pc[q], call[q], attempt[q], snap[q], lease[q]>>
  <1>1. CASE Aside(p)
    <2>1. OthersStay(p)
      BY <1>1, AsideFacts
    <2> QED  BY <2>1, AttemptsOfOthers DEF OthersStay
  <1>2. CASE LeaseRead(p) \/ LeaseCommit(p) \/ \E m \in Missions : LeaseWrite(p, m)
    <2>1. UNCHANGED <<pc[q], call[q], snap[q], lease[q]>>
      BY <1>2 DEF LeaseRead, LeaseCommit, LeaseWrite, Shape, TypeOK
    <2> QED  BY <2>1, AttemptsOfOthers
  <1> QED  BY <1>1, <1>2 DEF Aside

LEMMA StepsDecrease ==
  ASSUME Shape, NEW p \in Procs, pc[p] # "ready",
         \/ LeaseRead(p) \/ LeaseRetry(p) \/ LeaseCommit(p) \/ ContextFailed(p) \/ Leaves(p)
         \/ \E m \in Missions : LeaseWrite(p, m)
  PROVE  StepsLeft(p)' < StepsLeft(p)
  <1>1. /\ attempt[p] \in Nat /\ attempt[p] <= MaxAttempts /\ MaxAttempts \in Nat
        /\ Fits(pc[p], call[p], snap[p], lease[p]) /\ pc[p] \in Places
    BY LimitsAssumption DEF Shape, TypeOK, CallShape, Places
  <1>2. StepsLeft(p) \in Nat \ {0}
    BY <1>1 DEF StepsLeft, Places, Fits
  <1>3. CASE Leaves(p)
    <2>1. Return(p)
      BY <1>3 DEF Leaves, LeaseRefuse, AcquireUnverified, LeaseExhausted, LeaseCancel,
                  LeaseReturn, ContextReady, Crash
    <2>2. pc'[p] = "ready"
      BY <2>1, ReturnStays
    <2>3. StepsLeft(p)' = 0
      BY <2>2 DEF StepsLeft
    <2> QED  BY <1>2, <2>3
  <1>4. CASE LeaseRead(p)
    <2>1. pc[p] = "begin" /\ pc'[p] = "read" /\ attempt'[p] = attempt[p] /\ call'[p] = call[p]
      BY <1>4 DEF LeaseRead, Shape, TypeOK
    <2> QED  BY <1>1, <2>1 DEF StepsLeft
  <1>5. CASE LeaseRetry(p)
    <2>1. /\ pc[p] = "read" /\ pc'[p] = "begin" /\ attempt'[p] = attempt[p] + 1
          /\ call'[p] = call[p]
      BY <1>5 DEF LeaseRetry, Shape, TypeOK
    <2> QED  BY <1>1, <2>1 DEF StepsLeft
  <1>6. ASSUME NEW m \in Missions, LeaseWrite(p, m)
        PROVE  StepsLeft(p)' < StepsLeft(p)
    <2>1. pc[p] = "read" /\ pc'[p] = "written" /\ call' = [call EXCEPT ![p].mission = m]
      BY <1>6 DEF LeaseWrite, Shape, TypeOK
    <2>2. call[p] \in Call
      BY <1>1, <2>1 DEF Fits, Inside, Places
    <2>3. call'[p].op = call[p].op
      BY <2>1, <2>2 DEF Call, Shape, TypeOK
    <2> QED  BY <1>1, <2>1, <2>3 DEF StepsLeft
  <1>7. CASE LeaseCommit(p)
    <2>1. /\ pc[p] = "written" /\ call'[p] = call[p]
          /\ pc'[p] \in {"committed", "compiling"}
          /\ pc'[p] = "compiling" <=> call[p].op = "acquire"
      BY <1>7, CommitFacts
    <2> QED  BY <1>1, <2>1 DEF StepsLeft
  <1>8. CASE ContextFailed(p)
    <2>1. /\ pc[p] = "compiling" /\ call[p].op = "acquire"
          /\ pc'[p] = "begin" /\ attempt'[p] = 1 /\ call'[p].op = "release"
      BY <1>1, <1>8, FailedFacts DEF Fits, Shape, TypeOK
    <2> QED  BY <1>1, <2>1 DEF StepsLeft
  <1> QED  BY <1>3, <1>4, <1>5, <1>6, <1>7, <1>8

\* A claim, handoff, renewal or release takes at most 2 * MaxAttempts + 2 steps
\* of its own, and an acquisition at most 4 * MaxAttempts + 5 (lease.go 18-405):
\* the part of CallsReturn that needs no fairness.
THEOREM CallsAreBounded == Spec => CallsBounded
  <1>1. ASSUME Shape, [Next]_vars, NEW q \in Procs, pc[q] # "ready"
        PROVE  \/ StepsLeft(q)' < StepsLeft(q)
               \/ UNCHANGED <<pc[q], call[q], attempt[q], snap[q], lease[q]>>
    <2>1. CASE UNCHANGED callVars
      BY <2>1 DEF callVars
    <2>2. ASSUME NEW p \in Procs,
                 \/ \E c \in Call : Enter(p, c)
                 \/ LeaseRead(p) \/ LeaseRetry(p) \/ LeaseCommit(p) \/ ContextFailed(p) \/ Leaves(p)
                 \/ \E m \in Missions : LeaseWrite(p, m)
          PROVE  \/ StepsLeft(q)' < StepsLeft(q)
                 \/ UNCHANGED <<pc[q], call[q], attempt[q], snap[q], lease[q]>>
      <3>1. CASE p # q
        BY <1>1, <2>2, <3>1, CallsOfOthers
      <3>2. CASE p = q
        <4>1. \/ LeaseRead(q) \/ LeaseRetry(q) \/ LeaseCommit(q) \/ ContextFailed(q) \/ Leaves(q)
              \/ \E m \in Missions : LeaseWrite(q, m)
          BY <1>1, <2>2, <3>2 DEF Enter
        <4> QED  BY <1>1, <4>1, StepsDecrease
      <3> QED  BY <3>1, <3>2
    <2>3. Environment \/ UNCHANGED vars => UNCHANGED callVars
      BY <1>1, EnvironmentFacts DEF vars
    <2>4. NextCases
      BY <1>1, Cases
    <2> QED  BY <2>1, <2>2, <2>3, <2>4 DEF NextCases
  <1>2. Shape /\ [Next]_vars =>
            [\A p \in Procs : pc[p] # "ready" =>
                \/ StepsLeft(p)' < StepsLeft(p)
                \/ UNCHANGED <<pc[p], call[p], attempt[p], snap[p], lease[p]>>]_vars
    BY <1>1
  <1> QED  BY <1>2, RegisterInvariant, PTL DEF Spec, CallsBounded

-----------------------------------------------------------------------------
(* What the leases inherit from LeaseOwnership *)

OwnerTypes == ownerOf \in [Missions -> Ownership!Term]

LEMMA ChangedTerm ==
  ASSUME OwnerTypes, NEW m \in Missions, Ownership!Changed(m, ownerOf'[m])
  PROVE  /\ OwnerTypes'
         /\ \A n \in Missions : ownerOf'[n] # ownerOf[n] => n = m
         /\ ownerOf[m].token <= ownerOf'[m].token
         /\ ownerOf[m].since <= ownerOf'[m].since
         /\ ownerOf'[m].token = ownerOf[m].token \/ m \in closedOf =>
                ownerOf'[m].since < ownerOf[m].until
  <1> DEFINE old == ownerOf[m]
             new == ownerOf'[m]
  <1>1. /\ old \in Ownership!Term /\ new \in Ownership!Term
        /\ new.since \in old.since..now
        /\ ownerOf' = [ownerOf EXCEPT ![m] = new]
    BY DEF OwnerTypes, Ownership!Changed, Ownership!Instants, Ownership!Grant,
           Ownership!Transfer, Ownership!Extend, Ownership!Drop, Ownership!Change
  <1>2. \/ m \notin closedOf /\ old.until <= new.since /\ new.token > old.token
        \/ old.until > new.since /\ new.token >= old.token
    BY <1>1 DEF Ownership!Changed, Ownership!Grant, Ownership!Transfer, Ownership!Extend,
                Ownership!Drop, Ownership!Term
  <1>3. OwnerTypes' /\ \A n \in Missions : ownerOf'[n] # ownerOf[n] => n = m
    <2> HIDE DEF new
    <2> QED  BY <1>1 DEF OwnerTypes
  <1>4. /\ old.token \in Nat /\ old.since \in Nat /\ old.until \in Nat
        /\ new.token \in Nat /\ new.since \in Nat
    BY <1>1 DEF Ownership!Term
  <1>5. old.token <= new.token /\ old.since <= new.since
    <2> HIDE DEF old, new
    <2> QED  BY <1>1, <1>2, <1>4
  <1>6. new.token = old.token \/ m \in closedOf => new.since < old.until
    <2> HIDE DEF old, new
    <2> QED  BY <1>2, <1>4
  <1> QED  BY <1>3, <1>5, <1>6

LEMMA TermsKept ==
  ASSUME OwnerTypes, Ownership!ONext \/ UNCHANGED <<now, closedOf, ownerOf>>
  PROVE  /\ OwnerTypes'
         /\ \A m \in Missions : ownerOf'[m] # ownerOf[m] =>
                /\ ownerOf[m].token <= ownerOf'[m].token
                /\ ownerOf[m].since <= ownerOf'[m].since
                /\ ownerOf'[m].token = ownerOf[m].token \/ m \in closedOf =>
                       ownerOf'[m].since < ownerOf[m].until
  <1>1. CASE \E m \in Missions : Ownership!Changed(m, ownerOf'[m])
    <2>1. PICK m \in Missions : Ownership!Changed(m, ownerOf'[m])
      BY <1>1
    <2> QED  BY <2>1, ChangedTerm
  <1>2. CASE UNCHANGED ownerOf
    BY <1>2 DEF OwnerTypes
  <1> QED
    BY <1>1, <1>2 DEF Ownership!ONext, Ownership!Close, Ownership!Tick

\* Whatever workers renew, hand off, lose or reclaim, and however late their
\* transactions commit (lease.go 49-405), tokens fence their terms: a worker that
\* finds its token replaced, or its lease over, will never own the mission by it
\* again, and nobody is granted a completed mission (lease.go 49).
THEOREM TermsFenced == Spec => Ownership!Fenced
  <1>1. Ownership!OInit => OwnerTypes
    BY DEF Ownership!OInit, Ownership!Term, OwnerTypes
  <1>2. OwnerTypes /\ [Ownership!ONext]_<<now, closedOf, ownerOf>> =>
           /\ OwnerTypes'
           /\ [\A m \in Missions : ownerOf'[m] # ownerOf[m] =>
                  /\ ownerOf[m].token <= ownerOf'[m].token
                  /\ ownerOf[m].since <= ownerOf'[m].since
                  /\ ownerOf'[m].token = ownerOf[m].token \/ m \in closedOf =>
                         ownerOf'[m].since < ownerOf[m].until]_<<now, closedOf, ownerOf>>
    BY TermsKept
  <1> QED
    BY <1>1, <1>2, LeasesImplementOwnership, PTL
       DEF ImplementsOwnership, Ownership!Spec, Ownership!Fenced, Ownership!ovars
=============================================================================
