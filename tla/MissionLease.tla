---------------------------- MODULE MissionLease ----------------------------
(***************************************************************************)
(* Mission leases (internal/store/lease.go): several workers, each with    *)
(* its own process and connection, claim, acquire, hand off, renew and     *)
(* release missions.  Every call is a retry loop around one deferred       *)
(* transaction, which reads the mission and its last lease row, looks at   *)
(* the clock and inserts the next row.  Acquire then compiles the mission  *)
(* context outside the transaction and gives the lease back when that      *)
(* fails or comes too late.                                                *)
(*                                                                         *)
(* A lease token (a uuid) is represented by the sequence number of the row *)
(* that introduced it.  Mission identifiers are numbers in the order of    *)
(* created_at and mission_id, the last sort keys of missionOldestOrder.    *)
(* The processes run on one machine and read one clock that does not go    *)
(* back; it ticks at any moment.                                           *)
(***************************************************************************)
EXTENDS Integers, Sequences, SQLiteTx

CONSTANTS
    Missions,           \* the missions of the ledger, all started at 0
    TTLs,               \* lease durations callers ask for
    MaxAttempts,        \* maxWriteAttempts
    MaxTime,            \* bound: last value of the clock
    MaxLeases,          \* bound: no call starts once a mission has this many rows
    None

ASSUME MissionsAssumption == Missions \subseteq Nat
ASSUME TTLAssumption == TTLs \subseteq Nat \ {0}
ASSUME LimitsAssumption == /\ MaxAttempts \in Nat \ {0}
                           /\ MaxTime \in Nat
                           /\ MaxLeases \in Nat
ASSUME NoneAssumption == None \notin Nat

VARIABLES
    missions,           \* tables missions and mission_lease_events
    now,                \* leaseNow
    pc,                 \* where each worker is inside a store call
    call,               \* the arguments of that call
    attempt,            \* its pass through the retry loop
    snap,               \* the missions its transaction reads
    lease,              \* the row it inserted
    held                \* the lease each worker believes it holds

callVars == <<pc, call, attempt, snap, lease>>
vars == <<missions, now, callVars, held, txVars>>

-----------------------------------------------------------------------------
(* Rows *)

Tokens == Nat
Actions == {"claimed", "handoff", "renewed", "released"}
LeaseRow == [action : Actions, token : Tokens, prev : Tokens \cup {None},
             time : Nat, expires : Nat]
Mission == [status : {"active", "completed"}, updated : Nat, leases : Seq(LeaseRow)]

\* What a worker remembers of a lease; until = 0 when it gave the lease up.
Belief == [mission : Missions, token : Tokens, until : Nat]

Call == [op : {"claim", "acquire", "handoff", "renew", "release"},
         mission : Missions \cup {None}, token : Tokens \cup {None},
         ttl : TTLs \cup {None}, to : Procs]

\* latestMissionLease
Latest(leases) == leases[Len(leases)]

\* Is there a lease that is neither released nor expired at instant t?
Live(leases, t) == /\ leases # <<>>
                   /\ Latest(leases).action # "released"
                   /\ Latest(leases).expires > t

\* The token names the live lease.
Owns(leases, token, t) == Live(leases, t) /\ Latest(leases).token = token

\* A row that introduces a new token (claimed, handoff).
NewLease(action, leases, t, ttl) ==
    [action |-> action, token |-> Len(leases),
     prev |-> IF leases = <<>> THEN None ELSE Latest(leases).token,
     time |-> t, expires |-> t + ttl]

\* A row that keeps the token (renewed, released).
SameLease(action, leases, t, expires) ==
    [action |-> action, token |-> Latest(leases).token,
     prev |-> Latest(leases).token, time |-> t, expires |-> expires]

-----------------------------------------------------------------------------
Init == /\ missions = [m \in Missions |->
                         [status |-> "active", updated |-> 0, leases |-> <<>>]]
        /\ now = 0
        /\ pc = [p \in Procs |-> "ready"]
        /\ call = [p \in Procs |-> None]
        /\ attempt = [p \in Procs |-> 0]
        /\ snap = [p \in Procs |-> None]
        /\ lease = [p \in Procs |-> None]
        /\ held = [p \in Procs |-> None]
        /\ TxInit

Tick == /\ now < MaxTime
        /\ now' = now + 1
        /\ UNCHANGED <<missions, callVars, held, txVars>>

Return(p) == /\ pc' = [pc EXCEPT ![p] = "ready"]
             /\ call' = [call EXCEPT ![p] = None]
             /\ attempt' = [attempt EXCEPT ![p] = 0]
             /\ snap' = [snap EXCEPT ![p] = None]
             /\ lease' = [lease EXCEPT ![p] = None]

-----------------------------------------------------------------------------
(* Calls *)

Enter(p, c) == /\ pc[p] = "ready"
               /\ \A m \in Missions : Len(missions[m].leases) < MaxLeases
               /\ pc' = [pc EXCEPT ![p] = "begin"]
               /\ call' = [call EXCEPT ![p] = c]
               /\ attempt' = [attempt EXCEPT ![p] = 1]
               /\ UNCHANGED <<missions, now, snap, lease, held, txVars>>

ClaimMission(p, m, ttl) ==
    Enter(p, [op |-> "claim", mission |-> m, token |-> None, ttl |-> ttl, to |-> p])

AcquireMission(p, ttl) ==
    Enter(p, [op |-> "acquire", mission |-> None, token |-> None, ttl |-> ttl, to |-> p])

\* A worker uses the last token it was given, also when it has expired or when
\* the worker has already given the lease up.
HandoffMission(p, q, ttl) ==
    /\ held[p] # None
    /\ Enter(p, [op |-> "handoff", mission |-> held[p].mission,
                 token |-> held[p].token, ttl |-> ttl, to |-> q])

RenewMission(p, ttl) ==
    /\ held[p] # None
    /\ Enter(p, [op |-> "renew", mission |-> held[p].mission,
                 token |-> held[p].token, ttl |-> ttl, to |-> p])

ReleaseMission(p) ==
    /\ held[p] # None
    /\ Enter(p, [op |-> "release", mission |-> held[p].mission,
                 token |-> held[p].token, ttl |-> None, to |-> p])

-----------------------------------------------------------------------------
(* One transaction *)

\* Its SELECTs, which see one snapshot.  The clock is read after them.
LeaseRead(p) ==
    /\ pc[p] = "begin"
    /\ pc' = [pc EXCEPT ![p] = "read"]
    /\ snap' = [snap EXCEPT ![p] = missions]
    /\ TxSnapshot(p)
    /\ UNCHANGED <<missions, now, call, attempt, lease, held>>

\* missionOldestOrder
Older(db, m, n) == \/ db[m].updated < db[n].updated
                   \/ db[m].updated = db[n].updated /\ m < n

\* Missions nobody owns at instant t.
Available(db, t) == {m \in Missions : db[m].status = "active"
                                      /\ ~Live(db[m].leases, t)}

\* Defective variant (mission status not read), to be caught by
\* ImplementsOwnership.
ClaimAllowedUnchecked(db, m, t) == ~Live(db[m].leases, t)

\* claimMissionOnce may claim m.
ClaimAllowed(db, m, t) == db[m].status = "active" /\ ~Live(db[m].leases, t)

\* Defective variant (oldest by creation, not by last update), to be caught
\* by AcquiresOldest.
AcquireAllowedByCreation(db, m, t) == /\ m \in Available(db, t)
                                      /\ \A n \in Available(db, t) : m <= n

\* acquireMissionLeaseOnce selects m.
AcquireAllowed(db, m, t) == /\ m \in Available(db, t)
                            /\ \A n \in Available(db, t) \ {m} : Older(db, m, n)

\* handoffMissionOnce accepts the token.
HandoffAllowed(db, m, token, t) == Owns(db[m].leases, token, t)

\* Defective variant (expiry not compared with the clock), to be caught by
\* HistoryAuthorised.
RenewAllowedExpired(db, m, token, t) ==
    /\ db[m].leases # <<>>
    /\ Latest(db[m].leases).action # "released"
    /\ Latest(db[m].leases).token = token

\* renewMissionOnce accepts the token.
RenewAllowed(db, m, token, t) == Owns(db[m].leases, token, t)

\* releaseMissionOnce accepts the token.
ReleaseAllowed(db, m, token, t) == Owns(db[m].leases, token, t)

\* Does p's transaction, at this instant, go on to insert a row for m?
Allowed(p, m) ==
    LET c == call[p] IN
    \/ c.op = "claim"   /\ m = c.mission /\ ClaimAllowed(snap[p], m, now)
    \/ c.op = "acquire" /\ AcquireAllowed(snap[p], m, now)
    \/ c.op = "handoff" /\ m = c.mission /\ HandoffAllowed(snap[p], m, c.token, now)
    \/ c.op = "renew"   /\ m = c.mission /\ RenewAllowed(snap[p], m, c.token, now)
    \/ c.op = "release" /\ m = c.mission /\ ReleaseAllowed(snap[p], m, c.token, now)

ClaimRow(leases, t, ttl) == NewLease("claimed", leases, t, ttl)
\* Defective variant (the recipient gets the old token), to be caught by
\* CurrentHolder.
HandoffRowSameToken(leases, t, ttl) == SameLease("handoff", leases, t, t + ttl)
HandoffRow(leases, t, ttl) == NewLease("handoff", leases, t, ttl)
RenewRow(leases, t, ttl) == SameLease("renewed", leases, t, t + ttl)
ReleaseRow(leases, t) == SameLease("released", leases, t, Latest(leases).expires)

NextRow(p, m) ==
    LET leases == snap[p][m].leases
        ttl == call[p].ttl
    IN  CASE call[p].op = "handoff" -> HandoffRow(leases, now, ttl)
          [] call[p].op = "renew"   -> RenewRow(leases, now, ttl)
          [] call[p].op = "release" -> ReleaseRow(leases, now)
          [] OTHER                  -> ClaimRow(leases, now, ttl)

\* UNIQUE(mission_id,sequence)
SequenceTaken(p, m) == Len(missions[m].leases) # Len(snap[p][m].leases)

\* insertMissionLease and UPDATE missions SET updated_at, still uncommitted.
LeaseWrite(p, m) ==
    /\ pc[p] = "read"
    /\ Allowed(p, m)
    /\ ~SequenceTaken(p, m)
    /\ TxLock(p)
    /\ pc' = [pc EXCEPT ![p] = "written"]
    /\ call' = [call EXCEPT ![p].mission = m]
    /\ lease' = [lease EXCEPT ![p] = NextRow(p, m)]
    /\ UNCHANGED <<missions, now, attempt, snap, held>>

\* "mission is claimed by", "no available mission", "mission has no active
\* lease", "lease token does not own mission".
LeaseRefuse(p) ==
    /\ pc[p] = "read"
    /\ \A m \in Missions : ~Allowed(p, m)
    /\ Return(p)
    /\ TxRollback(p)
    /\ UNCHANGED <<missions, now, held>>

\* verifyMissionContinuityTx rejects the mission that would be selected: nothing
\* is acquired, no younger mission either.  MissionContinuity (property
\* CheckpointsStayValid) shows that a mission may get there.
AcquireUnverified(p) ==
    /\ pc[p] = "read"
    /\ call[p].op = "acquire"
    /\ \E m \in Missions : Allowed(p, m)
    /\ Return(p)
    /\ TxRollback(p)
    /\ UNCHANGED <<missions, now, held>>

\* isLeaseContention
Contended(p) == \E m \in Missions : Allowed(p, m) /\ (TxBusy(p) \/ SequenceTaken(p, m))

\* Defective variant (one pass too many), to be caught by TypeOK.
LeaseRetryTooOften(p) ==
    /\ pc[p] = "read"
    /\ Contended(p)
    /\ attempt[p] <= MaxAttempts
    /\ pc' = [pc EXCEPT ![p] = "begin"]
    /\ attempt' = [attempt EXCEPT ![p] = @ + 1]
    /\ snap' = [snap EXCEPT ![p] = None]
    /\ TxRollback(p)
    /\ UNCHANGED <<missions, now, call, lease, held>>

\* Defective variant (passes not counted), to be caught by CallsReturn.
LeaseRetryUnbounded(p) ==
    /\ pc[p] = "read"
    /\ Contended(p)
    /\ pc' = [pc EXCEPT ![p] = "begin"]
    /\ snap' = [snap EXCEPT ![p] = None]
    /\ TxRollback(p)
    /\ UNCHANGED <<missions, now, call, attempt, lease, held>>

LeaseRetry(p) ==
    /\ pc[p] = "read"
    /\ Contended(p)
    /\ attempt[p] < MaxAttempts
    /\ pc' = [pc EXCEPT ![p] = "begin"]
    /\ attempt' = [attempt EXCEPT ![p] = @ + 1]
    /\ snap' = [snap EXCEPT ![p] = None]
    /\ TxRollback(p)
    /\ UNCHANGED <<missions, now, call, lease, held>>

LeaseExhausted(p) ==
    /\ pc[p] = "read"
    /\ Contended(p)
    /\ attempt[p] = MaxAttempts
    /\ Return(p)
    /\ TxRollback(p)
    /\ UNCHANGED <<missions, now, held>>

\* ctx is cancelled while waitForWriteRetry sleeps.
LeaseCancel(p) ==
    /\ pc[p] = "begin"
    /\ attempt[p] > 1
    /\ Return(p)
    /\ UNCHANGED <<missions, now, held, txVars>>

\* The mission's row and lease history after the transaction.
Leased(mission, row) == [status |-> mission.status, updated |-> row.time,
                         leases |-> Append(mission.leases, row)]

LeaseCommit(p) ==
    /\ pc[p] = "written"
    /\ missions' = [missions EXCEPT ![call[p].mission] = Leased(@, lease[p])]
    /\ pc' = [pc EXCEPT ![p] = IF call[p].op = "acquire" THEN "compiling"
                               ELSE "committed"]
    /\ attempt' = [attempt EXCEPT ![p] = 0]
    /\ snap' = [snap EXCEPT ![p] = None]
    /\ TxCommit(p)
    /\ UNCHANGED <<now, call, lease, held>>

-----------------------------------------------------------------------------
(* After the transaction *)

Remember(p) == [mission |-> call[p].mission, token |-> lease[p].token,
                until |-> IF lease[p].action = "released" THEN 0
                          ELSE lease[p].expires]

GivenUp(p) == IF held[p] = None THEN None ELSE [held[p] EXCEPT !.until = 0]

\* The call returns the new row.  After a handoff it is the recipient who
\* goes on with the lease.
LeaseReturn(p) ==
    /\ pc[p] = "committed"
    /\ held' = IF call[p].op = "handoff"
               THEN [held EXCEPT ![p] = GivenUp(p), ![call[p].to] = Remember(p)]
               ELSE [held EXCEPT ![p] = Remember(p)]
    /\ Return(p)
    /\ UNCHANGED <<missions, now, txVars>>

\* BuildMissionContext succeeded and found this lease live.
ContextReady(p) ==
    /\ pc[p] = "compiling"
    /\ Owns(missions[call[p].mission].leases, lease[p].token, now)
    /\ held' = [held EXCEPT ![p] = Remember(p)]
    /\ Return(p)
    /\ UNCHANGED <<missions, now, txVars>>

\* It failed (its reads are not one transaction), or found the lease expired:
\* ReleaseMission with the lease's own token; the outcome is ignored.
ContextFailed(p) ==
    /\ pc[p] = "compiling"
    /\ pc' = [pc EXCEPT ![p] = "begin"]
    /\ call' = [call EXCEPT ![p] = [op |-> "release", mission |-> @.mission,
                                    token |-> lease[p].token, ttl |-> None, to |-> p]]
    /\ attempt' = [attempt EXCEPT ![p] = 1]
    /\ lease' = [lease EXCEPT ![p] = None]
    /\ UNCHANGED <<missions, now, snap, held, txVars>>

-----------------------------------------------------------------------------
(* Other transactions on the same tables *)

\* CreateCheckpoint: UPDATE missions SET updated_at.
CheckpointMission(m) ==
    /\ missions[m].status = "active"
    /\ missions' = [missions EXCEPT ![m].updated = now]
    /\ TxStatement
    /\ UNCHANGED <<now, callVars, held>>

CompleteMission(m) ==
    /\ missions[m].status = "active"
    /\ missions' = [missions EXCEPT ![m].status = "completed", ![m].updated = now]
    /\ TxStatement
    /\ UNCHANGED <<now, callVars, held>>

\* The worker and its process are killed, wherever they are.
Crash(p) ==
    /\ Return(p)
    /\ held' = [held EXCEPT ![p] = None]
    /\ TxRollback(p)
    /\ UNCHANGED <<missions, now>>

CallStep(p) == \/ LeaseRead(p) \/ LeaseRefuse(p) \/ AcquireUnverified(p)
               \/ \E m \in Missions : LeaseWrite(p, m)
               \/ LeaseRetry(p) \/ LeaseExhausted(p)
               \/ LeaseCommit(p) \/ LeaseReturn(p)
               \/ ContextReady(p) \/ ContextFailed(p)

Next == \/ \E p \in Procs :
              \/ \E m \in Missions, ttl \in TTLs : ClaimMission(p, m, ttl)
              \/ \E ttl \in TTLs : AcquireMission(p, ttl) \/ RenewMission(p, ttl)
              \/ \E q \in Procs, ttl \in TTLs : HandoffMission(p, q, ttl)
              \/ ReleaseMission(p)
              \/ CallStep(p) \/ LeaseCancel(p) \/ Crash(p)
        \/ \E m \in Missions : CheckpointMission(m) \/ CompleteMission(m)
        \/ Tick

Spec == Init /\ [][Next]_vars

\* A worker inside a store call keeps executing it.
Fairness == \A p \in Procs : WF_vars(CallStep(p))

FairSpec == Spec /\ Fairness

-----------------------------------------------------------------------------
(* Properties *)

\* Every variable keeps its type; no call goes round the retry loop more than
\* maxWriteAttempts times.
TypeOK ==
    /\ missions \in [Missions -> Mission]
    /\ now \in Nat
    /\ pc \in [Procs -> {"ready", "begin", "read", "written", "committed", "compiling"}]
    /\ call \in [Procs -> Call \cup {None}]
    /\ attempt \in [Procs -> 0..MaxAttempts]
    /\ snap \in [Procs -> [Missions -> Mission] \cup {None}]
    /\ lease \in [Procs -> LeaseRow \cup {None}]
    /\ held \in [Procs -> Belief \cup {None}]
    /\ TxTypeOK

\* The retained lease history of every mission is one line of ownership: each
\* row refers to the one before it and is not older; a claim follows only a
\* lease that was released or had expired when the claim looked at the clock;
\* a handoff, renewal or release follows only a lease that was live then; and
\* a token that was replaced never comes back.
Follows(row, leases) ==
    /\ row.prev = IF leases = <<>> THEN None ELSE Latest(leases).token
    /\ row.action = "claimed" <=> ~Live(leases, row.time)
    /\ IF row.action \in {"claimed", "handoff"} THEN row.token = Len(leases)
       ELSE row.token = Latest(leases).token
    /\ leases # <<>> => Latest(leases).time <= row.time
HistoryAuthorised ==
    \A m \in Missions : \A i \in 1..Len(missions[m].leases) :
        Follows(missions[m].leases[i], SubSeq(missions[m].leases, 1, i - 1))

\* A worker outside any call whose lease has not run out by its own record
\* does hold the mission's current lease.  So no two workers work on one
\* mission, whatever was renewed, handed off, reclaimed or lost meanwhile.
Believes(p) == pc[p] = "ready" /\ held[p] # None /\ held[p].until > now
CurrentHolder ==
    \A p \in Procs : Believes(p) =>
        /\ Owns(missions[held[p].mission].leases, held[p].token, now)
        /\ \A q \in Procs \ {p} :
               Believes(q) => held[q].mission # held[p].mission

\* "Acquisition atomically selects oldest available active mission": when the
\* acquisition of m commits, no active mission that had no live lease at the
\* instant recorded in the row is older than m.
AcquiresOldest ==
    [][\A p \in Procs :
          (pc[p] = "written" /\ pc'[p] = "compiling") =>
              \A n \in Available(missions, lease[p].time) :
                  ~Older(missions, n, call[p].mission)]_vars

\* The transactions implement one register of ownership per mission, whose
\* changes have an order in time.
OwnerOf(leases) ==
    IF leases = <<>> THEN [token |-> 0, since |-> 0, until |-> 0]
    ELSE [token |-> Latest(leases).token + 1, since |-> Latest(leases).time,
          until |-> IF Latest(leases).action = "released" THEN 0
                    ELSE Latest(leases).expires]
ownerOf == [m \in Missions |-> OwnerOf(missions[m].leases)]
closedOf == {m \in Missions : missions[m].status = "completed"}

Ownership == INSTANCE LeaseOwnership WITH owner <- ownerOf, closed <- closedOf
ImplementsOwnership == Ownership!Spec

\* The most steps that a call still takes, whatever the others do.  An
\* acquisition may end with a release of its own, retry loop and all.
StepsLeft(p) ==
    LET after == IF call[p].op = "acquire" THEN 2 * MaxAttempts + 3 ELSE 0
    IN  CASE pc[p] = "begin"     -> 4 + 2 * (MaxAttempts - attempt[p]) + after
          [] pc[p] = "read"      -> 3 + 2 * (MaxAttempts - attempt[p]) + after
          [] pc[p] = "written"   -> 2 + after
          [] pc[p] = "compiling" -> after
          [] pc[p] = "committed" -> 1
          [] pc[p] = "ready"     -> 0

\* Every step a worker takes inside a lease call brings it nearer to the return,
\* and no step of another worker takes it back: contention, and a context that
\* cannot be compiled, delay a call and cannot keep it going round.
CallsBounded ==
    [][\A p \in Procs : pc[p] # "ready" =>
          \/ StepsLeft(p)' < StepsLeft(p)
          \/ UNCHANGED <<pc[p], call[p], attempt[p], snap[p], lease[p]>>]_vars

\* Every call returns and leaves no write lock behind, also when other
\* writers keep committing: the retry loop is bounded.
CallsReturn == \A p \in Procs : pc[p] # "ready" ~> (pc[p] = "ready" /\ writer # {p})
=============================================================================
