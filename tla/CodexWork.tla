------------------------------ MODULE CodexWork ------------------------------
(***************************************************************************)
(* `chainproof codex work` (runCodexWork, renewMissionLease and            *)
(* runWrappedCommand in cmd/chainproof/main.go): a runner claims a         *)
(* mission, renews the lease in a goroutine, starts a child process with   *)
(* the compiled mission context, and afterwards closes the run, stops the  *)
(* renewal and gives the lease back.  The child works on the mission by    *)
(* itself: it checkpoints, hands the lease off, releases it or completes   *)
(* the mission.  Other users of the ledger claim missions, checkpoint and   *)
(* complete them as well, with or without a lease.                         *)
(*                                                                         *)
(* The lease calls are those of LeaseOwnership, which MissionLease         *)
(* implements; each takes effect at the present instant.  Every call on    *)
(* the ledger may fail instead, with no effect: contention that outlasts   *)
(* the retries, a call that is not retried, or an error of the database.   *)
(***************************************************************************)
EXTENDS Integers, FiniteSets

CONSTANTS
    Missions,
    Runners,            \* processes that run `codex work` once
    TTL,                \* --lease-ttl
    MaxTime,            \* bound: last value of the clock
    MaxCheckpoints,     \* bound: checkpoints per mission
    MaxCrashes,         \* bound: runners that are killed
    None

ASSUME TTLAssumption == TTL \in Nat \ {0}
ASSUME BoundsAssumption == /\ MaxTime \in Nat
                           /\ MaxCheckpoints \in Nat
                           /\ MaxCrashes \in Nat
ASSUME NoneAssumption == None \notin Missions

VARIABLES
    now,                \* the clock
    closed,             \* completed missions
    owner,              \* the lease of each mission
    checkpoints,        \* checkpoint_count of each mission
    foreign,            \* tokens that belong to no runner, per mission
    pc,                 \* where the main goroutine of each runner is
    job,                \* its variables
    renewal,            \* where its renewal goroutine is
    child,              \* its child process
    run                 \* the run it started for the child

Lease == INSTANCE LeaseOwnership

leases == <<now, closed, owner>>
vars == <<leases, checkpoints, foreign, pc, job, renewal, child, run>>

\* seen: how many checkpoints the compiled context holds, None without a context
\* file; atClaim: how many there were when the claim was granted; failed: the
\* calls that failed, of the renewal goroutine or at the end.
Calls == {"renew", "complete", "read", "release"}
Job == [mission : Missions \cup {None}, token : Nat, early : Nat, atClaim : Nat,
        seen : Nat \cup {None}, stopped : BOOLEAN, failed : SUBSET Calls]
NoJob == [mission |-> None, token |-> 0, early |-> 0, atClaim |-> 0,
          seen |-> None, stopped |-> FALSE, failed |-> {}]

\* length: its events; anchored: how many of them a checkpoint covers.
Run == [status : {"none", "active", "completed"}, length : 0..2, anchored : 0..2]
NoRun == [status |-> "none", length |-> 0, anchored |-> 0]

Init == /\ now = 0
        /\ closed = {}
        /\ owner = [m \in Missions |-> [token |-> 0, since |-> 0, until |-> 0]]
        /\ checkpoints = [m \in Missions |-> 0]
        /\ foreign = [m \in Missions |-> {}]
        /\ pc = [w \in Runners |-> "idle"]
        /\ job = [w \in Runners |-> NoJob]
        /\ renewal = [w \in Runners |-> "off"]
        /\ child = [w \in Runners |-> "none"]
        /\ run = [w \in Runners |-> NoRun]

ClockTick == /\ now < MaxTime
             /\ now' = now + 1
             /\ UNCHANGED <<closed, owner, checkpoints, foreign, pc, job, renewal, child, run>>

Go(w, label) == pc' = [pc EXCEPT ![w] = label]

-----------------------------------------------------------------------------
(* The lease calls, by token *)

MissionOf(w) == job[w].mission
NextToken(m) == owner[m].token + 1
Live(m) == owner[m].until > now
\* The token names the live lease of m.
Owns(m, token) == Live(m) /\ owner[m].token = token

Claimed(m) == [token |-> NextToken(m), since |-> now, until |-> now + TTL]
Renewed(m) == [owner[m] EXCEPT !.until = now + TTL]
Released(m) == [owner[m] EXCEPT !.until = 0]

-----------------------------------------------------------------------------
(* Claiming.  --mission: BuildMissionContext, which verifies the mission, then
   ClaimMission.  --acquire: one transaction that selects and claims.  *)

LoadMission(w, m) ==
    /\ pc[w] = "idle"
    /\ \/ /\ job' = [job EXCEPT ![w].mission = m, ![w].early = checkpoints[m]]
          /\ Go(w, "claim")
       \/ UNCHANGED job /\ Go(w, "done")
    /\ UNCHANGED <<leases, checkpoints, foreign, renewal, child, run>>

Granted(w, m) ==
    /\ Lease!Grant(m, now, Claimed(m))
    /\ job' = [job EXCEPT ![w].mission = m, ![w].token = NextToken(m),
                          ![w].atClaim = checkpoints[m]]
    /\ UNCHANGED <<checkpoints, foreign, child, run>>

\* The renewal goroutine is started.
StartRenewal(w) == /\ renewal' = [renewal EXCEPT ![w] = "waiting"]
                   /\ Go(w, "mission")

ClaimMission(w) == pc[w] = "claim" /\ Granted(w, MissionOf(w)) /\ StartRenewal(w)

\* The mission is completed or owned, or the call fails.
ClaimRefused(w) ==
    /\ pc[w] = "claim"
    /\ Go(w, "done")
    /\ UNCHANGED <<leases, checkpoints, foreign, job, renewal, child, run>>

AcquireMission(w, m) ==
    /\ pc[w] = "idle"
    /\ Granted(w, m)
    /\ Go(w, "acquired")
    /\ UNCHANGED renewal

\* AcquireMission compiles the mission's context; if that fails, or the lease has
\* expired meanwhile, it gives the lease back and returns an error.
AcquireContext(w) ==
    /\ pc[w] = "acquired"
    /\ \/ Owns(MissionOf(w), job[w].token) /\ StartRenewal(w)
       \/ Go(w, "release") /\ UNCHANGED renewal
    /\ UNCHANGED <<leases, checkpoints, foreign, job, child, run>>

-----------------------------------------------------------------------------
(* The wrapped command *)

\* The mission must be active.
CheckMission(w) ==
    /\ pc[w] = "mission"
    /\ \/ MissionOf(w) \notin closed /\ Go(w, "compile")
       \/ Go(w, "stop")
    /\ UNCHANGED <<leases, checkpoints, foreign, job, renewal, child, run>>

\* Defective variant (the context compiled before the claim is used), to be
\* caught by ContextCurrent.
CompileContextEarly(w) ==
    /\ pc[w] = "compile"
    /\ job' = [job EXCEPT ![w].seen = job[w].early]
    /\ Go(w, "start")
    /\ UNCHANGED <<leases, checkpoints, foreign, renewal, child, run>>

\* BuildMissionContext and writeAgentContextFile, either of which may fail.
CompileContext(w) ==
    /\ pc[w] = "compile"
    /\ \/ /\ job' = [job EXCEPT ![w].seen = checkpoints[MissionOf(w)]]
          /\ Go(w, "start")
       \/ UNCHANGED job /\ Go(w, "stop")
    /\ UNCHANGED <<leases, checkpoints, foreign, renewal, child, run>>

\* db.Start, which may fail.
StartRun(w) ==
    /\ pc[w] = "start"
    /\ \/ /\ run' = [run EXCEPT ![w] = [NoRun EXCEPT !.status = "active"]]
          /\ Go(w, "started")
       \/ UNCHANGED run /\ Go(w, "stop")
    /\ UNCHANGED <<leases, checkpoints, foreign, job, renewal, child>>

\* Append refuses an event of a run whose mission is completed.
Appendable(w) == run[w].status = "active" /\ MissionOf(w) \notin closed

\* Defective variant (the child is started although run.started was refused), to
\* be caught by TypeOK.
StartChildAnyway(w) ==
    /\ pc[w] = "started"
    /\ run' = IF Appendable(w) THEN [run EXCEPT ![w].length = 1] ELSE run
    /\ child' = [child EXCEPT ![w] = "running"]
    /\ Go(w, "child")
    /\ UNCHANGED <<leases, checkpoints, foreign, job, renewal>>

\* Event run.started, then the child; an event that is refused, or given up after
\* contention, leaves the run open.
StartChild(w) ==
    /\ pc[w] = "started"
    /\ \/ /\ Appendable(w)
          /\ run' = [run EXCEPT ![w].length = 1]
          /\ child' = [child EXCEPT ![w] = "running"]
          /\ Go(w, "child")
       \/ UNCHANGED <<run, child>> /\ Go(w, "stop")
    /\ UNCHANGED <<leases, checkpoints, foreign, job, renewal>>

Failed(w, call) == job' = [job EXCEPT ![w].failed = @ \cup {call}]

\* Event run.completed after the child; whether it is stored or not, the run is
\* closed next.
AppendCompleted(w) ==
    /\ pc[w] = "child"
    /\ child[w] = "exited"
    /\ \/ Appendable(w) /\ run' = [run EXCEPT ![w].length = @ + 1]
       \/ UNCHANGED run
    /\ Go(w, "complete")
    /\ UNCHANGED <<leases, checkpoints, foreign, job, renewal, child>>

\* Complete is not retried, and refuses a run that is not active.
CompleteRun(w) ==
    /\ pc[w] = "complete"
    /\ \/ /\ run[w].status = "active"
          /\ run' = [run EXCEPT ![w].status = "completed"]
          /\ UNCHANGED job
       \/ Failed(w, "complete") /\ UNCHANGED run
    /\ Go(w, "stop")
    /\ UNCHANGED <<leases, checkpoints, foreign, renewal, child>>

-----------------------------------------------------------------------------
(* The renewal goroutine, which ticks at half the TTL *)

Renewing(w, label) == renewal' = [renewal EXCEPT ![w] = label]

RenewalTick(w) ==
    /\ renewal[w] = "waiting"
    /\ Renewing(w, "renew")
    /\ UNCHANGED <<leases, checkpoints, foreign, pc, job, child, run>>

\* Defective variant (only a tick wakes the goroutine), to be caught by RunnerEnds.
RenewalDeaf(w) == /\ FALSE
                  /\ UNCHANGED vars

\* ctx.Done
RenewalStop(w) ==
    /\ renewal[w] = "waiting"
    /\ job[w].stopped
    /\ Renewing(w, "ended")
    /\ UNCHANGED <<leases, checkpoints, foreign, pc, job, child, run>>

\* Defective variant (the current lease is renewed, whoever owns it), to be
\* caught by OthersLeaseKept.
RenewCurrent(w) ==
    /\ renewal[w] = "renew"
    /\ LET m == MissionOf(w)
       IN  Live(m) /\ Lease!Extend(m, now, Renewed(m))
    /\ Renewing(w, "waiting")
    /\ UNCHANGED <<checkpoints, foreign, pc, job, child, run>>

RenewMission(w) ==
    /\ renewal[w] = "renew"
    /\ LET m == MissionOf(w)
       IN  Owns(m, job[w].token) /\ Lease!Extend(m, now, Renewed(m))
    /\ Renewing(w, "waiting")
    /\ UNCHANGED <<checkpoints, foreign, pc, job, child, run>>

\* The lease is gone, or contention exhausts the retries, or ctx is cancelled
\* during the call.
RenewFails(w) ==
    /\ renewal[w] = "renew"
    /\ Renewing(w, IF job[w].stopped THEN "ended" ELSE "look")
    /\ UNCHANGED <<leases, checkpoints, foreign, pc, job, child, run>>

\* A lease that was released or belongs to another token is no error, unless the
\* lease cannot be read, because ctx is cancelled for example.
RenewalLook(w) ==
    /\ renewal[w] = "look"
    /\ LET m == MissionOf(w)
       IN  \/ /\ owner[m].token # job[w].token \/ owner[m].until = 0
             /\ Renewing(w, "ended")
           \/ Renewing(w, "failed")
    /\ UNCHANGED <<leases, checkpoints, foreign, pc, job, child, run>>

-----------------------------------------------------------------------------
(* The end of the runner *)

\* runWrappedCommand returns, removing the context file; then stopRenewal.
StopRenewal(w) ==
    /\ pc[w] = "stop"
    /\ job' = [job EXCEPT ![w].seen = None, ![w].stopped = TRUE]
    /\ Go(w, "wait")
    /\ UNCHANGED <<leases, checkpoints, foreign, renewal, child, run>>

WaitRenewal(w) ==
    /\ pc[w] = "wait"
    /\ renewal[w] \in {"ended", "failed"}
    /\ IF renewal[w] = "failed" THEN Failed(w, "renew") ELSE UNCHANGED job
    /\ Go(w, "look")
    /\ UNCHANGED <<leases, checkpoints, foreign, renewal, child, run>>

\* Defective variant (a lease is given back only after a good renewal), to be
\* caught by CleanExit.
ReadLeaseUnlessLost(w) ==
    /\ pc[w] = "look"
    /\ \/ /\ Go(w, IF job[w].failed = {} /\ Owns(MissionOf(w), job[w].token)
                   THEN "release" ELSE "done")
          /\ UNCHANGED job
       \/ Go(w, "done") /\ Failed(w, "read")
    /\ UNCHANGED <<leases, checkpoints, foreign, renewal, child, run>>

ReadLease(w) ==
    /\ pc[w] = "look"
    /\ \/ /\ Go(w, IF Owns(MissionOf(w), job[w].token) THEN "release" ELSE "done")
          /\ UNCHANGED job
       \/ Go(w, "done") /\ Failed(w, "read")
    /\ UNCHANGED <<leases, checkpoints, foreign, renewal, child, run>>

\* The lease may have ended since it was read.
ReleaseMission(w) ==
    /\ pc[w] = "release"
    /\ LET m == MissionOf(w)
       IN  \/ /\ Owns(m, job[w].token)
             /\ Lease!Drop(m, now, Released(m))
             /\ UNCHANGED job
           \/ UNCHANGED leases /\ Failed(w, "release")
    /\ Go(w, "done")
    /\ UNCHANGED <<checkpoints, foreign, renewal, child, run>>

\* The runner is killed.  Its child goes on, its context file stays.
Crash(w) ==
    /\ pc[w] \notin {"idle", "done", "crashed"}
    /\ Cardinality({v \in Runners : pc[v] = "crashed"}) < MaxCrashes
    /\ Go(w, "crashed")
    /\ renewal' = [renewal EXCEPT ![w] = "off"]
    /\ UNCHANGED <<leases, checkpoints, foreign, job, child, run>>

-----------------------------------------------------------------------------
(* The child *)

Running(w) == child[w] = "running"
RunsOf(m) == {v \in Runners : MissionOf(v) = m /\ run[v].status # "none"}

\* `checkpoint` for a run of the mission, its own or, by `recovery accept`,
\* another one.
Checkpoint(m, v) ==
    /\ m \notin closed
    /\ v \in RunsOf(m)
    /\ checkpoints[m] < MaxCheckpoints
    /\ checkpoints' = [checkpoints EXCEPT ![m] = @ + 1]
    /\ run' = [run EXCEPT ![v].anchored = run[v].length]
    /\ UNCHANGED <<leases, foreign, pc, job, renewal, child>>

ChildCheckpoints(w) == Running(w) /\ \E v \in Runners : Checkpoint(MissionOf(w), v)

\* `mission handoff` with CHAINPROOF_LEASE_ID; the recipient is a user.
ChildHandsOff(w) ==
    /\ Running(w)
    /\ LET m == MissionOf(w)
       IN  /\ Owns(m, job[w].token)
           /\ Lease!Transfer(m, now, Claimed(m))
           /\ foreign' = [foreign EXCEPT ![m] = @ \cup {NextToken(m)}]
    /\ UNCHANGED <<checkpoints, pc, job, renewal, child, run>>

ChildReleases(w) ==
    /\ Running(w)
    /\ LET m == MissionOf(w)
       IN  Owns(m, job[w].token) /\ Lease!Drop(m, now, Released(m))
    /\ UNCHANGED <<checkpoints, foreign, pc, job, renewal, child, run>>

\* `mission complete`: after a checkpoint, when no run has a tail behind it.
Complete(m) ==
    /\ m \notin closed
    /\ checkpoints[m] > 0
    /\ \A v \in RunsOf(m) : run[v].anchored = run[v].length
    /\ Lease!Close(m)
    /\ UNCHANGED <<checkpoints, foreign, pc, job, renewal, child, run>>

ChildCompletes(w) == Running(w) /\ Complete(MissionOf(w))

ChildExits(w) ==
    /\ Running(w)
    /\ child' = [child EXCEPT ![w] = "exited"]
    /\ UNCHANGED <<leases, checkpoints, foreign, pc, job, renewal, run>>

-----------------------------------------------------------------------------
(* Other users; a lease they were granted or handed runs until it expires.  *)

UserClaims(m) ==
    /\ Lease!Grant(m, now, Claimed(m))
    /\ foreign' = [foreign EXCEPT ![m] = @ \cup {NextToken(m)}]
    /\ UNCHANGED <<checkpoints, pc, job, renewal, child, run>>

\* For a run of their own, all of which the checkpoint covers, or a runner's run.
UserCheckpoints(m) ==
    \/ \E v \in Runners : Checkpoint(m, v)
    \/ /\ m \notin closed
       /\ checkpoints[m] < MaxCheckpoints
       /\ checkpoints' = [checkpoints EXCEPT ![m] = @ + 1]
       /\ UNCHANGED <<leases, foreign, pc, job, renewal, child, run>>

\* `complete RUN_ID`, by the child or anybody else.
UserEndsRun(w) ==
    /\ run[w].status = "active"
    /\ run' = [run EXCEPT ![w].status = "completed"]
    /\ UNCHANGED <<leases, checkpoints, foreign, pc, job, renewal, child>>

-----------------------------------------------------------------------------
Main(w) == \/ ClaimMission(w) \/ ClaimRefused(w) \/ AcquireContext(w)
           \/ CheckMission(w) \/ CompileContext(w) \/ StartRun(w) \/ StartChild(w)
           \/ AppendCompleted(w) \/ CompleteRun(w)
           \/ StopRenewal(w) \/ WaitRenewal(w) \/ ReadLease(w) \/ ReleaseMission(w)

Goroutine(w) == RenewalStop(w) \/ RenewMission(w) \/ RenewFails(w) \/ RenewalLook(w)

Child(w) == \/ ChildCheckpoints(w) \/ ChildHandsOff(w) \/ ChildReleases(w) \/ ChildCompletes(w)
            \/ ChildExits(w)

Next == \/ ClockTick
        \/ \E m \in Missions : UserClaims(m) \/ UserCheckpoints(m) \/ Complete(m)
        \/ \E w \in Runners :
              \/ \E m \in Missions : LoadMission(w, m) \/ AcquireMission(w, m)
              \/ Main(w) \/ RenewalTick(w) \/ Goroutine(w) \/ Child(w) \/ UserEndsRun(w) \/ Crash(w)

\* A running process goes on; ticks, children and the clock promise nothing.
\* select chooses at random between a tick and ctx.Done, so the latter is chosen
\* some time: hence strong fairness.
Spec == /\ Init /\ [][Next]_vars
        /\ \A w \in Runners : WF_vars(Main(w)) /\ WF_vars(Goroutine(w)) /\ SF_vars(RenewalStop(w))

-----------------------------------------------------------------------------
(* Properties *)

TypeOK ==
    /\ owner \in [Missions -> Lease!Term]
    /\ checkpoints \in [Missions -> 0..MaxCheckpoints]
    /\ foreign \in [Missions -> SUBSET Nat]
    /\ pc \in [Runners -> {"idle", "claim", "acquired", "mission", "compile", "start",
                           "started", "child", "complete", "stop", "wait", "look",
                           "release", "done", "crashed"}]
    /\ job \in [Runners -> Job]
    /\ renewal \in [Runners -> {"off", "waiting", "renew", "look", "ended", "failed"}]
    /\ child \in [Runners -> {"none", "running", "exited"}]
    /\ run \in [Runners -> Run]
    /\ \A w \in Runners : /\ run[w].anchored <= run[w].length
                          /\ child[w] = "none" <=> run[w].length = 0

\* Whatever the runner, its renewal goroutine and its child do in whatever order,
\* and whoever completes the run or the mission or takes it over meanwhile, a runner
\* that ended leaves in disorder only what its own last calls could not put in
\* order, each tried in any case, whatever failed before: it owns the mission, so
\* that others wait for the lease to expire, only if reading or releasing the lease
\* failed; the run of its child is open only if completing it failed, and not for
\* example because the event run.completed was refused; a context file never stays.
CleanExit ==
    \A w \in Runners :
        pc[w] = "done" =>
            /\ job[w].token # 0 /\ Owns(MissionOf(w), job[w].token)
                  => job[w].failed \cap {"read", "release"} # {}
            /\ child[w] # "none" /\ run[w].status # "completed"
                  => "complete" \in job[w].failed
            /\ job[w].seen = None

\* A live lease that is not a runner's, received from its child or claimed by a
\* user when the runner's had expired, is neither prolonged nor ended by a runner
\* that has not noticed yet.
OthersLeaseKept ==
    [][\A m \in Missions : owner[m].token \in foreign[m] /\ Live(m) => owner'[m] = owner[m]]_vars

\* A child starts from a context that holds every checkpoint made before its
\* runner became the owner: nothing its predecessor recorded while it owned the
\* mission is missing.
ContextCurrent ==
    \A w \in Runners : pc[w] = "child" => job[w].seen >= job[w].atClaim

\* When the child has exited, the runner ends (or was killed).
RunnerEnds ==
    \A w \in Runners : child[w] = "exited" ~> pc[w] \in {"done", "crashed"}
=============================================================================
