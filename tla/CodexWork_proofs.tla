-------------------------- MODULE CodexWork_proofs --------------------------
(***************************************************************************)
(* Proofs about CodexWork for any number of runners and missions, any TTL  *)
(* and any number of kills: the types, the clean end of a runner, the      *)
(* context its child starts from, the leases of others, and that all of    *)
(* them together use the leases as LeaseOwnership promises.                *)
(***************************************************************************)
EXTENDS CodexWork, TLAPS

Places == {"idle", "claim", "acquired", "mission", "compile", "start", "started",
           "child", "complete", "stop", "wait", "look", "release", "done", "crashed"}
Renewals == {"off", "waiting", "renew", "look", "ended", "failed"}
Children == {"none", "running", "exited"}

\* Places at which the runner has claimed a mission.
Working == Places \ {"idle", "claim", "done", "crashed"}

Shape == /\ TypeOK
         /\ now \in Nat
         /\ closed \subseteq Missions

\* What belongs together in a runner at place l with job j, renewal goroutine r,
\* child c and run x.
Fits(l, j, r, c, x) ==
    /\ l \in {"idle", "claim"} => j.token = 0
    /\ l = "claim" => j.mission \in Missions
    /\ l \in Working => j.token # 0
    /\ j.token # 0 => j.mission \in Missions
    /\ r # "off" \/ c # "none" => j.token # 0
    /\ l \in {"idle", "claim", "acquired", "mission", "compile", "start"} =>
          c = "none" /\ x = NoRun
    /\ l = "started" => c = "none" /\ x.length = 0
    /\ l = "child" => c # "none" /\ x.length = 1
    /\ l = "complete" => c = "exited"
    /\ l \in {"stop", "wait", "look", "release", "done"} =>
          /\ c # "running"
          /\ c = "exited" => x.status = "completed" \/ "complete" \in j.failed
    /\ l \in {"idle", "claim", "acquired", "wait", "look", "release", "done"} => j.seen = None
    /\ l \in {"start", "started", "child"} => j.seen \in Nat /\ j.seen >= j.atClaim

\* How such a runner stands to the ledger, with leases own, foreign tokens f,
\* clock t and checkpoint counts n: its token was issued for it, is not in force
\* once it has ended unless giving it back failed, and no checkpoint it counted is
\* lost.
Standing(l, j, own, f, t, n) ==
    /\ j.token # 0 => j.token <= own[j.mission].token /\ j.token \notin f[j.mission]
    /\ l = "done" /\ j.token # 0 =>
          \/ ~(own[j.mission].until > t /\ own[j.mission].token = j.token)
          \/ j.failed \cap {"read", "release"} # {}
    /\ l \in {"acquired", "mission", "compile"} => j.atClaim <= n[j.mission]

\* No lease was granted in the future; foreign tokens have been issued.
LeasesIssued == \A m \in Missions : /\ owner[m].since <= now
                                    /\ \A k \in foreign[m] : k <= owner[m].token

Inv == /\ Shape
       /\ LeasesIssued
       /\ \A w \in Runners :
             /\ Fits(pc[w], job[w], renewal[w], child[w], run[w])
             /\ Standing(pc[w], job[w], owner, foreign, now, checkpoints)

-----------------------------------------------------------------------------
(* Types *)

LEMMA JobFields ==
  ASSUME NEW j \in Job
  PROVE  /\ j.mission \in Missions \cup {None}
         /\ j.token \in Nat
         /\ j.early \in Nat
         /\ j.atClaim \in Nat
         /\ j.seen \in Nat \cup {None}
         /\ j.stopped \in BOOLEAN
         /\ j.failed \in SUBSET Calls
  BY DEF Job

LEMMA JobChanges ==
  ASSUME NEW j \in Job
  PROVE  /\ \A m \in Missions, n \in Nat :
               [j EXCEPT !.mission = m, !.early = n] \in Job
         /\ \A m \in Missions, k, n \in Nat :
               [j EXCEPT !.mission = m, !.token = k, !.atClaim = n] \in Job
         /\ \A n \in Nat \cup {None} : [j EXCEPT !.seen = n] \in Job
         /\ [j EXCEPT !.seen = None, !.stopped = TRUE] \in Job
         /\ \A call \in Calls : [j EXCEPT !.failed = j.failed \cup {call}] \in Job
  BY DEF Job

LEMMA RunFields ==
  ASSUME NEW x \in Run
  PROVE  /\ x.status \in {"none", "active", "completed"}
         /\ x.length \in 0..2
         /\ x.anchored \in 0..2
  BY DEF Run

LEMMA RunChanges ==
  ASSUME NEW x \in Run
  PROVE  /\ NoRun \in Run
         /\ \A s \in {"none", "active", "completed"} : [x EXCEPT !.status = s] \in Run
         /\ \A n \in 0..2 : [x EXCEPT !.length = n] \in Run
         /\ \A n \in 0..2 : [x EXCEPT !.anchored = n] \in Run
  BY DEF Run, NoRun

LEMMA TermFields ==
  ASSUME NEW term \in Lease!Term
  PROVE  term.token \in Nat /\ term.since \in Nat /\ term.until \in Nat
  BY DEF Lease!Term

\* The leases that a call at the present instant leaves behind.
LEMMA CallTerms ==
  ASSUME Inv, NEW m \in Missions
  PROVE  /\ owner[m] \in Lease!Term
         /\ Claimed(m) \in Lease!Term
         /\ Claimed(m).token = owner[m].token + 1
         /\ Claimed(m).since = now
         /\ Claimed(m).until = now + TTL
         /\ Renewed(m) \in Lease!Term
         /\ Renewed(m).token = owner[m].token
         /\ Renewed(m).since = owner[m].since
         /\ Renewed(m).until = now + TTL
         /\ Released(m) \in Lease!Term
         /\ Released(m).token = owner[m].token
         /\ Released(m).since = owner[m].since
         /\ Released(m).until = 0
  <1>1. owner[m] \in Lease!Term /\ now \in Nat
    BY DEF Inv, Shape, TypeOK
  <1>2. now + TTL \in Nat /\ owner[m].token + 1 \in Nat
    BY <1>1, TTLAssumption, TermFields
  <1> QED
    BY <1>1, <1>2 DEF Claimed, Renewed, Released, NextToken, Lease!Term

LEMMA MissionTypes ==
  ASSUME Inv, NEW m \in Missions
  PROVE  /\ now \in Nat
         /\ owner[m].token \in Nat
         /\ owner[m].since \in Nat
         /\ owner[m].until \in Nat
         /\ checkpoints[m] \in 0..MaxCheckpoints
         /\ foreign[m] \in SUBSET Nat
         /\ owner[m].since <= now
         /\ \A k \in foreign[m] : k <= owner[m].token
  BY CallTerms, TermFields DEF Inv, Shape, TypeOK, LeasesIssued

LEMMA RunnerTypes ==
  ASSUME Inv, NEW w \in Runners
  PROVE  /\ pc[w] \in Places
         /\ job[w] \in Job
         /\ renewal[w] \in Renewals
         /\ child[w] \in Children
         /\ run[w] \in Run
         /\ run[w].anchored <= run[w].length
         /\ child[w] = "none" <=> run[w].length = 0
         /\ Fits(pc[w], job[w], renewal[w], child[w], run[w])
         /\ Standing(pc[w], job[w], owner, foreign, now, checkpoints)
  <1>1. /\ pc[w] \in Places
        /\ job[w] \in Job
        /\ renewal[w] \in Renewals
        /\ child[w] \in Children
        /\ run[w] \in Run
    BY DEF Inv, Shape, TypeOK, Places, Renewals, Children
  <1>2. \A v \in Runners : /\ run[v].anchored <= run[v].length
                           /\ child[v] = "none" <=> run[v].length = 0
    BY DEF Inv, Shape, TypeOK
  <1>3. /\ Fits(pc[w], job[w], renewal[w], child[w], run[w])
        /\ Standing(pc[w], job[w], owner, foreign, now, checkpoints)
    BY DEF Inv
  <1> QED
    BY <1>1, <1>2, <1>3

-----------------------------------------------------------------------------
(* The ledger goes on *)

\* What every step does to the ledger: the clock and the checkpoint counts do not
\* go back, tokens grow, and a token that is not in force does not come back.
Onward ==
    /\ now' \in Nat
    /\ now' >= now
    /\ closed' \subseteq Missions
    /\ owner' \in [Missions -> Lease!Term]
    /\ checkpoints' \in [Missions -> 0..MaxCheckpoints]
    /\ foreign' \in [Missions -> SUBSET Nat]
    /\ \A m \in Missions :
          /\ owner'[m].since <= now'
          /\ owner'[m].token >= owner[m].token
          /\ checkpoints'[m] >= checkpoints[m]
          /\ \A k \in foreign'[m] \ foreign[m] : owner[m].token < k /\ k <= owner'[m].token
          /\ owner'[m].token = owner[m].token /\ owner'[m].until > now' => owner[m].until > now

LEMMA LedgerRests ==
  ASSUME Inv, UNCHANGED <<leases, checkpoints, foreign>>
  PROVE  Onward
  <1>1. /\ now' = now
        /\ closed' = closed
        /\ owner' = owner
        /\ checkpoints' = checkpoints
        /\ foreign' = foreign
    BY DEF leases
  <1>2. \A m \in Missions : /\ now >= now
                            /\ owner[m].since <= now
                            /\ owner[m].token >= owner[m].token
                            /\ checkpoints[m] >= checkpoints[m]
    BY MissionTypes
  <1> QED
    BY <1>1, <1>2 DEF Onward, Inv, Shape, TypeOK

\* A lease call at mission m: a new owner, with a token that may be foreign, or
\* another term of the owner whose lease is in force.
LEMMA LedgerChanges ==
  ASSUME Inv, NEW m \in Missions, NEW term \in Lease!Term,
         owner' = [owner EXCEPT ![m] = term],
         UNCHANGED <<now, closed, checkpoints>>,
         term.since <= now,
         \/ /\ term.token > owner[m].token
            /\ \/ foreign' = foreign
               \/ foreign' = [foreign EXCEPT ![m] = @ \cup {term.token}]
         \/ /\ term.token = owner[m].token
            /\ owner[m].until > now
            /\ foreign' = foreign
  PROVE  Onward
  <1>1. /\ now \in Nat /\ now >= now /\ closed \subseteq Missions
        /\ owner \in [Missions -> Lease!Term]
        /\ checkpoints \in [Missions -> 0..MaxCheckpoints]
        /\ foreign \in [Missions -> SUBSET Nat]
    BY DEF Inv, Shape, TypeOK
  <1>2. term.token \in Nat
    BY TermFields
  <1>3. owner' \in [Missions -> Lease!Term] /\ foreign' \in [Missions -> SUBSET Nat]
    BY <1>1, <1>2
  <1>4. ASSUME NEW i \in Missions
        PROVE  /\ owner'[i].since <= now
               /\ owner'[i].token >= owner[i].token
               /\ checkpoints[i] >= checkpoints[i]
               /\ \A k \in foreign'[i] \ foreign[i] :
                     owner[i].token < k /\ k <= owner'[i].token
               /\ owner'[i].token = owner[i].token /\ owner'[i].until > now =>
                     owner[i].until > now
    <2>1. CASE i = m
      BY <1>1, <1>2, <2>1, MissionTypes
    <2>2. CASE i # m
      <3>1. owner'[i] = owner[i] /\ foreign'[i] = foreign[i]
        BY <1>1, <2>2
      <3> QED
        BY <3>1, MissionTypes
    <2> QED
      BY <2>1, <2>2
  <1> QED
    BY <1>1, <1>3, <1>4 DEF Onward

\* A runner that does nothing meanwhile stands as it stood.
LEMMA StandingKept ==
  ASSUME Inv, Onward, NEW w \in Runners
  PROVE  Standing(pc[w], job[w], owner', foreign', now', checkpoints')
  <1> DEFINE j == job[w]
             m == job[w].mission
  <1>1. /\ j \in Job
        /\ Fits(pc[w], j, renewal[w], child[w], run[w])
        /\ Standing(pc[w], j, owner, foreign, now, checkpoints)
    BY RunnerTypes
  <1>2. j.token \in Nat /\ j.atClaim \in Nat
    BY <1>1, JobFields
  <1>3. j.token # 0 \/ pc[w] \in {"acquired", "mission", "compile"} => m \in Missions
    BY <1>1 DEF Fits, Working, Places
  <1>4. ASSUME m \in Missions
        PROVE  /\ owner'[m].token \in Nat /\ owner'[m].until \in Nat
               /\ checkpoints'[m] \in Nat
               /\ foreign'[m] \in SUBSET Nat
               /\ owner'[m].token >= owner[m].token
               /\ checkpoints'[m] >= checkpoints[m]
               /\ \A k \in foreign'[m] \ foreign[m] : owner[m].token < k
               /\ owner'[m].token = owner[m].token /\ owner'[m].until > now' =>
                     owner[m].until > now
    BY <1>4, TermFields, BoundsAssumption DEF Onward
  <1>5. ASSUME m \in Missions
        PROVE  owner[m].token \in Nat /\ checkpoints[m] \in Nat
    BY <1>5, MissionTypes, BoundsAssumption
  <1>6. j.token # 0 => j.token <= owner'[m].token /\ j.token \notin foreign'[m]
    BY <1>1, <1>2, <1>3, <1>4, <1>5 DEF Standing
  <1>7. pc[w] = "done" /\ j.token # 0 =>
          \/ ~(owner'[m].until > now' /\ owner'[m].token = j.token)
          \/ j.failed \cap {"read", "release"} # {}
    BY <1>1, <1>2, <1>3, <1>4, <1>5 DEF Standing
  <1>8. pc[w] \in {"acquired", "mission", "compile"} => j.atClaim <= checkpoints'[m]
    BY <1>1, <1>2, <1>3, <1>4, <1>5 DEF Standing
  <1> QED
    BY <1>6, <1>7, <1>8 DEF Standing

LEMMA LedgerNext ==
  ASSUME Inv, Onward
  PROVE  LeasesIssued'
  <1>1. ASSUME NEW m \in Missions, NEW k \in foreign'[m]
        PROVE  k <= owner'[m].token
    <2>1. /\ owner[m].token \in Nat /\ owner'[m].token \in Nat
          /\ k \in Nat /\ owner'[m].token >= owner[m].token
      BY MissionTypes, TermFields DEF Onward
    <2>2. k \in foreign[m] => k <= owner[m].token
      BY MissionTypes
    <2>3. k \notin foreign[m] => k <= owner'[m].token
      BY DEF Onward
    <2> QED
      BY <2>1, <2>2, <2>3
  <1>2. \A m \in Missions : owner'[m].since <= now'
    BY DEF Onward
  <1> QED
    BY <1>1, <1>2 DEF LeasesIssued

\* The ledger goes on and one runner moves.
LEMMA Moves ==
  ASSUME Inv, Onward, NEW w \in Runners,
         NEW l \in Places, NEW j \in Job, NEW r \in Renewals, NEW c \in Children, NEW x \in Run,
         pc' = [pc EXCEPT ![w] = l],
         job' = [job EXCEPT ![w] = j],
         renewal' = [renewal EXCEPT ![w] = r],
         child' = [child EXCEPT ![w] = c],
         run' = [run EXCEPT ![w] = x],
         x.anchored <= x.length,
         c = "none" <=> x.length = 0,
         Fits(l, j, r, c, x),
         Standing(l, j, owner', foreign', now', checkpoints')
  PROVE  Inv'
  <1>1. /\ pc \in [Runners -> Places]
        /\ job \in [Runners -> Job]
        /\ renewal \in [Runners -> Renewals]
        /\ child \in [Runners -> Children]
        /\ run \in [Runners -> Run]
    BY DEF Inv, Shape, TypeOK, Places, Renewals, Children
  <1>2. /\ pc' \in [Runners -> Places]
        /\ job' \in [Runners -> Job]
        /\ renewal' \in [Runners -> Renewals]
        /\ child' \in [Runners -> Children]
        /\ run' \in [Runners -> Run]
    BY <1>1
  <1>3. ASSUME NEW v \in Runners
        PROVE  /\ run'[v].anchored <= run'[v].length
               /\ child'[v] = "none" <=> run'[v].length = 0
               /\ Fits(pc'[v], job'[v], renewal'[v], child'[v], run'[v])
               /\ Standing(pc'[v], job'[v], owner', foreign', now', checkpoints')
    <2>1. CASE v = w
      <3>1. pc'[v] = l /\ job'[v] = j /\ renewal'[v] = r /\ child'[v] = c /\ run'[v] = x
        BY <1>1, <2>1
      <3> QED
        BY <3>1
    <2>2. CASE v # w
      <3>1. /\ pc'[v] = pc[v] /\ job'[v] = job[v] /\ renewal'[v] = renewal[v]
            /\ child'[v] = child[v] /\ run'[v] = run[v]
        BY <1>1, <2>2
      <3> QED
        BY <3>1, RunnerTypes, StandingKept
    <2> QED
      BY <2>1, <2>2
  <1>4. Shape'
    BY <1>2, <1>3 DEF Shape, TypeOK, Places, Renewals, Children, Onward
  <1>5. LeasesIssued'
    BY LedgerNext
  <1> QED
    BY <1>3, <1>4, <1>5 DEF Inv

\* The ledger goes on and no runner moves.
LEMMA Stays ==
  ASSUME Inv, Onward, UNCHANGED <<pc, job, renewal, child, run>>
  PROVE  Inv'
  <1>1. ASSUME NEW v \in Runners
        PROVE  /\ run'[v].anchored <= run'[v].length
               /\ child'[v] = "none" <=> run'[v].length = 0
               /\ Fits(pc'[v], job'[v], renewal'[v], child'[v], run'[v])
               /\ Standing(pc'[v], job'[v], owner', foreign', now', checkpoints')
    BY RunnerTypes, StandingKept
  <1>2. Shape'
    BY DEF Inv, Shape, TypeOK, Onward
  <1>3. LeasesIssued'
    BY LedgerNext
  <1> QED
    BY <1>1, <1>2, <1>3 DEF Inv

-----------------------------------------------------------------------------
(* The main goroutine *)

LEMMA TokenIssued ==
  ASSUME Inv, NEW m \in Missions
  PROVE  owner[m].token + 1 \notin foreign[m] /\ owner[m].token + 1 # 0
  BY MissionTypes

LEMMA InitInv == Init => Inv
  <1> SUFFICES ASSUME Init PROVE Inv
    OBVIOUS
  <1>1. NoJob \in Job /\ NoRun \in Run
    BY DEF NoJob, NoRun, Job, Run
  <1>2. [token |-> 0, since |-> 0, until |-> 0] \in Lease!Term /\ 0 \in 0..MaxCheckpoints
    BY BoundsAssumption DEF Lease!Term
  <1>3. Shape
    BY <1>1, <1>2 DEF Init, Shape, TypeOK, NoRun
  <1>4. LeasesIssued
    BY DEF Init, LeasesIssued
  <1>5. ASSUME NEW w \in Runners
        PROVE  /\ Fits(pc[w], job[w], renewal[w], child[w], run[w])
               /\ Standing(pc[w], job[w], owner, foreign, now, checkpoints)
    BY DEF Init, Fits, Standing, NoJob, NoRun, Working, Places
  <1> QED
    BY <1>3, <1>4, <1>5 DEF Inv

\* A runner that changes only its own variables.
LEMMA Alone ==
  ASSUME Inv, NEW w \in Runners,
         UNCHANGED <<leases, checkpoints, foreign>>,
         NEW l \in Places, NEW j \in Job, NEW r \in Renewals, NEW c \in Children, NEW x \in Run,
         pc' = [pc EXCEPT ![w] = l],
         job' = [job EXCEPT ![w] = j],
         renewal' = [renewal EXCEPT ![w] = r],
         child' = [child EXCEPT ![w] = c],
         run' = [run EXCEPT ![w] = x],
         x.anchored <= x.length,
         c = "none" <=> x.length = 0,
         Fits(l, j, r, c, x),
         Standing(l, j, owner, foreign, now, checkpoints)
  PROVE  Inv'
  <1>1. Onward
    BY LedgerRests
  <1>2. Standing(l, j, owner', foreign', now', checkpoints')
    BY DEF leases
  <1> QED
    BY <1>1, <1>2, Moves

\* A variable that a step leaves alone, seen from runner w.
LEMMA Untouched ==
  ASSUME Inv, NEW w \in Runners
  PROVE  /\ pc' = pc => pc' = [pc EXCEPT ![w] = pc[w]]
         /\ job' = job => job' = [job EXCEPT ![w] = job[w]]
         /\ renewal' = renewal => renewal' = [renewal EXCEPT ![w] = renewal[w]]
         /\ child' = child => child' = [child EXCEPT ![w] = child[w]]
         /\ run' = run => run' = [run EXCEPT ![w] = run[w]]
  BY DEF Inv, Shape, TypeOK

\* What a step of runner w starts from.
LEMMA Origin ==
  ASSUME Inv, NEW w \in Runners
  PROVE  /\ job[w].mission \in Missions \cup {None} /\ job[w].token \in Nat
         /\ job[w].atClaim \in Nat
         /\ job[w].token # 0 \/ pc[w] = "claim" => job[w].mission \in Missions
         /\ run[w].length \in 0..2 /\ run[w].anchored \in 0..2
         /\ run[w].anchored <= run[w].length
         /\ child[w] = "none" <=> run[w].length = 0
  BY RunnerTypes, JobFields, RunFields DEF Fits

\* The main goroutine moves; renewal and child do not.
LEMMA MainMoves ==
  ASSUME Inv, NEW w \in Runners,
         UNCHANGED <<leases, checkpoints, foreign, renewal, child>>,
         NEW l \in Places, NEW j \in Job, NEW x \in Run,
         Go(w, l),
         job' = [job EXCEPT ![w] = j] \/ (job' = job /\ j = job[w]),
         run' = [run EXCEPT ![w] = x] \/ (run' = run /\ x = run[w]),
         x.anchored <= x.length,
         child[w] = "none" <=> x.length = 0,
         Fits(l, j, renewal[w], child[w], x),
         Standing(l, j, owner, foreign, now, checkpoints)
  PROVE  Inv'
  <1>1. /\ UNCHANGED <<leases, checkpoints, foreign>>
        /\ renewal[w] \in Renewals /\ child[w] \in Children
    BY RunnerTypes
  <1>2. /\ pc' = [pc EXCEPT ![w] = l]
        /\ job' = [job EXCEPT ![w] = j]
        /\ renewal' = [renewal EXCEPT ![w] = renewal[w]]
        /\ child' = [child EXCEPT ![w] = child[w]]
        /\ run' = [run EXCEPT ![w] = x]
    BY Untouched DEF Go
  <1> QED
    BY <1>1, <1>2, Alone

\* Only the place changes.
LEMMA Goes ==
  ASSUME Inv, NEW w \in Runners,
         UNCHANGED <<leases, checkpoints, foreign, job, renewal, child, run>>,
         NEW l \in Places, Go(w, l),
         Fits(l, job[w], renewal[w], child[w], run[w]),
         Standing(l, job[w], owner, foreign, now, checkpoints)
  PROVE  Inv'
  <1>1. /\ UNCHANGED <<leases, checkpoints, foreign, renewal, child>>
        /\ job[w] \in Job /\ run[w] \in Run
        /\ run[w].anchored <= run[w].length
        /\ child[w] = "none" <=> run[w].length = 0
        /\ job' = job /\ run' = run
    BY RunnerTypes
  <1> QED
    BY <1>1, MainMoves

LEMMA LoadMissionStep ==
  ASSUME Inv, NEW w \in Runners, NEW m \in Missions, LoadMission(w, m)
  PROVE  Inv'
  <1>1. CASE job' = [job EXCEPT ![w].mission = m, ![w].early = checkpoints[m]] /\ Go(w, "claim")
    <2> DEFINE j == [job[w] EXCEPT !.mission = m, !.early = checkpoints[m]]
    <2>1. checkpoints[m] \in Nat /\ job[w] \in Job
      BY MissionTypes, RunnerTypes, BoundsAssumption
    <2>2. j \in Job
      BY <2>1, JobChanges
    <2>3. j.mission = m /\ j.token = job[w].token /\ j.seen = job[w].seen
      BY <2>1 DEF Job
    <2>4. job' = [job EXCEPT ![w] = j]
      BY <1>1
    <2>5. Fits("claim", j, renewal[w], child[w], run[w])
      BY <2>3, RunnerTypes DEF LoadMission, Fits, Working
    <2>6. Standing("claim", j, owner, foreign, now, checkpoints)
      BY <2>3, RunnerTypes DEF LoadMission, Standing, Fits
    <2>7. /\ UNCHANGED <<leases, checkpoints, foreign, renewal, child>>
          /\ "claim" \in Places /\ Go(w, "claim") /\ run' = run
          /\ run[w] \in Run /\ run[w].anchored <= run[w].length
          /\ child[w] = "none" <=> run[w].length = 0
      BY <1>1, RunnerTypes DEF LoadMission, Places
    <2> HIDE DEF j
    <2> QED
      BY <2>2, <2>4, <2>5, <2>6, <2>7, MainMoves
  <1>2. CASE job' = job /\ Go(w, "done")
    <2>1. Fits("done", job[w], renewal[w], child[w], run[w])
      BY RunnerTypes DEF LoadMission, Fits, Working
    <2>2. Standing("done", job[w], owner, foreign, now, checkpoints)
      BY RunnerTypes DEF LoadMission, Standing, Fits
    <2>3. /\ UNCHANGED <<leases, checkpoints, foreign, job, renewal, child, run>>
          /\ "done" \in Places
      BY <1>2 DEF LoadMission, Places
    <2> QED
      BY <1>2, <2>1, <2>2, <2>3, Goes
  <1> QED
    BY <1>1, <1>2 DEF LoadMission

LEMMA ClaimRefusedStep ==
  ASSUME Inv, NEW w \in Runners, ClaimRefused(w)
  PROVE  Inv'
  <1>1. Fits("done", job[w], renewal[w], child[w], run[w])
    BY RunnerTypes DEF ClaimRefused, Fits, Working
  <1>2. Standing("done", job[w], owner, foreign, now, checkpoints)
    BY RunnerTypes DEF ClaimRefused, Standing, Fits
  <1> QED
    BY <1>1, <1>2, Goes DEF ClaimRefused, Places

\* The token of a claim is new to everybody; the renewal is started with it, or,
\* by AcquireMission, once the context is there.
LEMMA GrantedStep ==
  ASSUME Inv, NEW w \in Runners, NEW m \in Missions,
         pc[w] = "idle" \/ pc[w] = "claim", Granted(w, m),
         NEW l \in {"acquired", "mission"}, Go(w, l),
         NEW r \in {"waiting", renewal[w]}, Renewing(w, r)
  PROVE  Inv'
  <1> DEFINE k == owner[m].token + 1
             n == checkpoints[m]
             j == [job[w] EXCEPT !.mission = m, !.token = k, !.atClaim = n]
  <1>1. /\ k \in Nat /\ n \in Nat /\ owner[m].token \in Nat /\ k > owner[m].token
        /\ job[w] \in Job
        /\ k \notin foreign[m] /\ k # 0
    BY MissionTypes, RunnerTypes, TokenIssued, BoundsAssumption
  <1>2. j \in Job
    BY <1>1, JobChanges
  <1>3. j.mission = m /\ j.token = k /\ j.atClaim = n /\ j.seen = job[w].seen
    BY <1>1 DEF Job
  <1>4. /\ Claimed(m) \in Lease!Term /\ Claimed(m).token = k
        /\ Claimed(m).since <= now
    BY CallTerms, MissionTypes
  <1>5. /\ owner' = [owner EXCEPT ![m] = Claimed(m)]
        /\ UNCHANGED <<now, closed, checkpoints>>
        /\ foreign' = foreign
    BY DEF Granted, Lease!Grant, Lease!Change
  <1>6. Onward
    <2>1. Claimed(m).token > owner[m].token
      BY <1>1, <1>4
    <2> QED
      BY <1>4, <1>5, <2>1, LedgerChanges
  <1>7. Fits(l, j, r, child[w], run[w])
    BY <1>1, <1>3, RunnerTypes DEF Fits, Working, Places
  <1>8. Standing(l, j, owner', foreign', now', checkpoints')
    <2>1. owner'[m].token = k /\ foreign' = foreign /\ checkpoints' = checkpoints
      BY <1>4, <1>5 DEF Inv, Shape, TypeOK
    <2>2. k <= k /\ n <= n
      BY <1>1
    <2> QED
      BY <1>1, <1>3, <2>1, <2>2 DEF Standing
  <1>9. /\ pc' = [pc EXCEPT ![w] = l]
        /\ job' = [job EXCEPT ![w] = j]
        /\ renewal' = [renewal EXCEPT ![w] = r]
        /\ child' = [child EXCEPT ![w] = child[w]]
        /\ run' = [run EXCEPT ![w] = run[w]]
    BY Untouched DEF Granted, Go, Renewing, NextToken
  <1>10. /\ child[w] \in Children /\ run[w] \in Run
         /\ run[w].anchored <= run[w].length
         /\ child[w] = "none" <=> run[w].length = 0
         /\ l \in Places /\ r \in Renewals
    BY RunnerTypes DEF Places, Renewals
  <1> HIDE DEF j, k, n
  <1> QED
    BY <1>2, <1>6, <1>7, <1>8, <1>9, <1>10, Moves

LEMMA ClaimMissionStep ==
  ASSUME Inv, NEW w \in Runners, ClaimMission(w)
  PROVE  Inv'
  <1>1. MissionOf(w) \in Missions
    BY RunnerTypes DEF ClaimMission, Fits, MissionOf
  <1> QED
    BY <1>1, GrantedStep DEF ClaimMission, StartRenewal, Renewing

LEMMA AcquireMissionStep ==
  ASSUME Inv, NEW w \in Runners, NEW m \in Missions, AcquireMission(w, m)
  PROVE  Inv'
  <1>1. Renewing(w, renewal[w])
    BY Untouched DEF AcquireMission, Renewing
  <1> QED
    BY <1>1, GrantedStep DEF AcquireMission

LEMMA AcquireContextStep ==
  ASSUME Inv, NEW w \in Runners, AcquireContext(w)
  PROVE  Inv'
  <1>1. ASSUME NEW l \in {"mission", "release"}, NEW r \in {"waiting", renewal[w]}
        PROVE  /\ Fits(l, job[w], r, child[w], run[w])
               /\ Standing(l, job[w], owner, foreign, now, checkpoints)
               /\ l \in Places /\ r \in Renewals
    BY RunnerTypes DEF AcquireContext, Fits, Standing, Working, Places, Renewals
  <1>2. PICK l \in {"mission", "release"}, r \in {"waiting", renewal[w]} :
           Go(w, l) /\ Renewing(w, r)
    BY Untouched DEF AcquireContext, StartRenewal, Renewing
  <1>3. /\ UNCHANGED <<leases, checkpoints, foreign>>
        /\ job[w] \in Job /\ child[w] \in Children /\ run[w] \in Run
        /\ run[w].anchored <= run[w].length
        /\ child[w] = "none" <=> run[w].length = 0
    BY RunnerTypes DEF AcquireContext
  <1>4. /\ pc' = [pc EXCEPT ![w] = l]
        /\ job' = [job EXCEPT ![w] = job[w]]
        /\ renewal' = [renewal EXCEPT ![w] = r]
        /\ child' = [child EXCEPT ![w] = child[w]]
        /\ run' = [run EXCEPT ![w] = run[w]]
    BY <1>2, Untouched DEF AcquireContext, Go, Renewing
  <1> QED
    BY <1>1, <1>3, <1>4, Alone

LEMMA CheckMissionStep ==
  ASSUME Inv, NEW w \in Runners, CheckMission(w)
  PROVE  Inv'
  <1>1. ASSUME NEW l \in {"stop", "compile"}
        PROVE  /\ Fits(l, job[w], renewal[w], child[w], run[w])
               /\ Standing(l, job[w], owner, foreign, now, checkpoints)
               /\ l \in Places
    BY RunnerTypes DEF CheckMission, Fits, Standing, Working, Places
  <1>2. PICK l \in {"stop", "compile"} : Go(w, l)
    BY DEF CheckMission
  <1> QED
    BY <1>1, <1>2, Goes DEF CheckMission

LEMMA CompileContextStep ==
  ASSUME Inv, NEW w \in Runners, CompileContext(w)
  PROVE  Inv'
  <1> DEFINE n == checkpoints[MissionOf(w)]
             j == [job[w] EXCEPT !.seen = n]
  <1>1. /\ job[w] \in Job /\ job[w].token # 0 /\ job[w].mission \in Missions
        /\ job[w].atClaim \in Nat /\ job[w].atClaim <= n
    BY RunnerTypes, JobFields DEF CompileContext, Fits, Standing, Working, Places, MissionOf
  <1>2. n \in Nat
    BY <1>1, MissionTypes, BoundsAssumption DEF MissionOf
  <1>3. j \in Job
    BY <1>1, <1>2, JobChanges
  <1>4. /\ j.mission = job[w].mission /\ j.token = job[w].token
        /\ j.atClaim = job[w].atClaim /\ j.seen = n
    BY <1>1 DEF Job
  <1>5. CASE job' = [job EXCEPT ![w].seen = n] /\ Go(w, "start")
    <2>1. Fits("start", j, renewal[w], child[w], run[w])
      BY <1>1, <1>2, <1>4, RunnerTypes DEF CompileContext, Fits, Working, Places
    <2>2. Standing("start", j, owner, foreign, now, checkpoints)
      BY <1>4, RunnerTypes DEF CompileContext, Standing
    <2>3. /\ UNCHANGED <<leases, checkpoints, foreign, renewal, child>>
          /\ "start" \in Places /\ run' = run
          /\ job' = [job EXCEPT ![w] = j]
          /\ run[w] \in Run /\ run[w].anchored <= run[w].length
          /\ child[w] = "none" <=> run[w].length = 0
      BY <1>5, RunnerTypes DEF CompileContext, Places
    <2> HIDE DEF j
    <2> QED
      BY <1>3, <1>5, <2>1, <2>2, <2>3, MainMoves
  <1>6. CASE job' = job /\ Go(w, "stop")
    <2>1. Fits("stop", job[w], renewal[w], child[w], run[w])
      BY RunnerTypes DEF CompileContext, Fits, Working, Places
    <2>2. Standing("stop", job[w], owner, foreign, now, checkpoints)
      BY RunnerTypes DEF CompileContext, Standing
    <2> QED
      BY <1>6, <2>1, <2>2, Goes DEF CompileContext, Places
  <1> QED
    BY <1>5, <1>6 DEF CompileContext

LEMMA StartRunStep ==
  ASSUME Inv, NEW w \in Runners, StartRun(w)
  PROVE  Inv'
  <1> DEFINE x == [NoRun EXCEPT !.status = "active"]
  <1>1. CASE run' = [run EXCEPT ![w] = x] /\ Go(w, "started")
    <2>1. x \in Run /\ x.length = 0 /\ x.anchored = 0 /\ x.status = "active"
      BY DEF NoRun, Run
    <2>2. child[w] = "none" /\ Fits("started", job[w], renewal[w], child[w], x)
      BY <2>1, RunnerTypes DEF StartRun, Fits, Working, Places
    <2>3. Standing("started", job[w], owner, foreign, now, checkpoints)
      BY RunnerTypes DEF StartRun, Standing
    <2>4. /\ UNCHANGED <<leases, checkpoints, foreign, renewal, child>>
          /\ "started" \in Places /\ job' = job /\ job[w] \in Job
          /\ x.anchored <= x.length
          /\ child[w] = "none" <=> x.length = 0
      BY <2>1, <2>2, RunnerTypes DEF StartRun, Places
    <2> HIDE DEF x
    <2> QED
      BY <1>1, <2>1, <2>2, <2>3, <2>4, MainMoves
  <1>2. CASE run' = run /\ Go(w, "stop")
    <2>1. Fits("stop", job[w], renewal[w], child[w], run[w])
      BY RunnerTypes DEF StartRun, Fits, Working, Places
    <2>2. Standing("stop", job[w], owner, foreign, now, checkpoints)
      BY RunnerTypes DEF StartRun, Standing
    <2> QED
      BY <1>2, <2>1, <2>2, Goes DEF StartRun, Places
  <1> QED
    BY <1>1, <1>2 DEF StartRun

LEMMA StartChildStep ==
  ASSUME Inv, NEW w \in Runners, StartChild(w)
  PROVE  Inv'
  <1> DEFINE x == [run[w] EXCEPT !.length = 1]
  <1>1. CASE run' = [run EXCEPT ![w].length = 1] /\ child' = [child EXCEPT ![w] = "running"]
             /\ Go(w, "child")
    <2>1. run[w] \in Run /\ run[w].anchored <= 0 /\ run[w].anchored \in 0..2
      BY Origin, RunnerTypes DEF StartChild, Fits
    <2>2. x \in Run /\ x.length = 1 /\ x.anchored <= 1
      BY <2>1 DEF Run
    <2>3. Fits("child", job[w], renewal[w], "running", x)
      BY <2>2, RunnerTypes DEF StartChild, Fits, Working, Places
    <2>4. Standing("child", job[w], owner, foreign, now, checkpoints)
      BY RunnerTypes DEF StartChild, Standing
    <2>5. /\ UNCHANGED <<leases, checkpoints, foreign>>
          /\ "child" \in Places /\ job[w] \in Job /\ renewal[w] \in Renewals
          /\ "running" \in Children
          /\ x.anchored <= x.length
          /\ "running" = "none" <=> x.length = 0
      BY <2>2, RunnerTypes DEF StartChild, Places, Children
    <2>6. /\ pc' = [pc EXCEPT ![w] = "child"]
          /\ job' = [job EXCEPT ![w] = job[w]]
          /\ renewal' = [renewal EXCEPT ![w] = renewal[w]]
          /\ child' = [child EXCEPT ![w] = "running"]
          /\ run' = [run EXCEPT ![w] = x]
      BY <1>1, Untouched DEF StartChild, Go
    <2> HIDE DEF x
    <2> QED
      BY <2>2, <2>3, <2>4, <2>5, <2>6, Alone
  <1>2. CASE UNCHANGED <<run, child>> /\ Go(w, "stop")
    <2>1. Fits("stop", job[w], renewal[w], child[w], run[w])
      BY RunnerTypes DEF StartChild, Fits, Working, Places
    <2>2. Standing("stop", job[w], owner, foreign, now, checkpoints)
      BY RunnerTypes DEF StartChild, Standing
    <2> QED
      BY <1>2, <2>1, <2>2, Goes DEF StartChild, Places
  <1> QED
    BY <1>1, <1>2 DEF StartChild

LEMMA AppendCompletedStep ==
  ASSUME Inv, NEW w \in Runners, AppendCompleted(w)
  PROVE  Inv'
  <1> DEFINE x == [run[w] EXCEPT !.length = run[w].length + 1]
  <1>1. Standing("complete", job[w], owner, foreign, now, checkpoints)
    BY RunnerTypes DEF AppendCompleted, Standing
  <1>2. CASE run' = [run EXCEPT ![w].length = @ + 1]
    <2>1. /\ run[w] \in Run /\ run[w].length = 1
          /\ run[w].anchored <= 1 /\ run[w].anchored \in 0..2
      BY Origin, RunnerTypes DEF AppendCompleted, Fits
    <2>2. x \in Run /\ x.length = 2 /\ x.anchored <= 2 /\ x.status = run[w].status
      BY <2>1 DEF Run
    <2>3. Fits("complete", job[w], renewal[w], child[w], x)
      BY RunnerTypes DEF AppendCompleted, Fits, Working, Places
    <2>4. /\ UNCHANGED <<leases, checkpoints, foreign, renewal, child>>
          /\ "complete" \in Places /\ Go(w, "complete") /\ job' = job /\ job[w] \in Job
          /\ x.anchored <= x.length
          /\ child[w] = "none" <=> x.length = 0
          /\ run' = [run EXCEPT ![w] = x]
      BY <1>2, <2>2, RunnerTypes DEF AppendCompleted, Places
    <2> HIDE DEF x
    <2> QED
      BY <1>1, <2>2, <2>3, <2>4, MainMoves
  <1>3. CASE run' = run
    <2>1. Fits("complete", job[w], renewal[w], child[w], run[w])
      BY RunnerTypes DEF AppendCompleted, Fits, Working, Places
    <2> QED
      BY <1>1, <1>3, <2>1, Goes DEF AppendCompleted, Places
  <1> QED
    BY <1>2, <1>3 DEF AppendCompleted

\* The steps that leave the run alone and set a field of the job that its token
\* does not depend on.
LEMMA JobMoves ==
  ASSUME Inv, NEW w \in Runners,
         UNCHANGED <<leases, checkpoints, foreign, renewal, child, run>>,
         NEW l \in Places, Go(w, l),
         NEW j \in Job, job' = [job EXCEPT ![w] = j],
         Fits(l, j, renewal[w], child[w], run[w]),
         Standing(l, j, owner, foreign, now, checkpoints)
  PROVE  Inv'
  <1>1. /\ UNCHANGED <<leases, checkpoints, foreign, renewal, child>>
        /\ run[w] \in Run /\ run[w].anchored <= run[w].length
        /\ child[w] = "none" <=> run[w].length = 0
        /\ run' = run
    BY RunnerTypes
  <1> QED
    BY <1>1, MainMoves

\* A call fails and the runner goes on.
LEMMA FailedMoves ==
  ASSUME Inv, NEW w \in Runners,
         UNCHANGED <<leases, checkpoints, foreign, renewal, child, run>>,
         NEW l \in Places, Go(w, l),
         NEW call \in Calls, Failed(w, call),
         \A j \in Job :
            /\ j.mission = job[w].mission /\ j.token = job[w].token /\ j.seen = job[w].seen
            /\ j.atClaim = job[w].atClaim /\ j.failed = job[w].failed \cup {call}
            => /\ Fits(l, j, renewal[w], child[w], run[w])
               /\ Standing(l, j, owner, foreign, now, checkpoints)
  PROVE  Inv'
  <1> DEFINE j == [job[w] EXCEPT !.failed = job[w].failed \cup {call}]
  <1>1. job[w] \in Job
    BY RunnerTypes
  <1>2. j \in Job
    BY <1>1, JobChanges
  <1>3. /\ j.mission = job[w].mission /\ j.token = job[w].token /\ j.seen = job[w].seen
        /\ j.atClaim = job[w].atClaim /\ j.failed = job[w].failed \cup {call}
    BY <1>1 DEF Job
  <1>4. job' = [job EXCEPT ![w] = j]
    BY DEF Failed
  <1> HIDE DEF j
  <1> QED
    BY <1>2, <1>3, <1>4, JobMoves

LEMMA CompleteRunStep ==
  ASSUME Inv, NEW w \in Runners, CompleteRun(w)
  PROVE  Inv'
  <1> DEFINE x == [run[w] EXCEPT !.status = "completed"]
  <1>1. run[w] \in Run
    BY RunnerTypes
  <1>2. /\ x \in Run /\ x.status = "completed"
        /\ x.length = run[w].length /\ x.anchored = run[w].anchored
    BY <1>1 DEF Run
  <1>3. CASE run' = [run EXCEPT ![w].status = "completed"] /\ job' = job
    <2>1. Fits("stop", job[w], renewal[w], child[w], x)
      BY <1>2, RunnerTypes DEF CompleteRun, Fits, Working, Places
    <2>2. Standing("stop", job[w], owner, foreign, now, checkpoints)
      BY RunnerTypes DEF CompleteRun, Standing
    <2>3. /\ UNCHANGED <<leases, checkpoints, foreign, renewal, child>>
          /\ "stop" \in Places /\ Go(w, "stop") /\ job' = job /\ job[w] \in Job
          /\ x.anchored <= x.length
          /\ child[w] = "none" <=> x.length = 0
          /\ run' = [run EXCEPT ![w] = x]
      BY <1>2, <1>3, RunnerTypes DEF CompleteRun, Places
    <2> HIDE DEF x
    <2> QED
      BY <1>2, <2>1, <2>2, <2>3, MainMoves
  <1>4. CASE Failed(w, "complete") /\ run' = run
    <2>1. ASSUME NEW j \in Job,
                 j.mission = job[w].mission, j.token = job[w].token, j.seen = job[w].seen,
                 j.atClaim = job[w].atClaim, j.failed = job[w].failed \cup {"complete"}
          PROVE  /\ Fits("stop", j, renewal[w], child[w], run[w])
                 /\ Standing("stop", j, owner, foreign, now, checkpoints)
      BY <2>1, RunnerTypes DEF CompleteRun, Fits, Standing, Working, Places
    <2>2. /\ UNCHANGED <<leases, checkpoints, foreign, renewal, child, run>>
          /\ "stop" \in Places /\ Go(w, "stop") /\ "complete" \in Calls
      BY <1>4 DEF CompleteRun, Places, Calls
    <2> QED
      BY <1>4, <2>1, <2>2, FailedMoves
  <1> QED
    BY <1>3, <1>4 DEF CompleteRun

LEMMA StopRenewalStep ==
  ASSUME Inv, NEW w \in Runners, StopRenewal(w)
  PROVE  Inv'
  <1> DEFINE j == [job[w] EXCEPT !.seen = None, !.stopped = TRUE]
  <1>1. job[w] \in Job
    BY RunnerTypes
  <1>2. j \in Job
    BY <1>1, JobChanges
  <1>3. /\ j.mission = job[w].mission /\ j.token = job[w].token /\ j.seen = None
        /\ j.atClaim = job[w].atClaim
    BY <1>1 DEF Job
  <1>4. Fits("wait", j, renewal[w], child[w], run[w])
    BY <1>3, RunnerTypes DEF StopRenewal, Fits, Working, Places
  <1>5. Standing("wait", j, owner, foreign, now, checkpoints)
    BY <1>3, RunnerTypes DEF StopRenewal, Standing
  <1>6. job' = [job EXCEPT ![w] = j] /\ Go(w, "wait") /\ "wait" \in Places
    BY DEF StopRenewal, Places
  <1> HIDE DEF j
  <1> QED
    BY <1>2, <1>4, <1>5, <1>6, JobMoves DEF StopRenewal

LEMMA WaitRenewalStep ==
  ASSUME Inv, NEW w \in Runners, WaitRenewal(w)
  PROVE  Inv'
  <1>1. /\ UNCHANGED <<leases, checkpoints, foreign, renewal, child, run>>
        /\ "look" \in Places /\ Go(w, "look") /\ "renew" \in Calls
    BY DEF WaitRenewal, Places, Calls
  <1>2. CASE Failed(w, "renew")
    <2>1. ASSUME NEW j \in Job,
                 j.mission = job[w].mission, j.token = job[w].token, j.seen = job[w].seen,
                 j.atClaim = job[w].atClaim, j.failed = job[w].failed \cup {"renew"}
          PROVE  /\ Fits("look", j, renewal[w], child[w], run[w])
                 /\ Standing("look", j, owner, foreign, now, checkpoints)
      BY <2>1, RunnerTypes DEF WaitRenewal, Fits, Standing, Working, Places
    <2> QED
      BY <1>1, <1>2, <2>1, FailedMoves
  <1>3. CASE UNCHANGED job
    <2>1. /\ Fits("look", job[w], renewal[w], child[w], run[w])
          /\ Standing("look", job[w], owner, foreign, now, checkpoints)
      BY RunnerTypes DEF WaitRenewal, Fits, Standing, Working, Places
    <2> QED
      BY <1>1, <1>3, <2>1, Goes
  <1> QED
    BY <1>2, <1>3 DEF WaitRenewal

\* A lease that is not the runner's any more will not be its again.
LEMMA ReadLeaseStep ==
  ASSUME Inv, NEW w \in Runners, ReadLease(w)
  PROVE  Inv'
  <1>1. /\ UNCHANGED <<leases, checkpoints, foreign, renewal, child, run>>
        /\ {"release", "done"} \subseteq Places /\ "read" \in Calls
    BY DEF ReadLease, Places, Calls
  <1>2. CASE Owns(MissionOf(w), job[w].token) /\ Go(w, "release") /\ UNCHANGED job
    <2>1. /\ Fits("release", job[w], renewal[w], child[w], run[w])
          /\ Standing("release", job[w], owner, foreign, now, checkpoints)
      BY RunnerTypes DEF ReadLease, Fits, Standing, Working, Places
    <2> QED
      BY <1>1, <1>2, <2>1, Goes
  <1>3. CASE ~Owns(MissionOf(w), job[w].token) /\ Go(w, "done") /\ UNCHANGED job
    <2>1. Fits("done", job[w], renewal[w], child[w], run[w])
      BY RunnerTypes DEF ReadLease, Fits, Working, Places
    <2>2. Standing("done", job[w], owner, foreign, now, checkpoints)
      BY <1>3, RunnerTypes DEF ReadLease, Standing, Owns, Live, MissionOf
    <2> QED
      BY <1>1, <1>3, <2>1, <2>2, Goes
  <1>4. CASE Go(w, "done") /\ Failed(w, "read")
    <2>1. ASSUME NEW j \in Job,
                 j.mission = job[w].mission, j.token = job[w].token, j.seen = job[w].seen,
                 j.atClaim = job[w].atClaim, j.failed = job[w].failed \cup {"read"}
          PROVE  /\ Fits("done", j, renewal[w], child[w], run[w])
                 /\ Standing("done", j, owner, foreign, now, checkpoints)
      BY <2>1, RunnerTypes DEF ReadLease, Fits, Standing, Working, Places
    <2> QED
      BY <1>1, <1>4, <2>1, FailedMoves
  <1> QED
    BY <1>2, <1>3, <1>4 DEF ReadLease

\* A runner that only changes its place while the ledger goes on.
LEMMA GoesOnward ==
  ASSUME Inv, Onward, NEW w \in Runners,
         UNCHANGED <<job, renewal, child, run>>,
         NEW l \in Places, Go(w, l),
         Fits(l, job[w], renewal[w], child[w], run[w]),
         Standing(l, job[w], owner', foreign', now', checkpoints')
  PROVE  Inv'
  <1> DEFINE j == job[w]
             r == renewal[w]
             c == child[w]
             x == run[w]
  <1>1. /\ j \in Job /\ r \in Renewals /\ c \in Children /\ x \in Run
        /\ x.anchored <= x.length
        /\ c = "none" <=> x.length = 0
    BY RunnerTypes
  <1>2. /\ pc' = [pc EXCEPT ![w] = l]
        /\ job' = [job EXCEPT ![w] = j]
        /\ renewal' = [renewal EXCEPT ![w] = r]
        /\ child' = [child EXCEPT ![w] = c]
        /\ run' = [run EXCEPT ![w] = x]
    BY Untouched DEF Go
  <1>3. Fits(l, j, r, c, x) /\ Standing(l, j, owner', foreign', now', checkpoints')
    OBVIOUS
  <1> HIDE DEF j, r, c, x
  <1> QED
    BY <1>1, <1>2, <1>3, Moves

\* Renewing and giving back the lease in force.
LEMMA LeaseKeeps ==
  ASSUME Inv, NEW m \in Missions, owner[m].until > now,
         \/ owner' = [owner EXCEPT ![m] = Renewed(m)]
         \/ owner' = [owner EXCEPT ![m] = Released(m)],
         UNCHANGED <<now, closed, checkpoints, foreign>>
  PROVE  Onward
  <1>1. /\ Renewed(m) \in Lease!Term /\ Released(m) \in Lease!Term
        /\ Renewed(m).since <= now /\ Released(m).since <= now
        /\ Renewed(m).token = owner[m].token /\ Released(m).token = owner[m].token
    BY CallTerms, MissionTypes
  <1>2. PICK term \in {Renewed(m), Released(m)} : owner' = [owner EXCEPT ![m] = term]
    OBVIOUS
  <1>3. term \in Lease!Term /\ term.since <= now /\ term.token = owner[m].token
    BY <1>1, <1>2
  <1> QED
    BY <1>2, <1>3, LedgerChanges

LEMMA ReleaseMissionStep ==
  ASSUME Inv, NEW w \in Runners, ReleaseMission(w)
  PROVE  Inv'
  <1> DEFINE m == MissionOf(w)
  <1>1. /\ job[w] \in Job /\ job[w].token # 0 /\ m \in Missions /\ m = job[w].mission
        /\ Fits("done", job[w], renewal[w], child[w], run[w])
    BY RunnerTypes DEF ReleaseMission, Fits, Working, Places, MissionOf
  <1>2. CASE Owns(m, job[w].token) /\ Lease!Drop(m, now, Released(m)) /\ UNCHANGED job
    <2>1. /\ owner' = [owner EXCEPT ![m] = Released(m)]
          /\ owner[m].until > now
          /\ UNCHANGED <<now, closed, checkpoints, foreign>>
      BY <1>2 DEF ReleaseMission, Lease!Drop, Lease!Change
    <2>2. Onward
      BY <1>1, <2>1, LeaseKeeps
    <2>3. owner'[m].until = 0 /\ now' \in Nat
      BY <1>1, <2>1, CallTerms, MissionTypes DEF Inv, Shape, TypeOK
    <2>4. Standing("done", job[w], owner', foreign', now', checkpoints')
      BY <1>1, <2>2, <2>3, StandingKept DEF Standing
    <2>5. UNCHANGED <<job, renewal, child, run>> /\ "done" \in Places /\ Go(w, "done")
      BY <1>2 DEF ReleaseMission, Places
    <2> QED
      BY <1>1, <2>2, <2>4, <2>5, GoesOnward
  <1>3. CASE UNCHANGED leases /\ Failed(w, "release")
    <2>1. ASSUME NEW j \in Job,
                 j.mission = job[w].mission, j.token = job[w].token, j.seen = job[w].seen,
                 j.atClaim = job[w].atClaim, j.failed = job[w].failed \cup {"release"}
          PROVE  /\ Fits("done", j, renewal[w], child[w], run[w])
                 /\ Standing("done", j, owner, foreign, now, checkpoints)
      BY <2>1, RunnerTypes DEF ReleaseMission, Fits, Standing, Working, Places
    <2>2. /\ UNCHANGED <<leases, checkpoints, foreign, renewal, child, run>>
          /\ "done" \in Places /\ Go(w, "done") /\ "release" \in Calls
      BY <1>3 DEF ReleaseMission, Places, Calls
    <2> QED
      BY <1>3, <2>1, <2>2, FailedMoves
  <1> QED
    BY <1>2, <1>3 DEF ReleaseMission

LEMMA CrashStep ==
  ASSUME Inv, NEW w \in Runners, Crash(w)
  PROVE  Inv'
  <1>1. Fits("crashed", job[w], "off", child[w], run[w])
    BY RunnerTypes DEF Crash, Fits, Working
  <1>2. Standing("crashed", job[w], owner, foreign, now, checkpoints)
    BY RunnerTypes DEF Crash, Standing
  <1>3. /\ UNCHANGED <<leases, checkpoints, foreign>>
        /\ job[w] \in Job /\ child[w] \in Children /\ run[w] \in Run
        /\ run[w].anchored <= run[w].length
        /\ child[w] = "none" <=> run[w].length = 0
        /\ "crashed" \in Places /\ "off" \in Renewals
    BY RunnerTypes DEF Crash, Places, Renewals
  <1>4. /\ pc' = [pc EXCEPT ![w] = "crashed"]
        /\ job' = [job EXCEPT ![w] = job[w]]
        /\ renewal' = [renewal EXCEPT ![w] = "off"]
        /\ child' = [child EXCEPT ![w] = child[w]]
        /\ run' = [run EXCEPT ![w] = run[w]]
    BY Untouched DEF Crash, Go
  <1> QED
    BY <1>1, <1>2, <1>3, <1>4, Alone

-----------------------------------------------------------------------------
(* The renewal goroutine *)

\* Only the renewal goroutine moves, which runs since the claim.
LEMMA RenewalMoves ==
  ASSUME Inv, Onward, NEW w \in Runners, renewal[w] # "off",
         NEW r \in Renewals, Renewing(w, r),
         UNCHANGED <<pc, job, child, run>>
  PROVE  Inv'
  <1> DEFINE l == pc[w]
             j == job[w]
             c == child[w]
             x == run[w]
  <1>1. /\ l \in Places /\ j \in Job /\ c \in Children /\ x \in Run
        /\ x.anchored <= x.length
        /\ c = "none" <=> x.length = 0
        /\ Fits(l, j, renewal[w], c, x)
    BY RunnerTypes
  <1>2. /\ pc' = [pc EXCEPT ![w] = l]
        /\ job' = [job EXCEPT ![w] = j]
        /\ renewal' = [renewal EXCEPT ![w] = r]
        /\ child' = [child EXCEPT ![w] = c]
        /\ run' = [run EXCEPT ![w] = x]
    BY Untouched DEF Renewing
  <1>3. Standing(l, j, owner', foreign', now', checkpoints')
    BY StandingKept
  <1>4. Fits(l, j, r, c, x)
    BY <1>1 DEF Fits
  <1> HIDE DEF l, j, c, x
  <1> QED
    BY <1>1, <1>2, <1>3, <1>4, Moves

LEMMA RenewalStep ==
  ASSUME Inv, NEW w \in Runners, RenewalTick(w) \/ Goroutine(w)
  PROVE  Inv'
  <1>1. CASE RenewMission(w)
    <2> DEFINE m == MissionOf(w)
    <2>1. m \in Missions /\ renewal[w] # "off"
      BY <1>1, RunnerTypes DEF RenewMission, MissionOf, Fits
    <2>2. /\ owner[m].until > now
          /\ owner' = [owner EXCEPT ![m] = Renewed(m)]
          /\ UNCHANGED <<now, closed, checkpoints, foreign>>
      BY <1>1 DEF RenewMission, Lease!Extend, Lease!Change
    <2>3. Onward
      BY <2>1, <2>2, LeaseKeeps
    <2>4. "waiting" \in Renewals /\ Renewing(w, "waiting") /\ UNCHANGED <<pc, job, child, run>>
      BY <1>1 DEF RenewMission, Renewals
    <2> QED
      BY <2>1, <2>3, <2>4, RenewalMoves
  <1>2. CASE RenewalTick(w) \/ RenewalStop(w) \/ RenewFails(w) \/ RenewalLook(w)
    <2>1. /\ UNCHANGED <<leases, checkpoints, foreign>>
          /\ UNCHANGED <<pc, job, child, run>>
          /\ renewal[w] # "off"
          /\ \E r \in {"renew", "look", "ended", "failed"} : Renewing(w, r)
      BY <1>2 DEF RenewalTick, RenewalStop, RenewFails, RenewalLook
    <2>2. PICK r \in {"renew", "look", "ended", "failed"} : Renewing(w, r)
      BY <2>1
    <2>3. Onward /\ r \in Renewals
      BY <2>1, LedgerRests DEF Renewals
    <2> QED
      BY <2>1, <2>2, <2>3, RenewalMoves
  <1> QED
    BY <1>1, <1>2 DEF Goroutine

-----------------------------------------------------------------------------
(* The child and other users *)

\* A checkpoint: more of a run is anchored, and one checkpoint more is counted.
LEMMA CheckpointStep ==
  ASSUME Inv, NEW m \in Missions, NEW v \in Runners, Checkpoint(m, v)
  PROVE  Inv'
  <1> DEFINE l == pc[v]
             j == job[v]
             r == renewal[v]
             c == child[v]
             x == [run[v] EXCEPT !.anchored = run[v].length]
  <1>1. Onward
    <2>1. checkpoints \in [Missions -> 0..MaxCheckpoints] /\ MaxCheckpoints \in Nat
      BY BoundsAssumption DEF Inv, Shape, TypeOK
    <2>2. /\ checkpoints' \in [Missions -> 0..MaxCheckpoints]
          /\ \A i \in Missions : checkpoints'[i] >= checkpoints[i]
      BY <2>1 DEF Checkpoint
    <2>3. /\ now' = now /\ closed' = closed /\ owner' = owner /\ foreign' = foreign
      BY DEF Checkpoint, leases
    <2>4. /\ now \in Nat /\ now >= now /\ closed \subseteq Missions
          /\ owner \in [Missions -> Lease!Term]
          /\ foreign \in [Missions -> SUBSET Nat]
          /\ \A i \in Missions : owner[i].since <= now /\ owner[i].token >= owner[i].token
      BY MissionTypes DEF Inv, Shape, TypeOK
    <2> QED
      BY <2>2, <2>3, <2>4 DEF Onward
  <1>2. /\ run[v] \in Run /\ run[v].length \in 0..2 /\ run[v].status # "none"
    BY Origin, RunnerTypes DEF Checkpoint, RunsOf
  <1>3. /\ x \in Run /\ x.length = run[v].length /\ x.status = run[v].status
        /\ x.anchored <= x.length
    BY <1>2 DEF Run
  <1>4. /\ l \in Places /\ j \in Job /\ r \in Renewals /\ c \in Children
        /\ c = "none" <=> x.length = 0
        /\ Fits(l, j, r, c, run[v])
    BY <1>3, RunnerTypes
  <1>5. Fits(l, j, r, c, x)
    BY <1>2, <1>3, <1>4 DEF Fits, NoRun
  <1>6. Standing(l, j, owner', foreign', now', checkpoints')
    BY <1>1, StandingKept
  <1>7. /\ pc' = [pc EXCEPT ![v] = l]
        /\ job' = [job EXCEPT ![v] = j]
        /\ renewal' = [renewal EXCEPT ![v] = r]
        /\ child' = [child EXCEPT ![v] = c]
        /\ run' = [run EXCEPT ![v] = x]
    BY Untouched DEF Checkpoint
  <1> HIDE DEF l, j, r, c, x
  <1> QED
    BY <1>1, <1>3, <1>4, <1>5, <1>6, <1>7, Moves

\* A new owner whose token is foreign, by a handoff or a claim.
LEMMA ForeignStep ==
  ASSUME Inv, NEW m \in Missions,
         owner' = [owner EXCEPT ![m] = Claimed(m)],
         foreign' = [foreign EXCEPT ![m] = @ \cup {NextToken(m)}],
         UNCHANGED <<now, closed, checkpoints, pc, job, renewal, child, run>>
  PROVE  Inv'
  <1>1. /\ Claimed(m) \in Lease!Term /\ Claimed(m).since <= now
        /\ Claimed(m).token = NextToken(m) /\ Claimed(m).token > owner[m].token
    BY CallTerms, MissionTypes DEF NextToken
  <1>2. foreign' = [foreign EXCEPT ![m] = @ \cup {Claimed(m).token}]
    BY <1>1
  <1>3. Onward
    BY <1>1, <1>2, LedgerChanges
  <1> QED
    BY <1>3, Stays

LEMMA CompleteStep ==
  ASSUME Inv, NEW m \in Missions, Complete(m)
  PROVE  Inv'
  <1>1. /\ closed' = closed \cup {m}
        /\ now' = now /\ owner' = owner /\ checkpoints' = checkpoints /\ foreign' = foreign
        /\ UNCHANGED <<pc, job, renewal, child, run>>
    BY DEF Complete, Lease!Close
  <1>2. /\ now \in Nat /\ now >= now /\ closed \subseteq Missions
        /\ owner \in [Missions -> Lease!Term]
        /\ checkpoints \in [Missions -> 0..MaxCheckpoints]
        /\ foreign \in [Missions -> SUBSET Nat]
        /\ \A i \in Missions : /\ owner[i].since <= now /\ owner[i].token >= owner[i].token
                               /\ checkpoints[i] >= checkpoints[i]
    BY MissionTypes, BoundsAssumption DEF Inv, Shape, TypeOK
  <1>3. Onward
    BY <1>1, <1>2 DEF Onward
  <1> QED
    BY <1>1, <1>3, Stays

LEMMA ClockStep ==
  ASSUME Inv, ClockTick
  PROVE  Inv'
  <1>1. /\ now' = now + 1 /\ closed' = closed /\ owner' = owner
        /\ checkpoints' = checkpoints /\ foreign' = foreign
        /\ UNCHANGED <<pc, job, renewal, child, run>>
    BY DEF ClockTick
  <1>2. /\ now \in Nat /\ closed \subseteq Missions
        /\ owner \in [Missions -> Lease!Term]
        /\ checkpoints \in [Missions -> 0..MaxCheckpoints]
        /\ foreign \in [Missions -> SUBSET Nat]
    BY DEF Inv, Shape, TypeOK
  <1>3. \A i \in Missions : /\ owner[i].since <= now + 1 /\ owner[i].token >= owner[i].token
                            /\ checkpoints[i] >= checkpoints[i]
                            /\ owner[i].until > now + 1 => owner[i].until > now
    BY <1>2, MissionTypes, BoundsAssumption
  <1>4. Onward
    BY <1>1, <1>2, <1>3 DEF Onward
  <1> QED
    BY <1>1, <1>4, Stays

LEMMA ChildStep ==
  ASSUME Inv, NEW w \in Runners, Child(w)
  PROVE  Inv'
  <1> DEFINE m == MissionOf(w)
  <1>1. child[w] = "running" /\ m \in Missions
    <2>1. child[w] = "running"
      BY DEF Child, ChildCheckpoints, ChildHandsOff, ChildReleases, ChildCompletes,
             ChildExits, Running
    <2> QED
      BY <2>1, RunnerTypes DEF Fits, MissionOf
  <1>2. CASE ChildCheckpoints(w)
    BY <1>1, <1>2, CheckpointStep DEF ChildCheckpoints
  <1>3. CASE ChildHandsOff(w)
    BY <1>1, <1>3, ForeignStep DEF ChildHandsOff, Lease!Transfer, Lease!Change
  <1>4. CASE ChildReleases(w)
    <2>1. /\ owner[m].until > now
          /\ owner' = [owner EXCEPT ![m] = Released(m)]
          /\ UNCHANGED <<now, closed, checkpoints, foreign>>
          /\ UNCHANGED <<pc, job, renewal, child, run>>
      BY <1>4 DEF ChildReleases, Lease!Drop, Lease!Change
    <2>2. Onward
      BY <1>1, <2>1, LeaseKeeps
    <2> QED
      BY <2>1, <2>2, Stays
  <1>5. CASE ChildCompletes(w)
    BY <1>1, <1>5, CompleteStep DEF ChildCompletes
  <1>6. CASE ChildExits(w)
    <2>1. Fits(pc[w], job[w], renewal[w], "exited", run[w])
      BY <1>1, RunnerTypes DEF Fits
    <2>2. Standing(pc[w], job[w], owner, foreign, now, checkpoints)
      BY RunnerTypes
    <2>3. /\ UNCHANGED <<leases, checkpoints, foreign>>
          /\ pc[w] \in Places /\ job[w] \in Job /\ renewal[w] \in Renewals /\ run[w] \in Run
          /\ run[w].anchored <= run[w].length
          /\ "exited" = "none" <=> run[w].length = 0
          /\ "exited" \in Children
      BY <1>1, <1>6, RunnerTypes DEF ChildExits, Children
    <2>4. /\ pc' = [pc EXCEPT ![w] = pc[w]]
          /\ job' = [job EXCEPT ![w] = job[w]]
          /\ renewal' = [renewal EXCEPT ![w] = renewal[w]]
          /\ child' = [child EXCEPT ![w] = "exited"]
          /\ run' = [run EXCEPT ![w] = run[w]]
      BY <1>6, Untouched DEF ChildExits
    <2> QED
      BY <2>1, <2>2, <2>3, <2>4, Alone
  <1> QED
    BY <1>2, <1>3, <1>4, <1>5, <1>6 DEF Child

LEMMA UserStep ==
  ASSUME Inv, NEW m \in Missions, UserClaims(m) \/ UserCheckpoints(m) \/ Complete(m)
  PROVE  Inv'
  <1>1. CASE UserClaims(m)
    BY <1>1, ForeignStep DEF UserClaims, Lease!Grant, Lease!Change
  <1>2. CASE \E v \in Runners : Checkpoint(m, v)
    BY <1>2, CheckpointStep
  <1>3. CASE /\ checkpoints[m] < MaxCheckpoints
             /\ checkpoints' = [checkpoints EXCEPT ![m] = @ + 1]
             /\ UNCHANGED <<leases, foreign, pc, job, renewal, child, run>>
    <2>1. checkpoints \in [Missions -> 0..MaxCheckpoints] /\ MaxCheckpoints \in Nat
      BY BoundsAssumption DEF Inv, Shape, TypeOK
    <2>2. /\ checkpoints' \in [Missions -> 0..MaxCheckpoints]
          /\ \A i \in Missions : checkpoints'[i] >= checkpoints[i]
      BY <1>3, <2>1
    <2>3. /\ now' = now /\ closed' = closed /\ owner' = owner /\ foreign' = foreign
      BY <1>3 DEF leases
    <2>4. /\ now \in Nat /\ now >= now /\ closed \subseteq Missions
          /\ owner \in [Missions -> Lease!Term]
          /\ foreign \in [Missions -> SUBSET Nat]
          /\ \A i \in Missions : owner[i].since <= now /\ owner[i].token >= owner[i].token
      BY MissionTypes DEF Inv, Shape, TypeOK
    <2>5. Onward
      BY <2>2, <2>3, <2>4 DEF Onward
    <2> QED
      BY <1>3, <2>5, Stays
  <1>4. CASE Complete(m)
    BY <1>4, CompleteStep
  <1> QED
    BY <1>1, <1>2, <1>3, <1>4 DEF UserCheckpoints

LEMMA UserEndsRunStep ==
  ASSUME Inv, NEW w \in Runners, UserEndsRun(w)
  PROVE  Inv'
  <1> DEFINE x == [run[w] EXCEPT !.status = "completed"]
  <1>1. run[w] \in Run
    BY RunnerTypes
  <1>2. /\ x \in Run /\ x.status = "completed"
        /\ x.length = run[w].length /\ x.anchored = run[w].anchored
    BY <1>1 DEF Run
  <1>3. Fits(pc[w], job[w], renewal[w], child[w], x)
    BY <1>2, RunnerTypes DEF UserEndsRun, Fits, NoRun
  <1>4. /\ UNCHANGED <<leases, checkpoints, foreign>>
        /\ pc[w] \in Places /\ job[w] \in Job /\ renewal[w] \in Renewals
        /\ child[w] \in Children
        /\ x.anchored <= x.length
        /\ child[w] = "none" <=> x.length = 0
        /\ Standing(pc[w], job[w], owner, foreign, now, checkpoints)
    BY <1>2, RunnerTypes DEF UserEndsRun
  <1>5. /\ pc' = [pc EXCEPT ![w] = pc[w]]
        /\ job' = [job EXCEPT ![w] = job[w]]
        /\ renewal' = [renewal EXCEPT ![w] = renewal[w]]
        /\ child' = [child EXCEPT ![w] = child[w]]
        /\ run' = [run EXCEPT ![w] = x]
    BY Untouched DEF UserEndsRun
  <1> HIDE DEF x
  <1> QED
    BY <1>2, <1>3, <1>4, <1>5, Alone

-----------------------------------------------------------------------------
(* The invariant *)

LEMMA MainStep ==
  ASSUME Inv, NEW w \in Runners, Main(w)
  PROVE  Inv'
  BY ClaimMissionStep, ClaimRefusedStep, AcquireContextStep, CheckMissionStep,
     CompileContextStep, StartRunStep, StartChildStep, AppendCompletedStep,
     CompleteRunStep, StopRenewalStep, WaitRenewalStep, ReadLeaseStep,
     ReleaseMissionStep DEF Main

LEMMA StepInv == Inv /\ [Next]_vars => Inv'
  <1> SUFFICES ASSUME Inv, [Next]_vars
               PROVE  Inv'
    OBVIOUS
  <1>1. CASE ClockTick
    BY <1>1, ClockStep
  <1>2. ASSUME NEW m \in Missions, UserClaims(m) \/ UserCheckpoints(m) \/ Complete(m)
        PROVE  Inv'
    BY <1>2, UserStep
  <1>3. ASSUME NEW w \in Runners, NEW m \in Missions, LoadMission(w, m) \/ AcquireMission(w, m)
        PROVE  Inv'
    BY <1>3, LoadMissionStep, AcquireMissionStep
  <1>4. ASSUME NEW w \in Runners,
               \/ Main(w) \/ RenewalTick(w) \/ Goroutine(w) \/ Child(w)
               \/ UserEndsRun(w) \/ Crash(w)
        PROVE  Inv'
    BY <1>4, MainStep, RenewalStep, ChildStep, UserEndsRunStep, CrashStep
  <1>5. CASE UNCHANGED vars
    <2>1. UNCHANGED <<leases, checkpoints, foreign>> /\ UNCHANGED <<pc, job, renewal, child, run>>
      BY <1>5 DEF vars
    <2>2. Onward
      BY <2>1, LedgerRests
    <2> QED
      BY <2>1, <2>2, Stays
  <1> QED
    BY <1>1, <1>2, <1>3, <1>4, <1>5 DEF Next

LEMMA InvHolds == Spec => []Inv
  <1> QED
    BY InitInv, StepInv, PTL DEF Spec

\* Type correctness of `codex work` (main.go:1085-1308): runner, renewal
\* goroutine, child and run keep their shapes, and an event is stored for the run
\* of every child that was started and of no other.
THEOREM TypeCorrect == Spec => []TypeOK
  <1>1. Inv => TypeOK
    BY DEF Inv, Shape
  <1> QED
    BY <1>1, InvHolds, PTL

\* However its renewal goroutine, its child and others interfere, and whatever
\* fails on the way, a runner that ends holds the mission only if reading or
\* releasing the lease failed, leaves the run of its child open only if completing
\* it failed, and no context file (main.go:1085-1308): each of these calls is
\* tried whatever failed before it.
THEOREM EndsCleanly == Spec => []CleanExit
  <1>1. Inv => CleanExit
    <2> SUFFICES ASSUME Inv, NEW w \in Runners, pc[w] = "done"
                 PROVE  /\ job[w].token # 0 /\ Owns(MissionOf(w), job[w].token)
                              => job[w].failed \cap {"read", "release"} # {}
                        /\ child[w] # "none" /\ run[w].status # "completed"
                              => "complete" \in job[w].failed
                        /\ job[w].seen = None
      BY DEF CleanExit
    <2>1. job[w].token # 0 /\ Owns(MissionOf(w), job[w].token)
             => job[w].failed \cap {"read", "release"} # {}
      BY RunnerTypes DEF Standing, Owns, Live, MissionOf
    <2>2. /\ child[w] # "none" /\ run[w].status # "completed"
                => "complete" \in job[w].failed
          /\ job[w].seen = None
      BY RunnerTypes DEF Fits, Children
    <2> QED
      BY <2>1, <2>2
  <1> QED
    BY <1>1, InvHolds, PTL

\* The context is compiled after the claim, so a child starts from everything its
\* runner's predecessors checkpointed while they owned the mission.
THEOREM ContextIsCurrent == Spec => []ContextCurrent
  <1>1. Inv => ContextCurrent
    BY RunnerTypes DEF ContextCurrent, Fits
  <1> QED
    BY <1>1, InvHolds, PTL

-----------------------------------------------------------------------------
(* Who changes a lease *)

\* A runner, its renewal goroutine or its child calls with the runner's token.
OwnCall(w, m) ==
    /\ m \in Missions /\ m = MissionOf(w)
    /\ job[w].token # 0
    /\ Owns(m, job[w].token)
    /\ \/ Lease!Transfer(m, now, Claimed(m))
       \/ Lease!Extend(m, now, Renewed(m))
       \/ Lease!Drop(m, now, Released(m))

LEMMA LeaseCalls ==
  ASSUME Inv, Next
  PROVE  \/ UNCHANGED leases
         \/ ClockTick
         \/ \E m \in Missions : Lease!Close(m)
         \/ \E m \in Missions : Lease!Grant(m, now, Claimed(m))
         \/ \E w \in Runners : OwnCall(w, MissionOf(w))
  <1>1. ASSUME NEW m \in Missions, UserClaims(m) \/ UserCheckpoints(m) \/ Complete(m)
        PROVE  UNCHANGED leases \/ Lease!Close(m) \/ Lease!Grant(m, now, Claimed(m))
    BY <1>1 DEF UserClaims, UserCheckpoints, Checkpoint, Complete
  <1>2. ASSUME NEW w \in Runners, NEW m \in Missions, LoadMission(w, m) \/ AcquireMission(w, m)
        PROVE  UNCHANGED leases \/ Lease!Grant(m, now, Claimed(m))
    BY <1>2 DEF LoadMission, AcquireMission, Granted
  <1>3. ASSUME NEW w \in Runners, Main(w)
        PROVE  \/ UNCHANGED leases
               \/ \E m \in Missions : Lease!Grant(m, now, Claimed(m))
               \/ OwnCall(w, MissionOf(w))
    <2>1. CASE ClaimMission(w)
      <3>1. MissionOf(w) \in Missions
        BY <2>1, RunnerTypes DEF ClaimMission, Fits, MissionOf
      <3> QED
        BY <2>1, <3>1 DEF ClaimMission, Granted
    <2>2. CASE ReleaseMission(w)
      <3>1. MissionOf(w) \in Missions /\ job[w].token # 0
        BY <2>2, RunnerTypes DEF ReleaseMission, Fits, Working, Places, MissionOf
      <3> QED
        BY <2>2, <3>1 DEF ReleaseMission, OwnCall
    <2>3. CASE \/ ClaimRefused(w) \/ AcquireContext(w) \/ CheckMission(w)
               \/ CompileContext(w) \/ StartRun(w) \/ StartChild(w)
               \/ AppendCompleted(w) \/ CompleteRun(w) \/ StopRenewal(w) \/ WaitRenewal(w) \/ ReadLease(w)
      BY <2>3 DEF ClaimRefused, AcquireContext, CheckMission, CompileContext, StartRun, StartChild,
           AppendCompleted, CompleteRun, StopRenewal, WaitRenewal, ReadLease
    <2> QED
      BY <1>3, <2>1, <2>2, <2>3 DEF Main
  <1>4. ASSUME NEW w \in Runners, RenewalTick(w) \/ Goroutine(w)
        PROVE  UNCHANGED leases \/ OwnCall(w, MissionOf(w))
    <2>1. CASE RenewMission(w)
      <3>1. MissionOf(w) \in Missions /\ job[w].token # 0
        BY <2>1, RunnerTypes DEF RenewMission, Fits, MissionOf
      <3> QED
        BY <2>1, <3>1 DEF RenewMission, OwnCall
    <2> QED
      BY <1>4, <2>1 DEF RenewalTick, Goroutine, RenewalStop, RenewFails, RenewalLook
  <1>5. ASSUME NEW w \in Runners, Child(w)
        PROVE  UNCHANGED leases \/ Lease!Close(MissionOf(w)) \/ OwnCall(w, MissionOf(w))
    <2>1. child[w] = "running" => MissionOf(w) \in Missions /\ job[w].token # 0
      BY RunnerTypes DEF Fits, MissionOf
    <2>2. CASE ChildHandsOff(w) \/ ChildReleases(w)
      BY <2>1, <2>2 DEF ChildHandsOff, ChildReleases, Running, OwnCall
    <2>3. CASE ChildCheckpoints(w) \/ ChildCompletes(w) \/ ChildExits(w)
      BY <2>3 DEF ChildCheckpoints, Checkpoint, ChildCompletes, Complete, ChildExits
    <2> QED
      BY <1>5, <2>2, <2>3 DEF Child
  <1>6. ASSUME NEW w \in Runners, Child(w), Lease!Close(MissionOf(w))
        PROVE  \E m \in Missions : Lease!Close(m)
    <2>1. child[w] = "running"
      BY <1>6 DEF Child, ChildCheckpoints, ChildHandsOff, ChildReleases, ChildCompletes,
             ChildExits, Running
    <2>2. MissionOf(w) \in Missions
      BY <2>1, RunnerTypes DEF Fits, MissionOf
    <2> QED
      BY <1>6, <2>2
  <1>7. ASSUME NEW w \in Runners, UserEndsRun(w) \/ Crash(w)
        PROVE  UNCHANGED leases
    BY <1>7 DEF UserEndsRun, Crash
  <1> QED
    BY <1>1, <1>2, <1>3, <1>4, <1>5, <1>6, <1>7 DEF Next

\* A live lease that a handoff of the child or a claim of a user created is not
\* touched by runners, which go by their token (main.go:1185-1206): a token of
\* theirs is never the token of somebody else's lease.
THEOREM OthersKept == Spec => OthersLeaseKept
  <1>1. ASSUME Inv, Next, NEW m \in Missions, owner[m].token \in foreign[m], Live(m)
        PROVE  owner'[m] = owner[m]
    <2>1. CASE UNCHANGED leases \/ ClockTick \/ \E i \in Missions : Lease!Close(i)
      BY <2>1 DEF leases, ClockTick, Lease!Close
    <2>2. ASSUME NEW i \in Missions, Lease!Grant(i, now, Claimed(i))
          PROVE  owner'[m] = owner[m]
      <3>1. /\ owner[i].until <= now
            /\ owner' = [owner EXCEPT ![i] = Claimed(i)]
        BY <2>2 DEF Lease!Grant, Lease!Change
      <3>2. i # m
        BY <1>1, <3>1, MissionTypes DEF Live
      <3> QED
        BY <3>1, <3>2 DEF Inv, Shape, TypeOK
    <2>3. ASSUME NEW w \in Runners, NEW i \in Missions, OwnCall(w, i)
          PROVE  owner'[m] = owner[m]
      <3>1. PICK term : owner' = [owner EXCEPT ![i] = term]
        BY <2>3 DEF OwnCall, Lease!Transfer, Lease!Extend, Lease!Drop, Lease!Change
      <3>2. owner[i].token = job[w].token /\ job[w].token \notin foreign[i]
        BY <1>1, <2>3, RunnerTypes DEF OwnCall, Standing, Owns, MissionOf
      <3>3. i # m
        BY <1>1, <3>2
      <3> QED
        BY <3>1, <3>3 DEF Inv, Shape, TypeOK
    <2>4. ASSUME NEW w \in Runners, OwnCall(w, MissionOf(w))
          PROVE  owner'[m] = owner[m]
      BY <2>3, <2>4 DEF OwnCall
    <2> QED
      BY <1>1, <2>1, <2>2, <2>4, LeaseCalls
  <1>2. Inv /\ [Next]_vars =>
           [\A m \in Missions : owner[m].token \in foreign[m] /\ Live(m) => owner'[m] = owner[m]]_vars
    BY <1>1
  <1> QED
    BY <1>2, InvHolds, PTL DEF Spec, OthersLeaseKept

\* Runners, their children and users together use the leases exactly as
\* LeaseOwnership promises, which the transactions of lease.go implement
\* (MissionLease): a mission has one owner at a time, and changes hands against
\* its owner's will only when the lease has run out.
THEOREM WorkUsesOwnership == Spec => Lease!Spec
  <1>1. Init => Lease!OInit
    BY DEF Init, Lease!OInit
  <1>2. ASSUME Inv, Next
        PROVE  Lease!ONext \/ UNCHANGED Lease!ovars
    <2>1. CASE UNCHANGED leases
      BY <2>1 DEF leases, Lease!ovars
    <2>2. CASE ClockTick
      BY <1>2, <2>2 DEF ClockTick, Lease!ONext, Lease!Tick, Inv, Shape
    <2>3. CASE \E m \in Missions : Lease!Close(m)
      BY <2>3 DEF Lease!ONext
    <2>4. ASSUME NEW m \in Missions, Lease!Grant(m, now, Claimed(m))
          PROVE  Lease!ONext
      <3>1. owner'[m] = Claimed(m)
        BY <1>2, <2>4 DEF Lease!Grant, Lease!Change, Inv, Shape, TypeOK
      <3>2. Claimed(m) \in Lease!Term /\ Claimed(m).since = now
        BY <1>2, CallTerms
      <3>3. now \in Lease!Instants(m)
        BY <1>2, MissionTypes DEF Lease!Instants
      <3>4. Lease!Changed(m, Claimed(m))
        BY <2>4, <3>2, <3>3 DEF Lease!Changed
      <3> QED
        BY <3>1, <3>4 DEF Lease!ONext
    <2>5. ASSUME NEW w \in Runners, NEW m \in Missions, OwnCall(w, m)
          PROVE  Lease!ONext
      <3>1. owner[m].until > now
        BY <2>5 DEF OwnCall, Owns, Live
      <3>2. owner[m].until > owner[m].since /\ owner[m].since \in Lease!Instants(m)
        BY <1>2, <3>1, MissionTypes DEF Lease!Instants
      <3>3. CASE Lease!Transfer(m, now, Claimed(m))
        <4>1. owner'[m] = Claimed(m)
          BY <1>2, <3>3 DEF Lease!Transfer, Lease!Change, Inv, Shape, TypeOK
        <4>2. Claimed(m) \in Lease!Term /\ Claimed(m).since = now
          BY <1>2, CallTerms
        <4>3. now \in Lease!Instants(m)
          BY <1>2, MissionTypes DEF Lease!Instants
        <4>4. Lease!Changed(m, Claimed(m))
          BY <3>3, <4>2, <4>3 DEF Lease!Changed
        <4> QED
          BY <4>1, <4>4 DEF Lease!ONext
      <3>4. CASE Lease!Extend(m, now, Renewed(m))
        <4>1. owner'[m] = Renewed(m)
          BY <1>2, <3>4 DEF Lease!Extend, Lease!Change, Inv, Shape, TypeOK
        <4>2. Renewed(m) \in Lease!Term /\ Renewed(m).since = owner[m].since
          BY <1>2, CallTerms
        <4>3. Renewed(m).until > owner[m].since
          BY <1>2, CallTerms, MissionTypes, TTLAssumption
        <4>4. Lease!Extend(m, owner[m].since, Renewed(m))
          BY <3>2, <3>4, <4>3 DEF Lease!Extend
        <4>5. Lease!Changed(m, Renewed(m))
          BY <3>2, <4>2, <4>4 DEF Lease!Changed
        <4> QED
          BY <4>1, <4>5 DEF Lease!ONext
      <3>5. CASE Lease!Drop(m, now, Released(m))
        <4>1. owner'[m] = Released(m)
          BY <1>2, <3>5 DEF Lease!Drop, Lease!Change, Inv, Shape, TypeOK
        <4>2. Released(m) \in Lease!Term /\ Released(m).since = owner[m].since
          BY <1>2, CallTerms
        <4>3. Lease!Drop(m, owner[m].since, Released(m))
          BY <3>2, <3>5 DEF Lease!Drop
        <4>4. Lease!Changed(m, Released(m))
          BY <3>2, <4>2, <4>3 DEF Lease!Changed
        <4> QED
          BY <4>1, <4>4 DEF Lease!ONext
      <3> QED
        BY <2>5, <3>3, <3>4, <3>5 DEF OwnCall
    <2>6. ASSUME NEW w \in Runners, OwnCall(w, MissionOf(w))
          PROVE  Lease!ONext
      BY <2>5, <2>6 DEF OwnCall
    <2> QED
      BY <1>2, <2>1, <2>2, <2>3, <2>4, <2>6, LeaseCalls
  <1>3. UNCHANGED vars => UNCHANGED Lease!ovars
    BY DEF vars, leases, Lease!ovars
  <1>4. Inv /\ [Next]_vars => [Lease!ONext]_(Lease!ovars)
    BY <1>2, <1>3
  <1> QED
    BY <1>1, <1>4, InvHolds, PTL DEF Spec, Lease!Spec
=============================================================================
