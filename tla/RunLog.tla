------------------------------- MODULE RunLog -------------------------------
(***************************************************************************)
(* What the run ledger promises its callers, with no processes,            *)
(* transactions or retries: every run is one log of distinct events that   *)
(* only ever grows at its end, one event at a time; that never grows again *)
(* once the run reached a terminal status; and that does not grow while    *)
(* all the missions the run belongs to are completed.                      *)
(***************************************************************************)
EXTENDS Sequences

CONSTANTS Runs, EventIds, Missions

VARIABLES
    log,        \* log[r] is the sequence of event identifiers of run r
    state,      \* state[r] is "absent", "open" or, for good, "sealed"
    member,     \* member[r] is the set of missions r belongs to
    done        \* the completed missions

vars == <<log, state, member, done>>

RangeOf(s) == {s[i] : i \in DOMAIN s}

Logged == UNION {RangeOf(log[r]) : r \in Runs}

\* Nothing of r is left to do.
Finished(r) == member[r] # {} /\ member[r] \subseteq done

Init == /\ log = [r \in Runs |-> <<>>]
        /\ state = [r \in Runs |-> "absent"]
        /\ member = [r \in Runs |-> {}]
        /\ done = {}

Create(r, ms) == /\ state[r] = "absent"
                 /\ state' = [state EXCEPT ![r] = "open"]
                 /\ member' = [member EXCEPT ![r] = ms]
                 /\ UNCHANGED <<log, done>>

Extend(r, id) == /\ state[r] = "open"
                 /\ ~Finished(r)
                 /\ id \notin Logged
                 /\ log' = [log EXCEPT ![r] = Append(@, id)]
                 /\ UNCHANGED <<state, member, done>>

Seal(r) == /\ state[r] = "open"
           /\ state' = [state EXCEPT ![r] = "sealed"]
           /\ UNCHANGED <<log, member, done>>

\* A checkpoint or the collector gives r other missions; a finished run can be
\* opened again by one that is not done, and in no other way.
Join(r, ms) == /\ state[r] # "absent"
               /\ member' = [member EXCEPT ![r] = ms]
               /\ UNCHANGED <<log, state, done>>

Finish(m) == /\ m \notin done
             /\ done' = done \cup {m}
             /\ UNCHANGED <<log, state, member>>

Next == \/ \E r \in Runs, ms \in SUBSET Missions : Create(r, ms) \/ Join(r, ms)
        \/ \E r \in Runs, id \in EventIds : Extend(r, id)
        \/ \E r \in Runs : Seal(r)
        \/ \E m \in Missions : Finish(m)

Spec == Init /\ [][Next]_vars

-----------------------------------------------------------------------------
(* What a user of the ledger may conclude *)

\* An event identifier names one event: it occurs in one log, at one place.
EachOnce ==
    \A r, s \in Runs : \A i \in DOMAIN log[r], j \in DOMAIN log[s] :
        log[r][i] = log[s][j] => r = s /\ i = j

\* The log of a run with a terminal status never changes and is never opened
\* again.  The log of a run whose missions are all completed does not change
\* either, and it stays so until the run is given another mission.
SealedFinal ==
    [][\A r \in Runs :
          /\ state[r] = "sealed" => log'[r] = log[r] /\ state'[r] = "sealed"
          /\ Finished(r) => /\ log'[r] = log[r]
                            /\ member'[r] = member[r] => Finished(r)']_vars
=============================================================================
