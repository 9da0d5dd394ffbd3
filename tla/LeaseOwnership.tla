--------------------------- MODULE LeaseOwnership ---------------------------
(***************************************************************************)
(* What mission leases promise: one owner per mission, in one order.       *)
(*                                                                         *)
(* Every change of ownership takes effect at some instant between the      *)
(* previous change and the present, although its caller may hear of it     *)
(* later.  A mission changes hands without its owner's consent only at an  *)
(* instant at which the owner's lease is over, and only while the mission  *)
(* is not completed.                                                       *)
(***************************************************************************)
EXTENDS Integers

CONSTANT Missions

VARIABLES
    now,                \* the clock
    closed,             \* completed missions
    owner               \* per mission: the current term of ownership

ovars == <<now, closed, owner>>

\* token grows with every new owner; the lease is over from instant until on,
\* and until = 0 says that it was given back.
Term == [token : Nat, since : Nat, until : Nat]

OInit == /\ now \in Nat
         /\ closed = {}
         /\ owner = [m \in Missions |-> [token |-> 0, since |-> 0, until |-> 0]]

\* Instants at which the next change of m may take effect.
Instants(m) == owner[m].since..now

Change(m, term) == /\ owner' = [owner EXCEPT ![m] = term]
                   /\ UNCHANGED <<now, closed>>

Grant(m, t, term) ==
    /\ m \notin closed
    /\ owner[m].until <= t
    /\ term.token > owner[m].token
    /\ Change(m, term)

Transfer(m, t, term) ==
    /\ owner[m].until > t
    /\ term.token > owner[m].token
    /\ Change(m, term)

\* A renewal may also shorten the lease.
Extend(m, t, term) ==
    /\ owner[m].until > t
    /\ term.token = owner[m].token
    /\ term.until > t
    /\ Change(m, term)

Drop(m, t, term) ==
    /\ owner[m].until > t
    /\ term.token = owner[m].token
    /\ term.until = 0
    /\ Change(m, term)

Close(m) == /\ closed' = closed \cup {m}
            /\ UNCHANGED <<now, owner>>

Tick == /\ now' \in Nat
        /\ now' > now
        /\ UNCHANGED <<closed, owner>>

\* The last row of m's lease history became term, at instant term.since.
Changed(m, term) == /\ term \in Term
                    /\ term.since \in Instants(m)
                    /\ \/ Grant(m, term.since, term)
                       \/ Transfer(m, term.since, term)
                       \/ Extend(m, term.since, term)
                       \/ Drop(m, term.since, term)

ONext == \/ \E m \in Missions : Changed(m, owner'[m]) \/ Close(m)
         \/ Tick

Spec == OInit /\ [][ONext]_ovars

-----------------------------------------------------------------------------
(* What a worker may conclude *)

\* Terms are fenced: a token that was replaced never comes back, a term that is
\* over is never prolonged, and a mission changes hands only after the term
\* before is over or, by its owner, during it; once it is completed the owner
\* alone can pass it on.
Fenced ==
    [][\A m \in Missions : owner'[m] # owner[m] =>
          LET old == owner[m]
              new == owner'[m]
          IN  /\ old.token <= new.token
              /\ old.since <= new.since
              /\ new.token = old.token \/ m \in closed => new.since < old.until]_ovars
=============================================================================
