---------------------------- MODULE AgentIdentity ----------------------------
(***************************************************************************)
(* Local agent identities (internal/identity/profile.go).  A profile is a  *)
(* directory with a private key and a public profile file; the agent's id  *)
(* is the fingerprint of the key.  Ordinary commands call Ensure, so       *)
(* several processes may create one profile at the same time: each writes  *)
(* a temporary file and publishes it with link(2), which never replaces;   *)
(* the key comes first, the profile second.  Rename replaces the profile   *)
(* file with rename(2).  Every access to a file may fail, and every        *)
(* process may be killed, at any time.                                     *)
(*                                                                         *)
(* A process is identified with the key it generates.                      *)
(***************************************************************************)
EXTENDS Integers

CONSTANTS
    Users,              \* processes that use the profiles
    Profiles,           \* profile names
    Names,              \* display names that are accepted
    MaxWaits,           \* times Ensure waits for the profile of an existing key
    None

ASSUME WaitsAssumption == MaxWaits \in Nat \ {0}

VARIABLES
    dirs,               \* profiles that have a directory
    key,                \* identity.key of each profile
    profile,            \* profile.json of each profile
    pc,                 \* where each user is
    call,               \* its call: profile, display name, key, times it may wait
    answer,             \* the identity its last call returned
    abandoned           \* profiles whose creator gave up between key and profile

identityVars == <<dirs, key, profile, pc, call, answer, abandoned>>

ProfileFile == [key : Users, name : Names]
ASSUME IdentityNoneAssumption == None \notin Users \cup ProfileFile
NoCall == [profile |-> None, name |-> None, key |-> None, waits |-> 0]
NoAnswer == [result |-> "none", profile |-> None, id |-> None]

IdentityInit ==
    /\ dirs = {}
    /\ key = [p \in Profiles |-> None]
    /\ profile = [p \in Profiles |-> None]
    /\ pc = [u \in Users |-> "idle"]
    /\ call = [u \in Users |-> NoCall]
    /\ answer = [u \in Users |-> NoAnswer]
    /\ abandoned = {}

Mine(u) == call[u].profile
At(u, label) == pc[u] = label
Go(u, label) == pc' = [pc EXCEPT ![u] = label]

Return(u, result, id) ==
    /\ answer' = [answer EXCEPT ![u] = [result |-> result, profile |-> Mine(u), id |-> id]]
    /\ call' = [call EXCEPT ![u] = NoCall]
    /\ Go(u, "idle")

\* An error: the caller has no identity.
ReturnError(u) == /\ answer' = [answer EXCEPT ![u] = NoAnswer]
                  /\ call' = [call EXCEPT ![u] = NoCall]
                  /\ Go(u, "idle")

Continue(u, label) == Go(u, label) /\ UNCHANGED <<call, answer>>

-----------------------------------------------------------------------------
(* Ensure *)

CallEnsure(u, p, name) ==
    /\ At(u, "idle")
    /\ dirs' = dirs \cup {p}
    /\ call' = [call EXCEPT ![u] = [profile |-> p, name |-> name, key |-> None,
                                    waits |-> MaxWaits]]
    /\ Go(u, "load")
    /\ UNCHANGED <<key, profile, answer, abandoned>>

\* Load.
Load(u) ==
    /\ At(u, "load")
    /\ Continue(u, IF profile[Mine(u)] # None THEN "pair" ELSE "stat")
    /\ UNCHANGED <<dirs, key, profile, abandoned>>

\* An established profile is returned when its key is there and matches.
Pair(u) ==
    /\ At(u, "pair")
    /\ LET p == Mine(u) IN
       IF key[p] = None THEN ReturnError(u)
       ELSE IF profile[p].key = key[p] THEN Return(u, "ok", key[p])
       ELSE Return(u, "mismatch", None)
    /\ UNCHANGED <<dirs, key, profile, abandoned>>

StatKey(u) ==
    /\ At(u, "stat")
    /\ Continue(u, IF key[Mine(u)] # None THEN "wait" ELSE "create")
    /\ UNCHANGED <<dirs, key, profile, abandoned>>

\* A key without a profile: another process may be about to publish the profile.
Wait(u) ==
    /\ At(u, "wait")
    /\ \/ profile[Mine(u)] # None /\ Continue(u, "load")
       \/ /\ profile[Mine(u)] = None /\ call[u].waits > 1
          /\ call' = [call EXCEPT ![u].waits = @ - 1]
          /\ UNCHANGED <<pc, answer>>
       \/ /\ profile[Mine(u)] = None /\ call[u].waits = 1
          /\ ReturnError(u)
    /\ UNCHANGED <<dirs, key, profile, abandoned>>

\* loadOrCreatePrivateKey: a key that is there by now is used.
LoadKey(u) ==
    /\ At(u, "create")
    /\ IF key[Mine(u)] = None THEN Continue(u, "link key")
       ELSE call' = [call EXCEPT ![u].key = key[Mine(u)]] /\ Go(u, "label") /\ UNCHANGED answer
    /\ UNCHANGED <<dirs, key, profile, abandoned>>

\* Defective variant (rename instead of link), to be caught by KeyKept.
ReplaceKey(u) ==
    /\ At(u, "link key")
    /\ key' = [key EXCEPT ![Mine(u)] = u]
    /\ call' = [call EXCEPT ![u].key = u]
    /\ Go(u, "label")
    /\ UNCHANGED <<dirs, profile, answer, abandoned>>

\* Defective variant (the loser keeps the key it generated), to be caught by
\* PairMatches.
LinkKeyOwn(u) ==
    /\ At(u, "link key")
    /\ key' = [key EXCEPT ![Mine(u)] = IF @ = None THEN u ELSE @]
    /\ call' = [call EXCEPT ![u].key = u]
    /\ Go(u, "label")
    /\ UNCHANGED <<dirs, profile, answer, abandoned>>

\* Defective variant (Ensure starts over once the key is there), to be caught by
\* HalfCreated.
LinkKeyAgain(u) ==
    /\ At(u, "link key")
    /\ key' = [key EXCEPT ![Mine(u)] = IF @ = None THEN u ELSE @]
    /\ Continue(u, "load")
    /\ UNCHANGED <<dirs, profile, abandoned>>

\* writeBytesOnce: the first link wins, the loser loads the winner's key.
LinkKey(u) ==
    /\ At(u, "link key")
    /\ key' = [key EXCEPT ![Mine(u)] = IF @ = None THEN u ELSE @]
    /\ call' = [call EXCEPT ![u].key = key'[Mine(u)]]
    /\ Go(u, "label")
    /\ UNCHANGED <<dirs, profile, answer, abandoned>>

\* The labels, valid or not, are validated after the key was published.
ValidateLabels(u) ==
    /\ At(u, "label")
    /\ \/ Continue(u, "link profile") /\ UNCHANGED abandoned
       \/ ReturnError(u) /\ abandoned' = abandoned \cup {Mine(u)}
    /\ UNCHANGED <<dirs, key, profile>>

\* writeJSONOnce: the loser loads the winner's profile and compares the keys.
LinkProfile(u) ==
    /\ At(u, "link profile")
    /\ LET p == Mine(u)
           mine == [key |-> call[u].key, name |-> call[u].name]
       IN  /\ profile' = [profile EXCEPT ![p] = IF @ = None THEN mine ELSE @]
           /\ IF profile'[p].key = call[u].key THEN Return(u, "ok", call[u].key)
                                               ELSE Return(u, "mismatch", None)
    /\ UNCHANGED <<dirs, key, abandoned>>

-----------------------------------------------------------------------------
(* Rename *)

CallRename(u, p, name) ==
    /\ At(u, "idle")
    /\ profile[p] # None /\ key[p] = profile[p].key
    /\ call' = [call EXCEPT ![u] = [profile |-> p, name |-> name, key |-> profile[p].key,
                                    waits |-> 0]]
    /\ Go(u, "replace")
    /\ UNCHANGED <<dirs, key, profile, answer, abandoned>>

\* Defective variant (the profile written anew, without its key), to be caught by
\* TypeOK.
RewriteProfile(u) ==
    /\ At(u, "replace")
    /\ profile' = [profile EXCEPT ![Mine(u)] = [key |-> None, name |-> call[u].name]]
    /\ Return(u, "ok", call[u].key)
    /\ UNCHANGED <<dirs, key, abandoned>>

ReplaceProfile(u) ==
    /\ At(u, "replace")
    /\ profile' = [profile EXCEPT ![Mine(u)] = [key |-> call[u].key, name |-> call[u].name]]
    /\ Return(u, "ok", call[u].key)
    /\ UNCHANGED <<dirs, key, abandoned>>

-----------------------------------------------------------------------------

\* The call fails: a file cannot be read, written, synced or linked, or the process
\* is killed, wherever it is.  What it has published stays.
CallFails(u) ==
    /\ ~At(u, "idle")
    /\ abandoned' = IF pc[u] \in {"label", "link profile"} THEN abandoned \cup {Mine(u)}
                    ELSE abandoned
    /\ ReturnError(u)
    /\ UNCHANGED <<dirs, key, profile>>

EnsureStep(u) == \/ Load(u) \/ Pair(u) \/ StatKey(u) \/ Wait(u) \/ LoadKey(u)
                 \/ LinkKey(u) \/ ValidateLabels(u) \/ LinkProfile(u) \/ ReplaceProfile(u)

IdentityNext ==
    \E u \in Users : \/ \E p \in Profiles, n \in Names : CallEnsure(u, p, n) \/ CallRename(u, p, n)
                     \/ EnsureStep(u) \/ CallFails(u)

-----------------------------------------------------------------------------
(* Properties *)

IdentityTypeOK ==
    /\ dirs \subseteq Profiles /\ abandoned \subseteq Profiles
    /\ key \in [Profiles -> Users \cup {None}]
    /\ profile \in [Profiles -> ProfileFile \cup {None}]
    /\ pc \in [Users -> {"idle", "load", "pair", "stat", "wait", "create", "link key", "label",
                         "link profile", "replace"}]
    /\ call \in [Users -> [profile : Profiles \cup {None}, name : Names \cup {None},
                           key : Users \cup {None}, waits : 0..MaxWaits]]
    /\ answer \in [Users -> [result : {"none", "ok", "mismatch"},
                             profile : Profiles \cup {None}, id : Users \cup {None}]]

\* Whoever creates, loses the race, waits, renames or dies: the two files of a
\* profile belong together, and every process that was given an identity was
\* given that one.  So no process ever sees a mismatch.
PairMatches ==
    /\ \A p \in Profiles : profile[p] # None => profile[p].key = key[p]
    /\ \A u \in Users : /\ answer[u].result # "mismatch"
                        /\ answer[u].result = "ok" => key[answer[u].profile] = answer[u].id

\* A key without its profile, which every later call reports as incomplete and
\* nothing repairs, is left only where a creator was killed between the two, its
\* labels were refused or its write of the profile failed: as long as somebody is
\* about to publish the profile, the state is passing, and neither a lost race nor
\* any other error leaves it.
HalfCreated ==
    \A p \in Profiles :
        key[p] # None /\ profile[p] = None =>
            \/ p \in abandoned
            \/ \E u \in Users : Mine(u) = p /\ pc[u] \in {"label", "link profile"}

\* An identity, once there, is never replaced: not by a second creator, not by a
\* rename.
KeyKept ==
    [][\A p \in Profiles : /\ key[p] # None => key'[p] = key[p]
                           /\ profile[p] # None => /\ profile'[p] # None
                                                   /\ profile'[p].key = profile[p].key
      ]_identityVars
=============================================================================
