--------------------------- MODULE InstanceBackup ---------------------------
(***************************************************************************)
(* Backup and restore of an instance (internal/backup) while agents create *)
(* their identities and write to the ledger.  Create takes a snapshot of   *)
(* the ledger (VACUUM INTO), then verifies and copies one profile after    *)
(* the other, verifies the staged directory and renames it to a            *)
(* destination that must not exist; Restore copies a published backup the  *)
(* same way.  The agents are those of AgentIdentity.                       *)
(***************************************************************************)
EXTENDS AgentIdentity

CONSTANTS
    Publishers,         \* processes that run `backup` or `restore`, once each
    Backups,            \* paths of backups
    Instances,          \* paths of restored instances
    Strangers           \* agents whose keys are not in this agent home

ASSUME PathsAssumption == Backups \cap Instances = {} /\ None \notin Backups \cup Instances

VARIABLES
    ledger,             \* the agent ids that the ledger attributes records to
    place,              \* what is at each path
    stage,              \* the staged directory of each publisher
    where,              \* where each publisher is
    todo                \* the directories it has still to copy

backupVars == <<ledger, place, stage, where, todo>>
vars == <<identityVars, backupVars>>

Paths == Backups \cup Instances
Attribution == [profile : Profiles, id : Users]
\* db: the ledger; profiles, keys: the files under agents/.
Contents == [db : SUBSET (Attribution \cup Strangers),
             profiles : [Profiles -> ProfileFile \cup {None}],
             keys : [Profiles -> Users \cup {None}]]
ASSUME StrangersAssumption == Strangers \cap Attribution = {}
ASSUME ContentsAssumption == None \notin Contents
NothingStaged == [path |-> None, copying |-> None, content |-> None]
EmptyStage == [db |-> {}, profiles |-> [p \in Profiles |-> None],
               keys |-> [p \in Profiles |-> None]]

Init == /\ IdentityInit
        /\ ledger = {}
        /\ place = [d \in Paths |-> None]
        /\ stage = [b \in Publishers |-> NothingStaged]
        /\ where = [b \in Publishers |-> "idle"]
        /\ todo = [b \in Publishers |-> {}]

\* An agent records something under the identity it was given.
Attribute(u) ==
    /\ At(u, "idle") /\ answer[u].result = "ok"
    /\ ledger' = ledger \cup {[profile |-> answer[u].profile, id |-> answer[u].id]}
    /\ UNCHANGED <<identityVars, place, stage, where, todo>>

\* Other writers: an import brings the identities of another host without their
\* keys, the HTTP API stores the one it is told, and a command with another
\* CHAINPROOF_AGENT_HOME has its own; some name an identity of this home.
AttributeElsewhere(id) ==
    /\ \/ id \in Strangers
       \/ \E p \in Profiles : profile[p] # None /\ id = [profile |-> p, id |-> key[p]]
    /\ ledger' = ledger \cup {id}
    /\ UNCHANGED <<identityVars, place, stage, where, todo>>

-----------------------------------------------------------------------------
(* Create *)

Reach(b, label) == where' = [where EXCEPT ![b] = label]
Stage(b, content) == stage' = [stage EXCEPT ![b].content = content]
Staged(b) == stage[b].content
Copying(b) == stage[b].copying

\* The staged files of p belong together (identity.Verify on the copy).
PairStaged(content, p) == /\ content.profiles[p] # None
                          /\ content.keys[p] = content.profiles[p].key

\* prepareDestination refuses a path that exists; then the staging directory.
Create(b, d) ==
    /\ where[b] = "idle" /\ place[d] = None
    /\ stage' = [stage EXCEPT ![b] = [path |-> d, copying |-> None, content |-> EmptyStage]]
    /\ Reach(b, "ledger")
    /\ UNCHANGED <<identityVars, ledger, place, todo>>

BackupLedger(b) ==
    /\ where[b] = "ledger"
    /\ Stage(b, [Staged(b) EXCEPT !.db = ledger])
    /\ Reach(b, "list")
    /\ UNCHANGED <<identityVars, ledger, place, todo>>

ReadAgentHome(b) ==
    /\ where[b] = "list"
    /\ todo' = [todo EXCEPT ![b] = dirs]
    /\ Reach(b, "profiles")
    /\ UNCHANGED <<identityVars, ledger, place, stage>>

\* The next profile: both files are there and match.
VerifyProfile(b, p) ==
    /\ where[b] = "profiles" /\ p \in todo[b]
    /\ profile[p] # None /\ key[p] = profile[p].key
    /\ stage' = [stage EXCEPT ![b].copying = p]
    /\ Reach(b, "profile file")
    /\ UNCHANGED <<identityVars, ledger, place, todo>>

CopyProfileFile(b) ==
    /\ where[b] = "profile file"
    /\ Stage(b, [Staged(b) EXCEPT !.profiles[Copying(b)] = profile[Copying(b)]])
    /\ Reach(b, "key file")
    /\ UNCHANGED <<identityVars, ledger, place, todo>>

CopyKeyFile(b) ==
    /\ where[b] = "key file"
    /\ Stage(b, [Staged(b) EXCEPT !.keys[Copying(b)] = key[Copying(b)]])
    /\ Reach(b, "copied")
    /\ UNCHANGED <<identityVars, ledger, place, todo>>

VerifyCopy(b) ==
    /\ where[b] = "copied" /\ PairStaged(Staged(b), Copying(b))
    /\ todo' = [todo EXCEPT ![b] = @ \ {Copying(b)}]
    /\ stage' = [stage EXCEPT ![b].copying = None]
    /\ Reach(b, "profiles")
    /\ UNCHANGED <<identityVars, ledger, place>>

\* Defective variant (the ledger copied once more, last), to be caught by
\* BackupComplete.
FinishStageLate(b) ==
    /\ where[b] = "profiles" /\ todo[b] = {}
    /\ Stage(b, [Staged(b) EXCEPT !.db = ledger])
    /\ Reach(b, "verify")
    /\ UNCHANGED <<identityVars, ledger, place, todo>>

\* collectFiles and writeManifest: the hashes of the staged files.
FinishStage(b) ==
    /\ where[b] = "profiles" /\ todo[b] = {}
    /\ Reach(b, "verify")
    /\ UNCHANGED <<identityVars, ledger, place, stage, todo>>

-----------------------------------------------------------------------------
(* Restore, and what both have in common *)

\* Every file of the manifest is there and every profile has its key.
Verifies(content) ==
    \A p \in Profiles : content.profiles[p] # None \/ content.keys[p] # None
                           => PairStaged(content, p)

\* A published directory does not change, so copying its files is one step.
Restore(b, from, d) ==
    /\ where[b] = "idle"
    /\ place[from] # None /\ Verifies(place[from])
    /\ place[d] = None
    /\ stage' = [stage EXCEPT ![b] = [path |-> d, copying |-> None, content |-> place[from]]]
    /\ Reach(b, "verify")
    /\ UNCHANGED <<identityVars, ledger, place, todo>>

VerifyStage(b) == /\ where[b] = "verify" /\ Verifies(Staged(b))
                  /\ Reach(b, "lstat")
                  /\ UNCHANGED <<identityVars, ledger, place, stage, todo>>

Lstat(b) == /\ where[b] = "lstat" /\ place[stage[b].path] = None
            /\ Reach(b, "rename")
            /\ UNCHANGED <<identityVars, ledger, place, stage, todo>>

Leave(b) == /\ Reach(b, "done")
            /\ stage' = [stage EXCEPT ![b] = NothingStaged]
            /\ todo' = [todo EXCEPT ![b] = {}]

\* Defective variant (what is there is removed first), to be caught by
\* PublishedKept.
RenameOver(b) ==
    /\ where[b] = "rename"
    /\ place' = [place EXCEPT ![stage[b].path] = Staged(b)]
    /\ Leave(b)
    /\ UNCHANGED <<identityVars, ledger>>

\* rename(2) of a directory fails over one that is not empty.
Rename(b) ==
    /\ where[b] = "rename"
    /\ place' = [place EXCEPT ![stage[b].path] = IF @ = None THEN Staged(b) ELSE @]
    /\ Leave(b)
    /\ UNCHANGED <<identityVars, ledger>>

\* A check refuses or the process dies; what it staged is removed or left behind,
\* under a name of its own.
PublisherFails(b) == /\ where[b] \notin {"idle", "done"}
                     /\ Leave(b)
                     /\ UNCHANGED <<identityVars, ledger, place>>

Publisher(b) ==
    \/ \E d \in Backups : Create(b, d)
    \/ BackupLedger(b) \/ ReadAgentHome(b)
    \/ \E p \in Profiles : VerifyProfile(b, p)
    \/ CopyProfileFile(b) \/ CopyKeyFile(b) \/ VerifyCopy(b) \/ FinishStage(b)
    \/ \E from \in Backups, d \in Instances : Restore(b, from, d)
    \/ VerifyStage(b) \/ Lstat(b) \/ Rename(b) \/ PublisherFails(b)

Next == \/ IdentityNext /\ UNCHANGED backupVars
        \/ \E u \in Users : Attribute(u)
        \/ \E id \in Strangers \cup Attribution : AttributeElsewhere(id)
        \/ \E b \in Publishers : Publisher(b)

Spec == Init /\ [][Next]_vars

-----------------------------------------------------------------------------
(* Properties *)

TypeOK ==
    /\ IdentityTypeOK
    /\ ledger \subseteq Attribution \cup Strangers
    /\ place \in [Paths -> Contents \cup {None}]
    /\ \A b \in Publishers : /\ stage[b].path \in Paths \cup {None}
                             /\ stage[b].copying \in Profiles \cup {None}
                             /\ stage[b].content \in Contents \cup {None}
                             /\ todo[b] \subseteq Profiles
    /\ where \in [Publishers -> {"idle", "ledger", "list", "profiles", "profile file",
                                 "key file", "copied", "verify", "lstat", "rename", "done"}]

\* A published backup, and an instance restored from it, is complete although
\* agents were creating and renaming profiles and writing to the ledger
\* meanwhile: every agent of this home that its ledger names can go on from it,
\* for the identity with its key is there, and every identity in it is the one the
\* live instance has.  The keys of strangers are nowhere in the instance.
BackupComplete ==
    \A d \in Paths : place[d] # None =>
        /\ \A a \in place[d].db \ Strangers : /\ place[d].keys[a.profile] = a.id
                                              /\ place[d].profiles[a.profile] # None
        /\ \A p \in Profiles : place[d].keys[p] # None =>
               /\ place[d].keys[p] = key[p]
               /\ PairStaged(place[d], p)

\* Whatever is at a path stays as it is: of two publishers that found the same
\* path free, the second to rename leaves the first one's directory alone.
PublishedKept == [][\A d \in Paths : place[d] # None => place'[d] = place[d]]_vars
=============================================================================
