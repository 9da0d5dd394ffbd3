------------------------ MODULE InstanceBackup_proofs ------------------------
(***************************************************************************)
(* Proofs about AgentIdentity and InstanceBackup for any set of agents,    *)
(* profiles, publishers and paths, any number of waits, failures and       *)
(* kills, and whoever else writes to the ledger.                           *)
(***************************************************************************)
EXTENDS InstanceBackup, TLAPS

-----------------------------------------------------------------------------
(* Identities *)

\* Files are in directories, and a profile has its key.
FilesPaired == \A p \in Profiles : /\ key[p] # None => p \in dirs
                                   /\ profile[p] # None => p \in dirs /\ profile[p].key = key[p]

\* What no step of an agent undoes: directories, keys and profiles stay.
Kept == /\ dirs \subseteq dirs'
        /\ \A p \in Profiles : /\ key[p] # None => key'[p] = key[p]
                               /\ profile[p] # None => /\ profile'[p] # None
                                                       /\ profile'[p].key = profile[p].key

Labels == {"idle", "load", "pair", "stat", "wait", "create", "link key", "label",
           "link profile", "replace"}
Call == [profile : Profiles \cup {None}, name : Names \cup {None},
         key : Users \cup {None}, waits : 0..MaxWaits]
Answer == [result : {"none", "ok", "mismatch"},
           profile : Profiles \cup {None}, id : Users \cup {None}]

\* What the files alone must be like.
Files == /\ dirs \subseteq Profiles /\ abandoned \subseteq Profiles
         /\ key \in [Profiles -> Users \cup {None}]
         /\ profile \in [Profiles -> ProfileFile \cup {None}]
         /\ FilesPaired

\* What the files must be like, here directories d, keys k and profiles f, for a
\* process at label l with the call c and the answer a.
Fits(l, c, a, d, k, f) ==
    /\ l # "idle" => c.profile \in d
    /\ l \in {"label", "link profile", "replace"} => c.key \in Users /\ c.key = k[c.profile]
    /\ l # "idle" => c.name \in Names
    /\ l \in {"pair", "replace"} => f[c.profile] # None
    /\ a.result # "mismatch"
    /\ a.result = "ok" => /\ a.profile \in d
                          /\ a.id \in Users
                          /\ k[a.profile] = a.id
                          /\ f[a.profile] # None

\* Somebody, or nobody any more, is about to publish the profile of p.
Expected(p) == \/ p \in abandoned
               \/ \E u \in Users : Mine(u) = p /\ pc[u] \in {"label", "link profile"}

IdentityInv ==
    /\ Files
    /\ pc \in [Users -> Labels] /\ call \in [Users -> Call] /\ answer \in [Users -> Answer]
    /\ \A u \in Users : Fits(pc[u], call[u], answer[u], dirs, key, profile)
    /\ \A p \in Profiles : key[p] # None /\ profile[p] = None => Expected(p)

LEMMA IdentityImplies ==
  ASSUME IdentityInv
  PROVE  IdentityTypeOK /\ PairMatches /\ HalfCreated
<1>1. IdentityTypeOK
  BY Zenon DEF IdentityInv, IdentityTypeOK, Files, Labels, Call, Answer
<1>2. PairMatches
  BY DEF IdentityInv, Files, FilesPaired, Fits, PairMatches
<1>3. HalfCreated
  BY DEF IdentityInv, HalfCreated, Expected
<1> QED BY <1>1, <1>2, <1>3

LEMMA CallType ==
  ASSUME NEW p \in Profiles \cup {None}, NEW n \in Names \cup {None},
         NEW k \in Users \cup {None}, NEW w \in 0..MaxWaits
  PROVE  [profile |-> p, name |-> n, key |-> k, waits |-> w] \in Call
  BY DEF Call

LEMMA AnswerType ==
  ASSUME NEW r \in {"none", "ok", "mismatch"},
         NEW p \in Profiles \cup {None}, NEW id \in Users \cup {None}
  PROVE  [result |-> r, profile |-> p, id |-> id] \in Answer
  BY DEF Answer

LEMMA NothingType == NoCall \in Call /\ NoAnswer \in Answer /\ "idle" \in Labels
  BY WaitsAssumption DEF NoCall, NoAnswer, Call, Answer, Labels

LEMMA IdentityStart == IdentityInit => IdentityInv
<1> SUFFICES ASSUME IdentityInit PROVE IdentityInv
  OBVIOUS
<1>1. Files
  BY DEF IdentityInit, Files, FilesPaired
<1>2. pc \in [Users -> Labels] /\ call \in [Users -> Call] /\ answer \in [Users -> Answer]
  BY NothingType DEF IdentityInit
<1>3. \A u \in Users : Fits(pc[u], call[u], answer[u], dirs, key, profile)
  BY DEF IdentityInit, Fits, NoAnswer
<1> QED BY <1>1, <1>2, <1>3 DEF IdentityInv, IdentityInit

\* One process moves and the files keep what they had.
LEMMA Moves ==
  ASSUME IdentityInv, NEW u \in Users, NEW l \in Labels, NEW c \in Call, NEW a \in Answer,
         pc' = [pc EXCEPT ![u] = l],
         call' = [call EXCEPT ![u] = c],
         answer' = [answer EXCEPT ![u] = a],
         Files', Kept, abandoned \subseteq abandoned',
         Fits(l, c, a, dirs', key', profile'),
         \A p \in Profiles : key'[p] # None /\ profile'[p] = None =>
            \/ p \in abandoned'
            \/ c.profile = p /\ l \in {"label", "link profile"}
            \/ /\ key[p] # None
               /\ ~ (pc[u] \in {"label", "link profile"} /\ Mine(u) = p)
  PROVE  IdentityInv'
<1>1. /\ Files
      /\ pc \in [Users -> Labels] /\ call \in [Users -> Call] /\ answer \in [Users -> Answer]
      /\ \A v \in Users : Fits(pc[v], call[v], answer[v], dirs, key, profile)
      /\ \A p \in Profiles : key[p] # None /\ profile[p] = None => Expected(p)
  BY DEF IdentityInv
<1>2. pc' \in [Users -> Labels] /\ call' \in [Users -> Call] /\ answer' \in [Users -> Answer]
  BY <1>1
<1>3. ASSUME NEW v \in Users
      PROVE  Fits(pc'[v], call'[v], answer'[v], dirs', key', profile')
  <2>1. CASE v = u
    BY <2>1, <1>1
  <2>2. CASE v # u
    <3>1. pc'[v] = pc[v] /\ call'[v] = call[v] /\ answer'[v] = answer[v]
      BY <2>2, <1>1
    <3>2. Fits(pc[v], call[v], answer[v], dirs, key, profile) /\ call[v].profile \in Profiles \cup {None}
      BY <1>1 DEF Call
    <3>3. \A p \in dirs : /\ p \in dirs' /\ p \in Profiles
                          /\ key[p] # None => key'[p] = key[p]
                          /\ profile[p] # None => profile'[p] # None
      BY <1>1 DEF Files, Kept
    <3>4. pc[v] \in {"label", "link profile", "replace"} => pc[v] # "idle"
      OBVIOUS
    <3> QED
      BY <3>1, <3>2, <3>3, <3>4, IdentityNoneAssumption DEF Fits
  <2> QED BY <2>1, <2>2
<1>4. ASSUME NEW p \in Profiles, key'[p] # None, profile'[p] = None
      PROVE  Expected(p)'
  <2>1. CASE p \in abandoned'
    BY <2>1 DEF Expected
  <2>2. CASE c.profile = p /\ l \in {"label", "link profile"}
    <3>1. call'[u] = c /\ pc'[u] = l
      BY <1>1
    <3> QED BY <3>1, <2>2 DEF Expected, Mine
  <2>3. CASE key[p] # None /\ ~ (pc[u] \in {"label", "link profile"} /\ Mine(u) = p)
    <3>1. profile[p] = None
      BY <1>4 DEF Kept
    <3>2. Expected(p)
      BY <3>1, <2>3, <1>1
    <3>3. CASE p \in abandoned
      BY <3>3 DEF Expected
    <3>4. CASE \E v \in Users : Mine(v) = p /\ pc[v] \in {"label", "link profile"}
      <4>1. PICK v \in Users : Mine(v) = p /\ pc[v] \in {"label", "link profile"}
        BY <3>4
      <4>2. v # u
        BY <4>1, <2>3
      <4>3. call'[v] = call[v] /\ pc'[v] = pc[v]
        BY <4>2, <1>1
      <4> QED BY <4>1, <4>3 DEF Expected, Mine
    <3> QED BY <3>2, <3>3, <3>4 DEF Expected
  <2> QED BY <2>1, <2>2, <2>3, <1>4
<1> QED BY <1>2, <1>3, <1>4 DEF IdentityInv

LEMMA IdentityStep ==
  ASSUME IdentityInv, IdentityNext
  PROVE  IdentityInv' /\ Kept
<1>1. PICK u \in Users : \/ \E p \in Profiles, n \in Names : CallEnsure(u, p, n) \/ CallRename(u, p, n)
                         \/ EnsureStep(u) \/ CallFails(u)
  BY DEF IdentityNext
<1>2. /\ Files
      /\ pc \in [Users -> Labels] /\ call \in [Users -> Call] /\ answer \in [Users -> Answer]
      /\ Fits(pc[u], call[u], answer[u], dirs, key, profile)
  BY DEF IdentityInv
<1>3. /\ pc[u] \in Labels /\ call[u] \in Call /\ answer[u] \in Answer
      /\ pc = [pc EXCEPT ![u] = pc[u]]
      /\ call = [call EXCEPT ![u] = call[u]]
      /\ answer = [answer EXCEPT ![u] = answer[u]]
  BY <1>2
\* Most steps leave the files alone.
<1>4. ASSUME dirs' = dirs, key' = key, profile' = profile, abandoned' = abandoned,
             NEW l \in Labels, NEW c \in Call, NEW a \in Answer,
             pc' = [pc EXCEPT ![u] = l], call' = [call EXCEPT ![u] = c],
             answer' = [answer EXCEPT ![u] = a],
             Fits(l, c, a, dirs, key, profile),
             pc[u] \in {"label", "link profile"} =>
                 l \in {"label", "link profile"} /\ c.profile = Mine(u)
      PROVE  IdentityInv' /\ Kept
  <2>1. Files' /\ Kept /\ abandoned \subseteq abandoned' /\ Fits(l, c, a, dirs', key', profile')
    BY <1>2, <1>4 DEF Files, FilesPaired, Kept, Fits
  <2>2. \A p \in Profiles : key'[p] # None /\ profile'[p] = None =>
            \/ p \in abandoned'
            \/ c.profile = p /\ l \in {"label", "link profile"}
            \/ /\ key[p] # None
               /\ ~ (pc[u] \in {"label", "link profile"} /\ Mine(u) = p)
    BY <1>4
  <2> QED BY <2>1, <2>2, <1>4, Moves
\* A call that ends with an error abandons a profile that it was about to publish.
<1>5. ASSUME ReturnError(u), pc[u] # "idle", dirs' = dirs, key' = key, profile' = profile,
              abandoned' = IF pc[u] \in {"label", "link profile"} THEN abandoned \cup {Mine(u)}
                           ELSE abandoned
       PROVE  IdentityInv' /\ Kept
  <2>1. Mine(u) \in Profiles
    BY <1>2, <1>5 DEF Files, Fits, Mine
  <2>2. Files' /\ Kept /\ abandoned \subseteq abandoned'
    BY <2>1, <1>5, <1>2 DEF Files, FilesPaired, Kept
  <2>3. Fits("idle", NoCall, NoAnswer, dirs', key', profile')
    BY DEF Fits, NoAnswer
  <2>4. \A q \in Profiles : key'[q] # None /\ profile'[q] = None =>
            q \in abandoned' \/ (key[q] # None /\ ~ (pc[u] \in {"label", "link profile"} /\ Mine(u) = q))
    BY <1>5
  <2>5. /\ pc' = [pc EXCEPT ![u] = "idle"] /\ call' = [call EXCEPT ![u] = NoCall]
        /\ answer' = [answer EXCEPT ![u] = NoAnswer]
    BY <1>5 DEF ReturnError, Go
  <2> QED BY <2>2, <2>3, <2>4, <2>5, NothingType, Moves
<1>6. CASE \E p \in Profiles, n \in Names : CallEnsure(u, p, n)
  <2>1. PICK p \in Profiles, n \in Names : CallEnsure(u, p, n)
    BY <1>6
  <2> DEFINE c == [profile |-> p, name |-> n, key |-> None, waits |-> MaxWaits]
  <2>2. c \in Call /\ "load" \in Labels
    BY WaitsAssumption DEF Call, Labels
  <2>3. /\ pc[u] = "idle" /\ pc' = [pc EXCEPT ![u] = "load"] /\ call' = [call EXCEPT ![u] = c]
        /\ answer' = [answer EXCEPT ![u] = answer[u]]
        /\ dirs' = dirs \cup {p} /\ key' = key /\ profile' = profile
        /\ abandoned' = abandoned
    BY <2>1, <1>3 DEF CallEnsure, At, Go
  <2>4. Files' /\ Kept /\ Fits("load", c, answer[u], dirs', key', profile')
    BY <2>3, <1>2 DEF Files, FilesPaired, Kept, Fits
  <2> HIDE DEF c
  <2>5. \A q \in Profiles : key'[q] # None /\ profile'[q] = None =>
            key[q] # None /\ ~ (pc[u] \in {"label", "link profile"} /\ Mine(u) = q)
    BY <2>3
  <2>6. abandoned \subseteq abandoned'
    BY <2>3
  <2> QED BY <2>2, <2>3, <2>4, <2>5, <2>6, <1>3, Moves
<1>7. CASE \E p \in Profiles, n \in Names : CallRename(u, p, n)
  <2>1. PICK p \in Profiles, n \in Names : CallRename(u, p, n)
    BY <1>7
  <2> DEFINE c == [profile |-> p, name |-> n, key |-> profile[p].key, waits |-> 0]
  <2>2. /\ "replace" \in Labels /\ p \in dirs /\ profile[p] # None
        /\ profile[p].key \in Users /\ profile[p].key = key[p]
    BY <2>1, <1>2 DEF CallRename, Labels, Files, FilesPaired, ProfileFile
  <2>3. c \in Call
    BY <2>2, WaitsAssumption, CallType
  <2>4. Fits("replace", c, answer[u], dirs, key, profile)
    BY <2>2, <1>2 DEF Fits
  <2>5. /\ pc[u] = "idle" /\ pc' = [pc EXCEPT ![u] = "replace"] /\ call' = [call EXCEPT ![u] = c]
        /\ answer' = [answer EXCEPT ![u] = answer[u]]
        /\ dirs' = dirs /\ key' = key /\ profile' = profile
        /\ abandoned' = abandoned
    BY <2>1, <1>3 DEF CallRename, At, Go
  <2> HIDE DEF c
  <2> QED BY <2>2, <2>5, <2>3, <2>4, <1>3, <1>4
<1>8. CASE Load(u)
  <2> DEFINE l == IF profile[Mine(u)] # None THEN "pair" ELSE "stat"
  <2>1. l \in Labels /\ call[u] \in Call /\ answer[u] \in Answer /\ Fits(l, call[u], answer[u], dirs, key, profile)
    BY <1>8, <1>2, <1>3, WaitsAssumption, IdentityNoneAssumption
       DEF Load, At, Labels, Call, Answer, Fits, Mine
  <2>2. /\ pc[u] = "load" /\ pc' = [pc EXCEPT ![u] = l]
        /\ call' = [call EXCEPT ![u] = call[u]] /\ answer' = [answer EXCEPT ![u] = answer[u]]
        /\ dirs' = dirs /\ key' = key /\ profile' = profile
        /\ abandoned' = abandoned
    BY <1>8, <1>2, <1>3 DEF Load, At, Go, Continue, Return, Mine
  <2> HIDE DEF l
  <2> QED BY <2>1, <2>2, <1>4
<1>9. CASE Pair(u)
  <2> DEFINE p == Mine(u)
  <2> DEFINE a == IF key[p] = None
                  THEN NoAnswer
                  ELSE [result |-> "ok", profile |-> p, id |-> key[p]]
  <2>1. p \in Profiles /\ p \in dirs /\ profile[p] # None /\ key[p] \in Users \cup {None}
    BY <1>9, <1>2 DEF Pair, At, Fits, Mine, Files
  <2>2. a \in Answer
    BY <2>1, AnswerType, NothingType
  <2>3. /\ "idle" \in Labels /\ NoCall \in Call /\ a \in Answer
        /\ Fits("idle", NoCall, a, dirs, key, profile)
    BY <2>1, <2>2, NothingType DEF Fits, NoAnswer
  <2>4. /\ pc[u] = "pair" /\ pc' = [pc EXCEPT ![u] = "idle"]
        /\ call' = [call EXCEPT ![u] = NoCall] /\ answer' = [answer EXCEPT ![u] = a]
        /\ dirs' = dirs /\ key' = key /\ profile' = profile
        /\ abandoned' = abandoned
    BY <1>9, <1>2, <1>3 DEF Pair, At, Go, Continue, Return, ReturnError, Mine, Files, FilesPaired, Fits
  <2> HIDE DEF a
  <2> QED BY <2>3, <2>4, <1>4
<1>10. CASE StatKey(u)
  <2> DEFINE l == IF key[Mine(u)] # None THEN "wait" ELSE "create"
  <2>1. l \in Labels /\ call[u] \in Call /\ answer[u] \in Answer /\ Fits(l, call[u], answer[u], dirs, key, profile)
    BY <1>10, <1>2, <1>3, WaitsAssumption, IdentityNoneAssumption
       DEF StatKey, At, Labels, Call, Answer, Fits, Mine
  <2>2. /\ pc[u] = "stat" /\ pc' = [pc EXCEPT ![u] = l]
        /\ call' = [call EXCEPT ![u] = call[u]] /\ answer' = [answer EXCEPT ![u] = answer[u]]
        /\ dirs' = dirs /\ key' = key /\ profile' = profile
        /\ abandoned' = abandoned
    BY <1>10, <1>2, <1>3 DEF StatKey, At, Go, Continue, Return, Mine
  <2> HIDE DEF l
  <2> QED BY <2>1, <2>2, <1>4
<1>11. CASE Wait(u)
  <2> DEFINE c == [call[u] EXCEPT !.waits = @ - 1]
  <2>1. /\ pc[u] = "wait"
        /\ dirs' = dirs /\ key' = key /\ profile' = profile
        /\ abandoned' = abandoned
    BY <1>11 DEF Wait, At
  <2>2. CASE Continue(u, "load")
    <3>1. "load" \in Labels /\ Fits("load", call[u], answer[u], dirs, key, profile)
      BY <2>1, <1>2 DEF Labels, Fits
    <3>2. /\ pc' = [pc EXCEPT ![u] = "load"] /\ call' = [call EXCEPT ![u] = call[u]]
          /\ answer' = [answer EXCEPT ![u] = answer[u]]
      BY <2>2, <1>3 DEF Continue, Go
    <3> QED BY <3>1, <3>2, <2>1, <1>3, <1>4
  <2>3. CASE call[u].waits > 1 /\ call' = [call EXCEPT ![u].waits = @ - 1] /\ UNCHANGED <<pc, answer>>
    <3>1. c \in Call /\ Fits("wait", c, answer[u], dirs, key, profile) /\ "wait" \in Labels
      <4>1. c \in Call
        BY <2>3, <1>3, WaitsAssumption DEF Call
      <4>2. c.profile = call[u].profile /\ c.name = call[u].name
        BY <1>3 DEF Call
      <4> HIDE DEF c
      <4> QED BY <4>1, <4>2, <2>1, <1>2 DEF Labels, Fits
    <3>2. /\ pc' = [pc EXCEPT ![u] = "wait"] /\ call' = [call EXCEPT ![u] = c]
          /\ answer' = [answer EXCEPT ![u] = answer[u]]
      BY <2>1, <2>3, <1>3
    <3> HIDE DEF c
    <3> QED BY <3>1, <3>2, <2>1, <1>3, <1>4
  <2>4. CASE ReturnError(u)
    <3>1. Fits("idle", NoCall, NoAnswer, dirs, key, profile)
      BY DEF Fits, NoAnswer
    <3>2. /\ pc' = [pc EXCEPT ![u] = "idle"] /\ call' = [call EXCEPT ![u] = NoCall]
          /\ answer' = [answer EXCEPT ![u] = NoAnswer]
      BY <2>4 DEF ReturnError, Go
    <3> QED BY <3>1, <3>2, <2>1, NothingType, <1>4
  <2> QED BY <1>11, <2>2, <2>3, <2>4 DEF Wait
<1>12. CASE LoadKey(u)
  <2> DEFINE c == [call[u] EXCEPT !.key = key[Mine(u)]]
  <2>1. /\ pc[u] = "create"
        /\ dirs' = dirs /\ key' = key /\ profile' = profile
        /\ abandoned' = abandoned
    BY <1>12 DEF LoadKey, At
  <2>2. CASE key[Mine(u)] = None
    <3>1. "link key" \in Labels /\ Fits("link key", call[u], answer[u], dirs, key, profile)
      BY <2>1, <1>2 DEF Labels, Fits
    <3>2. /\ pc' = [pc EXCEPT ![u] = "link key"] /\ call' = [call EXCEPT ![u] = call[u]]
          /\ answer' = [answer EXCEPT ![u] = answer[u]]
      BY <2>2, <1>12, <1>3 DEF LoadKey, Continue, Go
    <3> QED BY <3>1, <3>2, <2>1, <1>3, <1>4
  <2>3. CASE key[Mine(u)] # None
    <3>1. c \in Call /\ Fits("label", c, answer[u], dirs, key, profile) /\ "label" \in Labels
      BY <2>1, <2>3, <1>2, <1>3 DEF Labels, Fits, Call, Mine, Files
    <3>2. /\ pc' = [pc EXCEPT ![u] = "label"] /\ call' = [call EXCEPT ![u] = c]
          /\ answer' = [answer EXCEPT ![u] = answer[u]]
      BY <2>3, <1>12, <1>3 DEF LoadKey, Go
    <3> HIDE DEF c
    <3> QED BY <3>1, <3>2, <2>1, <1>3, <1>4
  <2> QED BY <2>2, <2>3
<1>13. CASE LinkKey(u)
  <2> DEFINE k == IF key[Mine(u)] = None THEN u ELSE key[Mine(u)]
  <2> DEFINE c == [call[u] EXCEPT !.key = k]
  <2>1. /\ pc[u] = "link key" /\ Mine(u) \in Profiles /\ Mine(u) \in dirs
        /\ dirs' = dirs /\ profile' = profile
        /\ abandoned' = abandoned
    BY <1>13, <1>2 DEF LinkKey, At, Fits, Mine, Files
  <2>2. k \in Users /\ key' = [key EXCEPT ![Mine(u)] = k]
    BY <1>13, <1>2, <2>1 DEF LinkKey, Files
  <2>3. pc' = [pc EXCEPT ![u] = "label"] /\ call' = [call EXCEPT ![u] = c]
    BY <1>13, <1>2, <1>3, <2>1, <2>2 DEF LinkKey, Go, Files
  <2>4. answer' = [answer EXCEPT ![u] = answer[u]]
    BY <1>13, <1>3 DEF LinkKey
  <2>5. c \in Call /\ "label" \in Labels /\ c.key = k /\ c.profile = Mine(u)
        /\ c.name = call[u].name
    BY <1>3, <2>2 DEF Call, Labels, Mine
  <2> HIDE DEF c
  <2>6. \A q \in Profiles : /\ key'[q] = IF q = Mine(u) THEN k ELSE key[q]
                            /\ key[q] # None => key'[q] = key[q]
    BY <2>1, <2>2, <1>2 DEF Files
  <2>7. key' \in [Profiles -> Users \cup {None}]
    BY <2>2, <1>2 DEF Files
  <2>8. \A q \in Profiles : profile[q] # None => key[q] # None
    BY <1>2, IdentityNoneAssumption DEF Files, FilesPaired, ProfileFile
  <2> HIDE DEF k
  <2>9. Files' /\ Kept
    <3>1. Kept
      BY <2>1, <2>6 DEF Kept
    <3> QED BY <3>1, <2>1, <2>6, <2>7, <2>8, <1>2 DEF Files, FilesPaired
  <2>10. Fits("label", c, answer[u], dirs', key', profile')
    <3>1. k = key'[Mine(u)] /\ dirs \subseteq Profiles
      BY <2>1, <2>6, <1>2 DEF Files
    <3>2. \A q \in dirs : key[q] # None => key'[q] = key[q]
      BY <2>6, <3>1
    <3> QED BY <3>1, <3>2, <2>1, <2>2, <2>5, <1>2, IdentityNoneAssumption DEF Fits
  <2>11. abandoned \subseteq abandoned'
    BY <2>1
  <2>12. answer[u] \in Answer
    BY <1>3
  <2>13. \A q \in Profiles : key'[q] # None /\ profile'[q] = None =>
            \/ q \in abandoned'
            \/ c.profile = q /\ "label" \in {"label", "link profile"}
            \/ key[q] # None /\ ~ (pc[u] \in {"label", "link profile"} /\ Mine(u) = q)
    BY <2>1, <2>5, <2>6
  <2> QED BY <2>3, <2>4, <2>5, <2>9, <2>10, <2>13, <2>11, <2>12, Moves, Zenon
<1>14. CASE ValidateLabels(u)
  <2>1. /\ pc[u] = "label" /\ Mine(u) \in Profiles
        /\ dirs' = dirs /\ key' = key /\ profile' = profile
    BY <1>14, <1>2 DEF ValidateLabels, At, Fits, Mine, Files
  <2>2. CASE Continue(u, "link profile") /\ abandoned' = abandoned
    <3>1. "link profile" \in Labels /\ Fits("link profile", call[u], answer[u], dirs, key, profile)
      BY <2>1, <1>2 DEF Labels, Fits
    <3>2. /\ pc' = [pc EXCEPT ![u] = "link profile"] /\ call' = [call EXCEPT ![u] = call[u]]
          /\ answer' = [answer EXCEPT ![u] = answer[u]]
      BY <2>2, <1>3 DEF Continue, Go
    <3> QED BY <3>1, <3>2, <2>1, <2>2, <1>3, <1>4 DEF Mine
  <2>3. CASE ReturnError(u) /\ abandoned' = abandoned \cup {Mine(u)}
    BY <2>1, <2>3, <1>5
  <2> QED BY <1>14, <2>2, <2>3 DEF ValidateLabels
<1>15. CASE LinkProfile(u)
  <2> DEFINE mine == [key |-> call[u].key, name |-> call[u].name]
  <2> DEFINE f == IF profile[Mine(u)] = None THEN mine ELSE profile[Mine(u)]
  <2> DEFINE a == [result |-> "ok", profile |-> Mine(u), id |-> call[u].key]
  <2>1. /\ pc[u] = "link profile" /\ Mine(u) \in Profiles /\ Mine(u) \in dirs
        /\ call[u].key \in Users /\ call[u].key = key[Mine(u)] /\ call[u].name \in Names
        /\ dirs' = dirs /\ key' = key
        /\ abandoned' = abandoned
    BY <1>15, <1>2 DEF LinkProfile, At, Fits, Mine, Files
  <2>2. mine \in ProfileFile /\ mine # None /\ mine.key = key[Mine(u)]
    <3>1. mine \in ProfileFile /\ mine.key = key[Mine(u)]
      BY <2>1 DEF ProfileFile
    <3> QED BY <3>1, IdentityNoneAssumption
  <2>3. f \in ProfileFile /\ f # None /\ f.key = key[Mine(u)] /\ profile' = [profile EXCEPT ![Mine(u)] = f]
    <3>1. profile' = [profile EXCEPT ![Mine(u)] = f]
      BY <1>15, <1>2, <2>1 DEF LinkProfile, Files
    <3> HIDE DEF mine
    <3> QED BY <3>1, <2>1, <2>2, <1>2, IdentityNoneAssumption DEF Files, FilesPaired
  <2> HIDE DEF f, mine
  <2>4. profile'[Mine(u)] = f
    BY <2>1, <2>3, <1>2 DEF Files
  <2>5. Return(u, "ok", call[u].key)
    BY <1>15, <2>1, <2>3, <2>4 DEF LinkProfile
  <2>6. /\ pc' = [pc EXCEPT ![u] = "idle"] /\ call' = [call EXCEPT ![u] = NoCall]
        /\ answer' = [answer EXCEPT ![u] = a]
    BY <2>5 DEF Return, Go
  <2>7. "idle" \in Labels /\ NoCall \in Call /\ a \in Answer
    BY <2>1, AnswerType, NothingType
  <2>8. Files' /\ Kept
    BY <2>1, <2>3, <1>2 DEF Files, FilesPaired, Kept
  <2>9. Fits("idle", NoCall, a, dirs', key', profile')
    BY <2>1, <2>3, <2>4 DEF Fits
  <2>10. \A q \in Profiles : key'[q] # None /\ profile'[q] = None =>
            key[q] # None /\ ~ (pc[u] \in {"label", "link profile"} /\ Mine(u) = q)
    BY <2>1, <2>3, <2>4
  <2>11. abandoned \subseteq abandoned'
    BY <2>1
  <2> HIDE DEF a
  <2> QED BY <2>6, <2>7, <2>8, <2>9, <2>10, <2>11, Moves
<1>16. CASE ReplaceProfile(u)
  <2> DEFINE f == [key |-> call[u].key, name |-> call[u].name]
  <2> DEFINE a == [result |-> "ok", profile |-> Mine(u), id |-> call[u].key]
  <2>1. /\ pc[u] = "replace" /\ Mine(u) \in Profiles /\ Mine(u) \in dirs
        /\ call[u].key \in Users /\ call[u].key = key[Mine(u)] /\ call[u].name \in Names
        /\ profile[Mine(u)] # None
        /\ dirs' = dirs /\ key' = key
        /\ abandoned' = abandoned
    BY <1>16, <1>2 DEF ReplaceProfile, At, Fits, Mine, Files
  <2>2. f \in ProfileFile /\ f # None /\ f.key = key[Mine(u)]
    BY <2>1, IdentityNoneAssumption DEF ProfileFile
  <2>3. /\ profile' = [profile EXCEPT ![Mine(u)] = f]
        /\ pc' = [pc EXCEPT ![u] = "idle"] /\ call' = [call EXCEPT ![u] = NoCall]
        /\ answer' = [answer EXCEPT ![u] = a]
    BY <1>16 DEF ReplaceProfile, Return, Go
  <2> HIDE DEF f
  <2>4. profile'[Mine(u)] = f
    BY <2>1, <2>3, <1>2 DEF Files
  <2>5. "idle" \in Labels /\ NoCall \in Call /\ a \in Answer
    BY <2>1, AnswerType, NothingType
  <2>6. Files' /\ Kept
    BY <2>1, <2>2, <2>3, <1>2 DEF Files, FilesPaired, Kept
  <2>7. Fits("idle", NoCall, a, dirs', key', profile')
    BY <2>1, <2>2, <2>4 DEF Fits
  <2>8. \A q \in Profiles : key'[q] # None /\ profile'[q] = None =>
            key[q] # None /\ ~ (pc[u] \in {"label", "link profile"} /\ Mine(u) = q)
    BY <2>1
  <2>9. abandoned \subseteq abandoned'
    BY <2>1
  <2> HIDE DEF a
  <2> QED BY <2>3, <2>5, <2>6, <2>7, <2>8, <2>9, Moves
<1>17. CASE CallFails(u)
  BY <1>17, <1>5 DEF CallFails, At
<1> QED
  BY <1>1, <1>6, <1>7, <1>8, <1>9, <1>10, <1>11, <1>12, <1>13, <1>14, <1>15, <1>16, <1>17,
     Zenon DEF EnsureStep

-----------------------------------------------------------------------------
(* Backups.  Again the ledger l and the keys k are parameters. *)

StageType == [path : Paths \cup {None}, copying : Profiles \cup {None},
              content : Contents \cup {None}]
Places == {"idle", "ledger", "list", "profiles", "profile file", "key file", "copied",
           "verify", "lstat", "rename", "done"}

\* Whoever of this home the ledger names has its identity.
LedgerBacked == /\ ledger \subseteq Attribution \cup Strangers
                /\ \A a \in ledger \ Strangers :
                                     /\ a.profile \in dirs
                                     /\ key[a.profile] = a.id
                                     /\ profile[a.profile] # None

\* Nothing in the content is foreign to the live instance.
Genuine(content, l, k) == /\ content \in Contents
                          /\ content.db \subseteq l
                          /\ \A p \in Profiles : content.keys[p] # None => content.keys[p] = k[p]

\* Whoever of this home its ledger names is there, apart from the profiles ps.
Usable(content, ps) ==
    \A a \in content.db \ Strangers : a.profile \in ps \/ PairStaged(content, a.profile)

\* What a publisher at w with the stage st and the directories t still to copy has.
StageFits(w, st, t, l, k) ==
    /\ w \notin {"idle", "done"} => st.path \in Paths /\ Genuine(st.content, l, k)
    /\ w \in {"profiles", "profile file", "key file", "copied"} => Usable(st.content, t)
    /\ w \in {"profile file", "key file", "copied"} => st.copying \in t
    /\ w \in {"verify", "lstat", "rename"} => Usable(st.content, {})
    /\ w \in {"lstat", "rename"} => Verifies(st.content)

Complete(content, l, k) ==
    content # None => Genuine(content, l, k) /\ Usable(content, {}) /\ Verifies(content)

BackupInv ==
    /\ IdentityInv /\ LedgerBacked
    /\ stage \in [Publishers -> StageType] /\ where \in [Publishers -> Places]
    /\ todo \in [Publishers -> SUBSET Profiles]
    /\ place \in [Paths -> Contents \cup {None}]
    /\ \A b \in Publishers : StageFits(where[b], stage[b], todo[b], ledger, key)
    /\ \A d \in Paths : Complete(place[d], ledger, key)

LEMMA BackupImplies ==
  ASSUME BackupInv
  PROVE  TypeOK /\ BackupComplete
<1>1. IdentityTypeOK
  BY IdentityImplies DEF BackupInv
<1>2. ASSUME NEW b \in Publishers
      PROVE  /\ stage[b].path \in Paths \cup {None}
             /\ stage[b].copying \in Profiles \cup {None}
             /\ stage[b].content \in Contents \cup {None}
             /\ todo[b] \subseteq Profiles
  BY DEF BackupInv, StageType
<1>3. TypeOK
  BY <1>1, <1>2, Zenon DEF BackupInv, LedgerBacked, TypeOK, Places
<1>4. ASSUME NEW d \in Paths, place[d] # None
      PROVE  /\ \A a \in place[d].db \ Strangers :
                    /\ place[d].keys[a.profile] = a.id
                    /\ place[d].profiles[a.profile] # None
             /\ \A p \in Profiles : place[d].keys[p] # None =>
                    /\ place[d].keys[p] = key[p]
                    /\ PairStaged(place[d], p)
  <2> DEFINE content == place[d]
  <2>1. /\ Genuine(content, ledger, key) /\ Usable(content, {}) /\ Verifies(content)
    BY <1>4 DEF BackupInv, Complete
  <2>2. content.db \subseteq ledger /\ content.profiles \in [Profiles -> ProfileFile \cup {None}]
    BY <2>1 DEF Genuine, Contents
  <2> HIDE DEF content
  <2>3. ASSUME NEW a \in content.db \ Strangers
        PROVE  content.keys[a.profile] = a.id /\ content.profiles[a.profile] # None
    <3>1. PairStaged(content, a.profile)
      BY <2>1 DEF Usable
    <3>2. a.profile \in Profiles /\ key[a.profile] = a.id
      BY <2>2 DEF BackupInv, LedgerBacked, Attribution
    <3>3. content.profiles[a.profile].key \in Users
      BY <3>1, <3>2, <2>2 DEF PairStaged, ProfileFile
    <3> QED
      BY <3>1, <3>2, <3>3, <2>1, IdentityNoneAssumption DEF PairStaged, Genuine
  <2>4. \A p \in Profiles : content.keys[p] # None => content.keys[p] = key[p] /\ PairStaged(content, p)
    BY <2>1 DEF Genuine, Verifies
  <2> QED BY <2>3, <2>4 DEF content
<1> QED BY <1>3, <1>4 DEF BackupComplete

LEMMA BackupStart == Init => BackupInv
<1> SUFFICES ASSUME Init PROVE BackupInv
  OBVIOUS
<1>1. IdentityInv /\ LedgerBacked
  BY IdentityStart DEF Init, LedgerBacked
<1>2. NothingStaged \in StageType /\ "idle" \in Places
  BY DEF NothingStaged, StageType, Places
<1> QED BY <1>1, <1>2 DEF Init, BackupInv, StageFits, Complete

\* Nothing that was copied becomes foreign when agents go on.
LEMMA GenuineKept ==
  ASSUME NEW content, Genuine(content, ledger, key), ledger \subseteq ledger', Kept
  PROVE  Genuine(content, ledger', key')
  BY DEF Genuine, Kept

LEMMA AgentsMove ==
  ASSUME BackupInv, IdentityInv', Kept, LedgerBacked', ledger \subseteq ledger',
         UNCHANGED <<place, stage, where, todo>>
  PROVE  BackupInv'
<1>1. \A b \in Publishers : StageFits(where[b], stage[b], todo[b], ledger', key')
  BY GenuineKept DEF BackupInv, StageFits
<1>2. \A d \in Paths : Complete(place[d], ledger', key')
  BY GenuineKept DEF BackupInv, Complete
<1> QED BY <1>1, <1>2 DEF BackupInv

\* One publisher moves.
LEMMA PublisherMoves ==
  ASSUME BackupInv, UNCHANGED <<identityVars, ledger>>,
         NEW b \in Publishers, NEW w \in Places, NEW st \in StageType, NEW t \in SUBSET Profiles,
         where' = [where EXCEPT ![b] = w],
         stage' = [stage EXCEPT ![b] = st],
         todo' = [todo EXCEPT ![b] = t],
         StageFits(w, st, t, ledger, key),
         place' \in [Paths -> Contents \cup {None}],
         \A d \in Paths : Complete(place'[d], ledger, key)
  PROVE  BackupInv'
<1>1. IdentityInv' /\ LedgerBacked'
  <2>1. IdentityInv'
    BY DEF BackupInv, identityVars, IdentityInv, Files, FilesPaired, Expected, Mine
  <2>2. LedgerBacked'
    BY DEF BackupInv, identityVars, LedgerBacked
  <2> QED BY <2>1, <2>2
<1>2. /\ stage' \in [Publishers -> StageType] /\ where' \in [Publishers -> Places]
      /\ todo' \in [Publishers -> SUBSET Profiles]
  BY DEF BackupInv
<1>3. key' = key /\ ledger' = ledger
  BY DEF identityVars
<1>4. ASSUME NEW c \in Publishers
      PROVE  StageFits(where'[c], stage'[c], todo'[c], ledger, key)
  BY DEF BackupInv
<1> QED BY <1>1, <1>2, <1>3, <1>4 DEF BackupInv

LEMMA PublisherStep ==
  ASSUME BackupInv, NEW b \in Publishers, Publisher(b)
  PROVE  BackupInv'
<1>1. UNCHANGED <<identityVars, ledger>>
  BY DEF Publisher, Create, BackupLedger, ReadAgentHome, VerifyProfile, CopyProfileFile,
         CopyKeyFile, VerifyCopy, FinishStage, Restore, VerifyStage, Lstat, Rename,
         PublisherFails
<1>2. /\ stage[b] \in StageType /\ todo[b] \in SUBSET Profiles /\ where[b] \in Places
      /\ StageFits(where[b], stage[b], todo[b], ledger, key)
      /\ place \in [Paths -> Contents \cup {None}]
      /\ \A d \in Paths : Complete(place[d], ledger, key)
      /\ key \in [Profiles -> Users \cup {None}]
      /\ profile \in [Profiles -> ProfileFile \cup {None}]
      /\ dirs \subseteq Profiles
  BY DEF BackupInv, IdentityInv, Files
<1>3. stage = [stage EXCEPT ![b] = stage[b]] /\ todo = [todo EXCEPT ![b] = todo[b]]
  BY DEF BackupInv
\* Most steps leave the published directories alone.
<1>4. ASSUME place' = place, NEW w \in Places, NEW st \in StageType, NEW t \in SUBSET Profiles,
             where' = [where EXCEPT ![b] = w], stage' = [stage EXCEPT ![b] = st],
             todo' = [todo EXCEPT ![b] = t], StageFits(w, st, t, ledger, key)
      PROVE  BackupInv'
  BY <1>1, <1>2, <1>4, PublisherMoves
<1>5. CASE \E d \in Backups : Create(b, d)
  <2>1. PICK d \in Backups : Create(b, d)
    BY <1>5
  <2> DEFINE st == [path |-> d, copying |-> None, content |-> EmptyStage]
  <2>2. /\ EmptyStage \in Contents /\ EmptyStage.db = {}
        /\ \A p \in Profiles : EmptyStage.keys[p] = None
    BY DEF EmptyStage, Contents
  <2>3. st \in StageType /\ "ledger" \in Places
    BY <2>2 DEF StageType, Paths, Places
  <2>4. StageFits("ledger", st, todo[b], ledger, key)
    BY <2>2 DEF StageFits, Paths, Genuine
  <2>5. /\ where' = [where EXCEPT ![b] = "ledger"] /\ stage' = [stage EXCEPT ![b] = st]
        /\ todo' = todo /\ place' = place
    BY <2>1 DEF Create, Reach
  <2> HIDE DEF st
  <2> QED BY <2>3, <2>4, <2>5, <1>2, <1>3, <1>4
<1>6. CASE BackupLedger(b)
  <2> DEFINE content == [Staged(b) EXCEPT !.db = ledger]
  <2> DEFINE st == [stage[b] EXCEPT !.content = content]
  <2>1. where[b] = "ledger" /\ Genuine(Staged(b), ledger, key) /\ stage[b].path \in Paths
    BY <1>6, <1>2 DEF BackupLedger, StageFits, Staged
  <2>2. content \in Contents /\ content.db = ledger /\ content.keys = Staged(b).keys
    BY <2>1 DEF BackupInv, LedgerBacked, Genuine, Contents
  <2> HIDE DEF content
  <2>3. /\ st \in StageType /\ "list" \in Places
        /\ st.path \in Paths /\ st.content = content
    BY <2>1, <2>2, <1>2 DEF StageType, Places
  <2>4. StageFits("list", st, todo[b], ledger, key)
    BY <2>1, <2>2, <2>3 DEF StageFits, Genuine
  <2>5. /\ where' = [where EXCEPT ![b] = "list"] /\ stage' = [stage EXCEPT ![b] = st]
        /\ todo' = todo /\ place' = place
    BY <1>6, <1>2 DEF BackupLedger, Reach, Stage, content
  <2> HIDE DEF st
  <2> QED BY <2>3, <2>4, <2>5, <1>2, <1>3, <1>4
<1>7. CASE ReadAgentHome(b)
  <2>1. /\ where[b] = "list" /\ where' = [where EXCEPT ![b] = "profiles"]
        /\ todo' = [todo EXCEPT ![b] = dirs] /\ stage' = stage /\ place' = place
    BY <1>7 DEF ReadAgentHome, Reach
  <2>2. Usable(stage[b].content, dirs)
    BY <2>1, <1>2 DEF StageFits, Genuine, BackupInv, LedgerBacked, Usable
  <2>3. StageFits("profiles", stage[b], dirs, ledger, key) /\ "profiles" \in Places
    BY <2>1, <2>2, <1>2 DEF StageFits, Places
  <2> QED BY <2>1, <2>3, <1>2, <1>3, <1>4
<1>8. CASE \E p \in Profiles : VerifyProfile(b, p)
  <2>1. PICK p \in Profiles : VerifyProfile(b, p)
    BY <1>8
  <2> DEFINE st == [stage[b] EXCEPT !.copying = p]
  <2>2. /\ where[b] = "profiles" /\ p \in todo[b]
        /\ where' = [where EXCEPT ![b] = "profile file"]
        /\ stage' = [stage EXCEPT ![b] = st] /\ todo' = todo /\ place' = place
    BY <2>1, <1>2 DEF VerifyProfile, Reach
  <2>3. /\ st \in StageType /\ "profile file" \in Places /\ st.copying = p
        /\ st.path = stage[b].path /\ st.content = stage[b].content
    BY <1>2 DEF StageType, Places
  <2> HIDE DEF st
  <2>4. StageFits("profile file", st, todo[b], ledger, key)
    BY <2>2, <2>3, <1>2 DEF StageFits
  <2> QED BY <2>2, <2>3, <2>4, <1>2, <1>3, <1>4
<1>9. CASE CopyProfileFile(b)
  <2> DEFINE c == Copying(b)
  <2> DEFINE content == [Staged(b) EXCEPT !.profiles[c] = profile[c]]
  <2> DEFINE st == [stage[b] EXCEPT !.content = content]
  <2>1. /\ where[b] = "profile file" /\ where' = [where EXCEPT ![b] = "key file"]
        /\ stage' = [stage EXCEPT ![b] = st] /\ todo' = todo /\ place' = place
    BY <1>9, <1>2 DEF CopyProfileFile, Reach, Stage
  <2>2. /\ Genuine(Staged(b), ledger, key) /\ Usable(Staged(b), todo[b])
        /\ c \in todo[b] /\ c \in Profiles /\ stage[b].path \in Paths
    BY <2>1, <1>2 DEF StageFits, Staged, Copying
  <2>3. /\ content \in Contents /\ content.db = Staged(b).db /\ content.keys = Staged(b).keys
        /\ \A q \in Profiles : q # c => content.profiles[q] = Staged(b).profiles[q]
    BY <2>2, <1>2 DEF Genuine, Contents
  <2>4. \A a \in content.db \ Strangers : a.profile \in Profiles
    BY <2>2, <2>3 DEF Genuine, Contents, Attribution
  <2> HIDE DEF content, c
  <2>5. Genuine(content, ledger, key) /\ Usable(content, todo[b])
    BY <2>2, <2>3, <2>4 DEF Genuine, Usable, PairStaged
  <2>6. /\ st \in StageType /\ "key file" \in Places /\ st.path = stage[b].path
        /\ st.copying = c /\ st.content = content
    BY <2>3, <1>2 DEF StageType, Places, Copying, c
  <2> HIDE DEF st
  <2>7. StageFits("key file", st, todo[b], ledger, key)
    BY <2>2, <2>5, <2>6 DEF StageFits
  <2> QED BY <2>1, <2>6, <2>7, <1>2, <1>3, <1>4
<1>10. CASE CopyKeyFile(b)
  <2> DEFINE c == Copying(b)
  <2> DEFINE content == [Staged(b) EXCEPT !.keys[c] = key[c]]
  <2> DEFINE st == [stage[b] EXCEPT !.content = content]
  <2>1. /\ where[b] = "key file" /\ where' = [where EXCEPT ![b] = "copied"]
        /\ stage' = [stage EXCEPT ![b] = st] /\ todo' = todo /\ place' = place
    BY <1>10, <1>2 DEF CopyKeyFile, Reach, Stage
  <2>2. /\ Genuine(Staged(b), ledger, key) /\ Usable(Staged(b), todo[b])
        /\ c \in todo[b] /\ c \in Profiles /\ stage[b].path \in Paths
    BY <2>1, <1>2 DEF StageFits, Staged, Copying
  <2>3. /\ content \in Contents /\ content.db = Staged(b).db
        /\ content.profiles = Staged(b).profiles /\ content.keys[c] = key[c]
        /\ \A q \in Profiles : q # c => content.keys[q] = Staged(b).keys[q]
    BY <2>2, <1>2 DEF Genuine, Contents
  <2>4. \A a \in content.db \ Strangers : a.profile \in Profiles
    BY <2>2, <2>3 DEF Genuine, Contents, Attribution
  <2> HIDE DEF content, c
  <2>5. Genuine(content, ledger, key) /\ Usable(content, todo[b])
    BY <2>2, <2>3, <2>4 DEF Genuine, Usable, PairStaged
  <2>6. /\ st \in StageType /\ "copied" \in Places /\ st.path = stage[b].path
        /\ st.copying = c /\ st.content = content
    BY <2>3, <1>2 DEF StageType, Places, Copying, c
  <2> HIDE DEF st
  <2>7. StageFits("copied", st, todo[b], ledger, key)
    BY <2>2, <2>5, <2>6 DEF StageFits
  <2> QED BY <2>1, <2>6, <2>7, <1>2, <1>3, <1>4
<1>11. CASE VerifyCopy(b)
  <2> DEFINE st == [stage[b] EXCEPT !.copying = None]
  <2> DEFINE t == todo[b] \ {Copying(b)}
  <2>1. /\ where[b] = "copied" /\ where' = [where EXCEPT ![b] = "profiles"]
        /\ stage' = [stage EXCEPT ![b] = st] /\ todo' = [todo EXCEPT ![b] = t] /\ place' = place
        /\ PairStaged(stage[b].content, Copying(b))
    BY <1>11, <1>2 DEF VerifyCopy, Reach, Staged
  <2>2. /\ st \in StageType /\ "profiles" \in Places /\ t \in SUBSET Profiles
        /\ st.path = stage[b].path /\ st.content = stage[b].content
    BY <1>2 DEF StageType, Places
  <2>3. Usable(st.content, t)
    BY <2>1, <2>2, <1>2 DEF StageFits, Usable
  <2> HIDE DEF st, t
  <2>4. StageFits("profiles", st, t, ledger, key)
    BY <2>1, <2>2, <2>3, <1>2 DEF StageFits
  <2> QED BY <2>1, <2>2, <2>4, <1>4
<1>12. CASE FinishStage(b)
  <2>1. /\ where[b] = "profiles" /\ todo[b] = {} /\ where' = [where EXCEPT ![b] = "verify"]
        /\ stage' = stage /\ todo' = todo /\ place' = place
    BY <1>12 DEF FinishStage, Reach
  <2>2. StageFits("verify", stage[b], todo[b], ledger, key) /\ "verify" \in Places
    BY <2>1, <1>2 DEF StageFits, Places
  <2> QED BY <2>1, <2>2, <1>2, <1>3, <1>4
<1>13. CASE \E from \in Backups, d \in Instances : Restore(b, from, d)
  <2>1. PICK from \in Backups, d \in Instances : Restore(b, from, d)
    BY <1>13
  <2> DEFINE st == [path |-> d, copying |-> None, content |-> place[from]]
  <2>2. /\ where' = [where EXCEPT ![b] = "verify"] /\ stage' = [stage EXCEPT ![b] = st]
        /\ todo' = todo /\ place' = place /\ place[from] # None
    BY <2>1 DEF Restore, Reach
  <2>3. from \in Paths /\ d \in Paths
    BY DEF Paths
  <2>4. /\ place[from] \in Contents
        /\ Genuine(place[from], ledger, key) /\ Usable(place[from], {})
    BY <2>2, <2>3, <1>2 DEF Complete
  <2>5. st \in StageType /\ "verify" \in Places
    BY <2>3, <2>4 DEF StageType, Places
  <2>6. StageFits("verify", st, todo[b], ledger, key)
    BY <2>3, <2>4 DEF StageFits
  <2> HIDE DEF st
  <2> QED BY <2>2, <2>5, <2>6, <1>2, <1>3, <1>4
<1>14. CASE VerifyStage(b)
  <2>1. /\ where[b] = "verify" /\ where' = [where EXCEPT ![b] = "lstat"]
        /\ stage' = stage /\ todo' = todo /\ place' = place /\ Verifies(stage[b].content)
    BY <1>14 DEF VerifyStage, Reach, Staged
  <2>2. StageFits("lstat", stage[b], todo[b], ledger, key) /\ "lstat" \in Places
    BY <2>1, <1>2 DEF StageFits, Places
  <2> QED BY <2>1, <2>2, <1>2, <1>3, <1>4
<1>15. CASE Lstat(b)
  <2>1. /\ where[b] = "lstat" /\ where' = [where EXCEPT ![b] = "rename"]
        /\ stage' = stage /\ todo' = todo /\ place' = place
    BY <1>15 DEF Lstat, Reach
  <2>2. StageFits("rename", stage[b], todo[b], ledger, key) /\ "rename" \in Places
    BY <2>1, <1>2 DEF StageFits, Places
  <2> QED BY <2>1, <2>2, <1>2, <1>3, <1>4
<1>16. NothingStaged \in StageType /\ "done" \in Places /\ {} \in SUBSET Profiles
       /\ StageFits("done", NothingStaged, {}, ledger, key)
  BY DEF NothingStaged, StageType, Places, StageFits
<1>17. CASE Rename(b)
  <2> DEFINE d == stage[b].path
  <2>1. /\ where[b] = "rename" /\ where' = [where EXCEPT ![b] = "done"]
        /\ stage' = [stage EXCEPT ![b] = NothingStaged] /\ todo' = [todo EXCEPT ![b] = {}]
        /\ place' = [place EXCEPT ![d] = IF @ = None THEN stage[b].content ELSE @]
    BY <1>17 DEF Rename, Leave, Reach, Staged
  <2>2. /\ d \in Paths /\ stage[b].content \in Contents
        /\ Complete(stage[b].content, ledger, key)
    BY <2>1, <1>2 DEF StageFits, Genuine, Complete
  <2>3. place' \in [Paths -> Contents \cup {None}] /\ \A e \in Paths : Complete(place'[e], ledger, key)
    BY <2>1, <2>2, <1>2
  <2> QED BY <2>1, <2>3, <1>1, <1>16, PublisherMoves
<1>18. CASE PublisherFails(b)
  BY <1>18, <1>4, <1>16 DEF PublisherFails, Leave, Reach
<1> QED
  BY <1>5, <1>6, <1>7, <1>8, <1>9, <1>10, <1>11, <1>12, <1>13, <1>14, <1>15, <1>17, <1>18,
     Zenon DEF Publisher

LEMMA BackupStep ==
  ASSUME BackupInv, [Next]_vars
  PROVE  BackupInv' /\ [Kept]_identityVars
<1>1. CASE IdentityNext /\ UNCHANGED backupVars
  <2>1. IdentityInv' /\ Kept
    BY <1>1, IdentityStep DEF BackupInv
  <2>2. LedgerBacked' /\ ledger \subseteq ledger'
    <3>1. ledger' = ledger /\ ledger \subseteq Attribution \cup Strangers
      BY <1>1 DEF backupVars, BackupInv, LedgerBacked
    <3>2. ASSUME NEW a \in ledger \ Strangers
          PROVE  a.profile \in dirs' /\ key'[a.profile] = a.id /\ profile'[a.profile] # None
      <4>1. /\ a.profile \in dirs /\ key[a.profile] = a.id /\ profile[a.profile] # None
            /\ a.profile \in Profiles /\ a.id \in Users
        BY <3>1 DEF BackupInv, LedgerBacked, Attribution
      <4> QED BY <4>1, <2>1, IdentityNoneAssumption DEF Kept
    <3> QED BY <3>1, <3>2 DEF LedgerBacked
  <2>3. UNCHANGED <<place, stage, where, todo>>
    BY <1>1 DEF backupVars
  <2> QED BY <2>1, <2>2, <2>3, AgentsMove
<1>2. CASE \E u \in Users : Attribute(u)
  <2>1. PICK u \in Users : Attribute(u)
    BY <1>2
  <2>2. UNCHANGED identityVars /\ UNCHANGED <<place, stage, where, todo>>
    BY <2>1 DEF Attribute
  <2>3. IdentityInv' /\ Kept
    BY <2>2 DEF BackupInv, identityVars, IdentityInv, Files, FilesPaired, Expected, Mine, Kept
  <2>4. ledger' = ledger \cup {[profile |-> answer[u].profile, id |-> answer[u].id]}
    BY <2>1 DEF Attribute
  <2>5. /\ answer[u].profile \in dirs /\ answer[u].profile \in Profiles /\ answer[u].id \in Users
        /\ key[answer[u].profile] = answer[u].id /\ profile[answer[u].profile] # None
    BY <2>1 DEF Attribute, BackupInv, IdentityInv, Files, Fits
  <2>6. LedgerBacked' /\ ledger \subseteq ledger'
    BY <2>2, <2>4, <2>5 DEF BackupInv, LedgerBacked, Attribution, identityVars
  <2> QED BY <2>2, <2>3, <2>6, AgentsMove
<1>3. CASE \E id \in Strangers \cup Attribution : AttributeElsewhere(id)
  <2>1. PICK id \in Strangers \cup Attribution : AttributeElsewhere(id)
    BY <1>3
  <2>2. UNCHANGED identityVars /\ UNCHANGED <<place, stage, where, todo>>
    BY <2>1 DEF AttributeElsewhere
  <2>3. IdentityInv' /\ Kept
    BY <2>2 DEF BackupInv, identityVars, IdentityInv, Files, FilesPaired, Expected, Mine, Kept
  <2>4. ledger' = ledger \cup {id}
    BY <2>1 DEF AttributeElsewhere
  <2>5. id \notin Strangers => /\ id.profile \in dirs /\ key[id.profile] = id.id
                              /\ profile[id.profile] # None
    BY <2>1 DEF AttributeElsewhere, BackupInv, IdentityInv, Files, FilesPaired
  <2>6. LedgerBacked' /\ ledger \subseteq ledger'
    BY <2>2, <2>4, <2>5 DEF BackupInv, LedgerBacked, identityVars
  <2> QED BY <2>2, <2>3, <2>6, AgentsMove
<1>4. CASE \E b \in Publishers : Publisher(b)
  <2>1. PICK b \in Publishers : Publisher(b)
    BY <1>4
  <2>2. UNCHANGED identityVars
    BY <2>1 DEF Publisher, Create, BackupLedger, ReadAgentHome, VerifyProfile, CopyProfileFile,
                CopyKeyFile, VerifyCopy, FinishStage, Restore, VerifyStage, Lstat, Rename,
                PublisherFails
  <2> QED BY <2>1, <2>2, PublisherStep
<1>5. CASE UNCHANGED vars
  <2>1. UNCHANGED identityVars /\ UNCHANGED <<ledger, place, stage, where, todo>>
    BY <1>5 DEF vars, backupVars
  <2>2. IdentityInv' /\ Kept /\ LedgerBacked'
    BY <2>1 DEF BackupInv, identityVars, IdentityInv, Files, FilesPaired, Expected, Mine, Kept, LedgerBacked
  <2> QED BY <2>1, <2>2, AgentsMove
<1> QED BY <1>1, <1>2, <1>3, <1>4, <1>5 DEF Next

-----------------------------------------------------------------------------
(* Theorems *)

LEMMA BackupInvariant == Spec => []BackupInv
<1>1. BackupInv /\ [Next]_vars => BackupInv'
  BY BackupStep
<1> QED BY <1>1, BackupStart, PTL DEF Spec

\* The files of identities, the calls on them, the ledger's attributions and what
\* publishers stage and publish keep their types.
THEOREM TypeCorrect == Spec => []TypeOK
<1>1. BackupInv => TypeOK
  BY BackupImplies
<1> QED BY <1>1, BackupInvariant, PTL

\* The key and the profile of an identity belong together, and every process was
\* given the identity that is there (Ensure and Rename of identity/profile.go).
THEOREM PairsMatch == Spec => []PairMatches
<1>1. BackupInv => PairMatches
  BY IdentityImplies DEF BackupInv
<1> QED BY <1>1, BackupInvariant, PTL

\* A key stands alone only while its profile is about to be published, or after a
\* creator was killed, was refused its labels or failed to write the profile.
THEOREM HalvesExplained == Spec => []HalfCreated
<1>1. BackupInv => HalfCreated
  BY IdentityImplies DEF BackupInv
<1> QED BY <1>1, BackupInvariant, PTL

\* No step replaces the key of an identity (writeBytesOnce, writeJSONOnce and the
\* replacement by Rename).
THEOREM KeysStay == Spec => KeyKept
<1>1. BackupInv /\ [Next]_vars =>
        [\A p \in Profiles : /\ key[p] # None => key'[p] = key[p]
                             /\ profile[p] # None => /\ profile'[p] # None
                                                     /\ profile'[p].key = profile[p].key
        ]_identityVars
  BY BackupStep DEF Kept
<1> QED BY <1>1, BackupInvariant, PTL DEF Spec, KeyKept

\* What backup and restore publish is complete, whoever else writes to the ledger:
\* the ledger in it names nobody of this agent home whose identity is not in it
\* too, under the key of the live instance.
THEOREM BackupsComplete == Spec => []BackupComplete
<1>1. BackupInv => BackupComplete
  BY BackupImplies
<1> QED BY <1>1, BackupInvariant, PTL

\* A published directory is never replaced (the rename in Create and Restore).
THEOREM PublishedStays == Spec => PublishedKept
<1>1. BackupInv /\ [Next]_vars => [\A d \in Paths : place[d] # None => place'[d] = place[d]]_vars
  <2>1. SUFFICES ASSUME BackupInv, Next, NEW d \in Paths, place[d] # None
                 PROVE  place'[d] = place[d]
    OBVIOUS
  <2>2. CASE \E b \in Publishers : Rename(b)
    BY <2>1, <2>2 DEF Rename, BackupInv
  <2>3. CASE ~ (\E b \in Publishers : Rename(b))
    <3>1. place' = place
      BY <2>1, <2>3 DEF Next, backupVars, Attribute, AttributeElsewhere, Publisher, Create, BackupLedger,
         ReadAgentHome, VerifyProfile, CopyProfileFile, CopyKeyFile, VerifyCopy, FinishStage,
         Restore, VerifyStage, Lstat, PublisherFails
    <3> QED BY <3>1
  <2> QED BY <2>2, <2>3
<1> QED BY <1>1, BackupInvariant, PTL DEF Spec, PublishedKept
=============================================================================
