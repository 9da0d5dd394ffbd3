----------------------- MODULE MissionTransfer_proofs -----------------------
(***************************************************************************)
(* Proofs about MissionTransfer for any number of runs, events,            *)
(* checkpoints, importers and retries: the types, what a published file    *)
(* tells of its mission, what a context lists, and the import as one       *)
(* indivisible change of the other ledger.                                 *)
(***************************************************************************)
EXTENDS MissionTransfer, TLAPS, WellFoundedInduction

Kinds == {"json", "workspace", "context"}
Labels == {"idle", "checkpoints", "proofs", "artifacts", "verify", "publish", "done",
           "mission again", "verify mission", "latest", "runs"}
Steps == {"idle", "begin", "insert", "commit", "invalid", "imported", "collision",
          "exhausted", "failed"}
Bodies == MediaTypes \cup {None}
Owners == {"absent", "local", "imported"}
Tails == [from : 0..MaxEvents, to : 0..MaxEvents]

Source == [status : Statuses, anchors : Histories, media : Bodies,
           length : [Runs -> 0..MaxEvents], ended : SUBSET Runs]
Seen == [status : Statuses, count : 0..MaxCheckpoints, anchors : Histories,
         proofs : BoundedSeq(Statuses, MaxCheckpoints), media : Bodies,
         latest : Histories, tails : [Runs -> Tails], begun : [Runs -> 0..MaxEvents]]
Ledger == [mission : Missions \cup {None}, events : [Events -> Owners],
           media : Bodies, by : Owners]

CommandShape == /\ source \in Source
                /\ kind \in Kinds \cup {None}
                /\ pc \in Labels
                /\ seen \in Seen
                /\ file \in Contents \cup {None}

ImportShape == /\ ledger \in Ledger
               /\ step \in [Procs -> Steps]
               /\ attempt \in [Procs -> 0..MaxAttempts]
               /\ TxTypeOK

\* The types under which the events of a bundle cite the body are the body's.
BodyFits(content) == /\ Cited(content) # {} => content.media # None
                     /\ Cited(content) \subseteq {None, content.media}

\* The uncheckpointed work of every run that had begun is listed in s.
Listed(s) ==
    s.latest = s.anchors =>
        \A r \in Runs :
            \/ s.begun[r] <= Anchored(s.anchors, r)
            \/ /\ s.tails[r].from = Anchored(s.anchors, r)
               /\ s.tails[r].to >= s.begun[r]

\* What command k at place l may rely on in what it has read, s, while the source
\* ledger is src.
Reading(l, k, s, src) ==
    /\ l = "idle" => k = None
    /\ l # "idle" => k \in Kinds
    /\ l \in {"proofs", "publish"} => k # "context"
    /\ l \in {"artifacts", "verify"} => k = "workspace"
    /\ l \in {"mission again", "verify mission", "latest", "runs"} => k = "context"
    /\ IsPrefix(s.anchors, src.anchors)
    /\ s.status = "completed" => src.status = "completed"
    /\ s.status = "completed" /\ l # "checkpoints" => s.anchors = src.anchors
    /\ Len(s.proofs) <= Len(s.anchors)
    /\ l \in {"artifacts", "verify", "publish"} => BundleVerifies(s)
    /\ l \in {"verify", "publish"} /\ k = "workspace" => BodyFits(s)
    /\ l = "publish" /\ k = "workspace" => Importable(s)
    /\ k = "context" => /\ \A r \in Runs : s.begun[r] <= src.length[r]
                        /\ l = "done" => Listed(s)

\* A file is published once, and remains what the mission was.
Published == file # None => /\ pc = "done"
                            /\ kind # "context"
                            /\ file.status = "completed" => source.status = "completed"

\* SQLite's snapshot rule: as long as the snapshot of an importer is the newest
\* version, and in particular once it holds the write lock, nothing of its file
\* is in the ledger.
SnapshotCurrent ==
    \A p \in Procs :
        /\ writer = {p} <=> step[p] = "commit"
        /\ p \in fresh => step[p] \in {"insert", "commit"} /\ ~Collides(file)
        /\ step[p] = "commit" => p \in fresh

\* Importers and what they have imported have a file.
FileThere == /\ \A p \in Procs : step[p] # "idle" => file # None
             /\ ledger.mission # None => file # None

CommandInv == /\ CommandShape
              /\ Reading(pc, kind, seen, source)
              /\ Published
              /\ FileSound

ImportInv == /\ ImportShape
             /\ SnapshotCurrent
             /\ FileThere
             /\ ImportedWhole
             /\ AllOrNothing

Inv == CommandInv /\ ImportInv

-----------------------------------------------------------------------------
(* Sequences and anchors *)

LEMMA BoundedSeqIs ==
  ASSUME NEW S, NEW n \in Nat
  PROVE  \A s : s \in BoundedSeq(S, n) <=> s \in Seq(S) /\ Len(s) <= n
  <1>1. ASSUME NEW s \in BoundedSeq(S, n)
        PROVE  s \in Seq(S) /\ Len(s) <= n
    <2>1. PICK m \in 0..n : s \in [1..m -> S]
      BY <1>1 DEF BoundedSeq, SeqOf
    <2>2. m \in Nat /\ m <= n
      BY <2>1
    <2> QED
      BY <2>1, <2>2
  <1>2. ASSUME NEW s \in Seq(S), Len(s) <= n
        PROVE  s \in BoundedSeq(S, n)
    <2>1. Len(s) \in 0..n /\ s \in [1..Len(s) -> S]
      BY <1>2
    <2> QED
      BY <2>1 DEF BoundedSeq, SeqOf
  <1> QED
    BY <1>1, <1>2

LEMMA HistoryIs ==
  \A s : s \in Histories <=> s \in Seq(Anchors) /\ Len(s) <= MaxCheckpoints
  BY BoundedSeqIs, BoundsAssumption DEF Histories

LEMMA HistoryFacts ==
  ASSUME NEW s \in Histories
  PROVE  /\ s \in Seq(Anchors)
         /\ Len(s) \in 0..MaxCheckpoints
         /\ \A i \in DOMAIN s : s[i] \in Anchors
         /\ \A i \in DOMAIN s : s[i].run \in Runs /\ s[i].count \in 0..MaxEvents
  <1>1. s \in Seq(Anchors) /\ Len(s) \in 0..MaxCheckpoints
    BY HistoryIs, BoundsAssumption
  <1>2. \A i \in DOMAIN s : s[i] \in Anchors
    BY <1>1
  <1>3. \A a \in Anchors : a.run \in Runs /\ a.count \in 0..MaxEvents
    BY DEF Anchors
  <1> QED
    BY <1>1, <1>2, <1>3

LEMMA PrefixFacts ==
  ASSUME NEW t \in Histories
  PROVE  /\ IsPrefix(<<>>, t)
         /\ IsPrefix(t, t)
         /\ \A s \in Histories, x \in Anchors : IsPrefix(s, t) => IsPrefix(s, Append(t, x))
  <1>1. t \in Seq(Anchors) /\ Len(t) \in Nat
    BY HistoryFacts, BoundsAssumption
  <1>2. IsPrefix(<<>>, t)
    BY <1>1 DEF IsPrefix
  <1>3. IsPrefix(t, t)
    BY <1>1 DEF IsPrefix
  <1>4. ASSUME NEW s \in Histories, NEW x \in Anchors, IsPrefix(s, t)
        PROVE  IsPrefix(s, Append(t, x))
    <2>1. s \in Seq(Anchors) /\ Len(s) \in Nat /\ Len(s) <= Len(t)
      BY <1>4, HistoryFacts, BoundsAssumption DEF IsPrefix
    <2>2. Append(t, x) \in Seq(Anchors) /\ Len(Append(t, x)) = Len(t) + 1
      BY <1>1
    <2>3. SubSeq(Append(t, x), 1, Len(s)) = SubSeq(t, 1, Len(s))
      BY <1>1, <2>1, <2>2
    <2> QED
      BY <1>1, <1>4, <2>1, <2>2, <2>3 DEF IsPrefix
  <1> QED
    BY <1>2, <1>3, <1>4

\* A bounded set of naturals that has an element has a largest one.
LEMMA LargestExists ==
  ASSUME NEW S, S \subseteq Nat, S # {}, NEW b \in Nat, \A k \in S : k <= b
  PROVE  \E n \in S : \A k \in S : k <= n
  <1> DEFINE T == {n \in Nat : \A k \in S : k <= n}
             R == OpToRel(<, Nat)
  <1>1. T \subseteq Nat /\ T # {}
    OBVIOUS
  <1>2. IsWellFoundedOn(R, Nat)
    BY NatLessThanWellFounded
  <1>3. \E x \in T : \A y \in T : ~(<<y, x>> \in R)
    <2> HIDE DEF T, R
    <2> QED
      BY <1>1, <1>2, WFMin
  <1>4. PICK x \in T : \A y \in T : ~(<<y, x>> \in R)
    BY <1>3
  <1>5. \A y \in T : ~(y < x)
    <2>1. \A y, z \in Nat : y < z => <<y, z>> \in R
      BY DEF OpToRel
    <2> QED
      BY <1>1, <1>4, <2>1
  <1>6. x \in Nat /\ \A k \in S : k <= x
    BY <1>4
  <1>7. PICK k \in S : x = 0 \/ ~(k <= x - 1)
    <2>1. x # 0 => x - 1 \in Nat /\ x - 1 < x
      BY <1>6
    <2> QED
      BY <1>5, <2>1
  <1>8. k = x
    BY <1>6, <1>7
  <1> QED
    BY <1>6, <1>8

\* The longest anchored prefix of a run, as byRun of the import and
\* recoveryBoundary of the context compute it.
LEMMA AnchoredBounded ==
  ASSUME NEW s \in Histories, NEW r \in Runs
  PROVE  Anchored(s, r) \in 0..MaxEvents
  <1> DEFINE S == {s[i].count : i \in {j \in DOMAIN s : s[j].run = r}}
  <1>1. S \subseteq Nat /\ \A k \in S : k <= MaxEvents
    BY HistoryFacts, BoundsAssumption
  <1>2. CASE S = {}
    BY <1>2, BoundsAssumption DEF Anchored
  <1>3. CASE S # {}
    <2>1. \E n \in S : \A k \in S : k <= n
      <3> HIDE DEF S
      <3> QED
        BY <1>1, <1>3, LargestExists, BoundsAssumption
    <2>2. Anchored(s, r) = CHOOSE n \in S : \A k \in S : k <= n
      BY <1>3 DEF Anchored
    <2>3. Anchored(s, r) \in S
      <3> HIDE DEF S
      <3> QED
        BY <2>1, <2>2
    <2> QED
      BY <1>1, <2>3, BoundsAssumption
  <1> QED
    BY <1>2, <1>3

-----------------------------------------------------------------------------
(* Types *)

LEMMA SourceFields ==
  ASSUME NEW src \in Source
  PROVE  /\ src.status \in Statuses
         /\ src.anchors \in Histories
         /\ src.media \in Bodies
         /\ src.length \in [Runs -> 0..MaxEvents]
         /\ src.ended \in SUBSET Runs
  BY DEF Source

LEMMA SeenFields ==
  ASSUME NEW s \in Seen
  PROVE  /\ s.status \in Statuses
         /\ s.count \in 0..MaxCheckpoints
         /\ s.anchors \in Histories
         /\ s.proofs \in Seq(Statuses)
         /\ Len(s.proofs) \in 0..MaxCheckpoints
         /\ s.media \in Bodies
         /\ s.latest \in Histories
         /\ s.tails \in [Runs -> Tails]
         /\ s.begun \in [Runs -> 0..MaxEvents]
  <1>1. s.proofs \in BoundedSeq(Statuses, MaxCheckpoints)
    BY DEF Seen
  <1>2. s.proofs \in Seq(Statuses) /\ Len(s.proofs) \in 0..MaxCheckpoints
    BY <1>1, BoundedSeqIs, BoundsAssumption
  <1> QED
    BY <1>2 DEF Seen

LEMMA NothingSeenType ==
  /\ NothingSeen \in Seen
  /\ NothingSeen.status = "active"
  /\ NothingSeen.anchors = <<>>
  /\ NothingSeen.proofs = <<>>
  /\ Len(NothingSeen.proofs) <= Len(NothingSeen.anchors)
  <1>0. /\ <<>> \in Seq(Anchors) /\ <<>> \in Seq(Statuses)
        /\ Len(<<>>) = 0 /\ 0 <= MaxCheckpoints
    BY BoundsAssumption
  <1>1. <<>> \in Histories
    BY <1>0, HistoryIs
  <1>2. <<>> \in BoundedSeq(Statuses, MaxCheckpoints)
    BY <1>0, BoundedSeqIs, BoundsAssumption
  <1>3. [r \in Runs |-> 0] \in [Runs -> 0..MaxEvents] /\ NoTails \in [Runs -> Tails]
    BY BoundsAssumption DEF NoTails, Tails
  <1>4. 0 \in 0..MaxCheckpoints /\ "active" \in Statuses
    BY BoundsAssumption DEF Statuses
  <1> QED
    BY <1>1, <1>2, <1>3, <1>4 DEF NothingSeen, Seen, Bodies

LEMMA SeenChanges ==
  ASSUME NEW s \in Seen
  PROVE  /\ \A a \in Statuses, n \in 0..MaxCheckpoints, b \in [Runs -> 0..MaxEvents] :
               [s EXCEPT !.status = a, !.count = n, !.begun = b] \in Seen
         /\ \A n \in 0..MaxCheckpoints : [s EXCEPT !.count = n] \in Seen
         /\ \A h \in Histories : [s EXCEPT !.anchors = h] \in Seen
         /\ \A h \in Histories : [s EXCEPT !.latest = h] \in Seen
         /\ \A q \in BoundedSeq(Statuses, MaxCheckpoints) : [s EXCEPT !.proofs = q] \in Seen
         /\ \A b \in Bodies : [s EXCEPT !.media = b] \in Seen
         /\ \A t \in [Runs -> Tails] : [s EXCEPT !.tails = t] \in Seen
  BY DEF Seen

LEMMA ContentsFields ==
  ASSUME NEW content \in Contents
  PROVE  /\ content.status \in Statuses
         /\ content.anchors \in Histories
         /\ content.media \in Bodies
         /\ content.workspace \in BOOLEAN
  BY DEF Contents, Bodies

LEMMA LedgerFields ==
  ASSUME NEW records \in Ledger
  PROVE  /\ records.mission \in Missions \cup {None}
         /\ records.events \in [Events -> Owners]
         /\ records.media \in Bodies
         /\ records.by \in Owners
  BY DEF Ledger

-----------------------------------------------------------------------------
(* Agents at work in the source ledger *)

\* A source ledger only grows, and a completed mission does not grow any more.
Grows ==
    /\ source' \in Source
    /\ \A s \in Histories : IsPrefix(s, source.anchors) => IsPrefix(s, source'.anchors)
    /\ source.status = "completed" =>
          source'.status = "completed" /\ source'.anchors = source.anchors
    /\ \A r \in Runs : source.length[r] <= source'.length[r]

LEMMA SourceGrows ==
  ASSUME CommandInv, SourceStep
  PROVE  Grows
  <1>1. /\ source \in Source
        /\ source.status \in Statuses
        /\ source.anchors \in Histories
        /\ source.media \in Bodies
        /\ source.length \in [Runs -> 0..MaxEvents]
        /\ source.ended \in SUBSET Runs
    BY SourceFields DEF CommandInv, CommandShape
  <1>2. \A r \in Runs : source.length[r] \in Nat /\ source.length[r] <= source.length[r]
    BY <1>1, BoundsAssumption
  <1>3. ASSUME NEW r \in Runs, NEW last \in BOOLEAN, AppendEvent(r, last)
        PROVE  Grows
    <2> DEFINE n == source.length[r] + 1
               longer == [source.length EXCEPT ![r] = n]
               ended == IF last THEN source.ended \cup {r} ELSE source.ended
    <2>1. n \in 0..MaxEvents /\ n >= source.length[r]
      BY <1>1, <1>3, BoundsAssumption DEF AppendEvent
    <2>2. longer \in [Runs -> 0..MaxEvents] /\ \A q \in Runs : source.length[q] <= longer[q]
      BY <1>1, <1>2, <2>1
    <2>3. ended \in SUBSET Runs
      BY <1>1
    <2>4. source' = [source EXCEPT !.length = longer, !.ended = ended]
      BY <1>1, <1>3 DEF AppendEvent, Source
    <2> HIDE DEF longer, ended
    <2>5. /\ source' \in Source
          /\ source'.length = longer
          /\ source'.anchors = source.anchors /\ source'.status = source.status
      BY <1>1, <2>2, <2>3, <2>4 DEF Source
    <2> QED
      BY <2>2, <2>5 DEF Grows
  <1>4. ASSUME NEW r \in Runs, CreateCheckpoint(r)
        PROVE  Grows
    <2> DEFINE x == [run |-> r, count |-> source.length[r]]
    <2>1. x \in Anchors
      BY <1>1 DEF Anchors
    <2> HIDE DEF x
    <2>2. Append(source.anchors, x) \in Histories
      <3>1. source.anchors \in Seq(Anchors) /\ Len(source.anchors) < MaxCheckpoints
        BY <1>1, <1>4, HistoryFacts DEF CreateCheckpoint
      <3>2. /\ Append(source.anchors, x) \in Seq(Anchors)
            /\ Len(Append(source.anchors, x)) <= MaxCheckpoints
        BY <2>1, <3>1, BoundsAssumption
      <3> QED
        BY <3>2, HistoryIs
    <2>3. source' = [source EXCEPT !.anchors = Append(source.anchors, x)]
      BY <1>4 DEF CreateCheckpoint, x
    <2>4. /\ source' \in Source
          /\ source'.anchors = Append(source.anchors, x)
          /\ source'.length = source.length /\ source'.status = source.status
      BY <1>1, <2>2, <2>3 DEF Source
    <2>5. source.status = "active"
      BY <1>4 DEF CreateCheckpoint
    <2> QED
      BY <1>1, <1>2, <2>1, <2>4, <2>5, PrefixFacts DEF Grows
  <1>5. CASE CompleteMission
    <2>1. source' = [source EXCEPT !.status = "completed"]
      BY <1>5 DEF CompleteMission
    <2>2. /\ source' \in Source
          /\ source'.anchors = source.anchors
          /\ source'.length = source.length /\ source'.status = "completed"
      BY <1>1, <2>1 DEF Source, Statuses
    <2> QED
      BY <1>2, <2>2 DEF Grows
  <1>6. ASSUME NEW t \in MediaTypes, StoreBody(t)
        PROVE  Grows
    <2>1. source' = [source EXCEPT !.media = t]
      BY <1>6 DEF StoreBody
    <2>2. /\ source' \in Source
          /\ source'.anchors = source.anchors
          /\ source'.length = source.length /\ source'.status = source.status
      BY <1>1, <2>1 DEF Source, Bodies
    <2> QED
      BY <1>2, <2>2 DEF Grows
  <1> QED
    BY <1>3, <1>4, <1>5, <1>6 DEF SourceStep

LEMMA SourceStepInv ==
  ASSUME Inv, SourceStep
  PROVE  Inv'
  <1>1. Grows
    BY SourceGrows DEF Inv
  <1>2. /\ kind' = kind /\ pc' = pc /\ seen' = seen /\ file' = file
        /\ UNCHANGED importVars
    BY DEF SourceStep
  <1>3. CommandShape'
    BY <1>1, <1>2 DEF Inv, CommandInv, CommandShape, Grows
  <1>4. /\ seen \in Seen /\ seen.anchors \in Histories
        /\ seen.begun \in [Runs -> 0..MaxEvents]
        /\ source.length \in [Runs -> 0..MaxEvents] /\ source'.length \in [Runs -> 0..MaxEvents]
    BY <1>1, SeenFields, SourceFields DEF Inv, CommandInv, CommandShape, Grows
  <1>5. Reading(pc, kind, seen, source')
    <2>1. Reading(pc, kind, seen, source)
      BY DEF Inv, CommandInv
    <2>2. ASSUME kind = "context", NEW r \in Runs
          PROVE  seen.begun[r] <= source'.length[r]
      <3>1. seen.begun[r] <= source.length[r] /\ source.length[r] <= source'.length[r]
        BY <1>1, <2>1, <2>2 DEF Reading, Grows
      <3>2. seen.begun[r] \in Nat /\ source.length[r] \in Nat /\ source'.length[r] \in Nat
        BY <1>4, BoundsAssumption
      <3> QED
        BY <3>1, <3>2
    <2> QED
      BY <1>1, <1>4, <2>1, <2>2 DEF Reading, Grows
  <1>6. Published'
    BY <1>1, <1>2 DEF Inv, CommandInv, Published, Grows
  <1>7. FileSound'
    <2>1. file # None => file.anchors \in Histories
      BY ContentsFields DEF Inv, CommandInv, CommandShape
    <2> QED
      BY <1>1, <1>2, <2>1 DEF Inv, CommandInv, Published, FileSound, Grows
  <1>8. ImportInv'
    BY <1>2 DEF Inv, ImportInv, ImportShape, TxTypeOK, SnapshotCurrent, FileThere, ImportedWhole,
       AllOrNothing, importVars, txVars, Collides, ImportedEvents
  <1> QED
    BY <1>2, <1>3, <1>5, <1>6, <1>7, <1>8 DEF Inv, CommandInv

-----------------------------------------------------------------------------
(* The command that reads the mission *)

\* The command moves without publishing.
LEMMA CommandMoves ==
  ASSUME Inv, UNCHANGED <<source, file, importVars>>, pc # "done",
         NEW l \in Labels, NEW k \in Kinds \cup {None}, NEW s \in Seen,
         pc' = l, kind' = k, seen' = s,
         Reading(l, k, s, source)
  PROVE  Inv'
  <1>1. file = None
    BY DEF Inv, CommandInv, Published
  <1>2. CommandShape'
    BY DEF Inv, CommandInv, CommandShape
  <1>3. Published' /\ FileSound'
    BY <1>1 DEF Published, FileSound
  <1>4. ImportInv'
    BY DEF Inv, ImportInv, ImportShape, TxTypeOK, SnapshotCurrent, FileThere, ImportedWhole,
       AllOrNothing, importVars, txVars, Collides, ImportedEvents
  <1> QED
    BY <1>2, <1>3, <1>4 DEF Inv, CommandInv

\* What a statement of the command starts from.
LEMMA CommandOrigin ==
  ASSUME Inv
  PROVE  /\ pc \in Labels /\ kind \in Kinds \cup {None}
         /\ source \in Source /\ source.anchors \in Histories /\ source.status \in Statuses
         /\ source.length \in [Runs -> 0..MaxEvents] /\ source.media \in Bodies
         /\ seen \in Seen /\ seen.anchors \in Histories /\ seen.latest \in Histories
         /\ Len(source.anchors) \in 0..MaxCheckpoints
         /\ Reading(pc, kind, seen, source)
  <1>1. source \in Source /\ seen \in Seen /\ pc \in Labels /\ kind \in Kinds \cup {None}
        /\ Reading(pc, kind, seen, source)
    BY DEF Inv, CommandInv, CommandShape
  <1> QED
    BY <1>1, SourceFields, SeenFields, HistoryFacts

LEMMA ReadMissionStep ==
  ASSUME Inv, NEW k \in Kinds, ReadMission(k)
  PROVE  Inv'
  <1> DEFINE b == IF k = "context" THEN source.length ELSE NothingSeen.begun
             s == [NothingSeen EXCEPT !.status = source.status,
                                      !.count = Len(source.anchors), !.begun = b]
  <1>1. b \in [Runs -> 0..MaxEvents]
    BY CommandOrigin, NothingSeenType, SeenFields
  <1>2. s \in Seen
    <2> HIDE DEF b
    <2> QED
      BY <1>1, CommandOrigin, NothingSeenType, SeenChanges
  <1>3. /\ s.status = source.status /\ s.anchors = <<>> /\ s.proofs = <<>>
        /\ s.begun = b
    BY DEF NothingSeen
  <1>4. \A r \in Runs : k = "context" => b[r] <= source.length[r]
    BY CommandOrigin, BoundsAssumption
  <1>5. IsPrefix(<<>>, source.anchors)
    BY CommandOrigin, PrefixFacts
  <1>6. Len(<<>>) <= Len(<<>>)
    OBVIOUS
  <1>7. pc' = "checkpoints" /\ kind' = k /\ seen' = s /\ pc # "done"
    BY DEF ReadMission
  <1> HIDE DEF b, s
  <1>8. Reading("checkpoints", k, s, source)
    BY <1>3, <1>4, <1>5, <1>6 DEF Reading
  <1> QED
    BY <1>2, <1>7, <1>8, CommandMoves DEF ReadMission, Labels

LEMMA ReadCheckpointsStep ==
  ASSUME Inv, ReadCheckpoints
  PROVE  Inv'
  <1> DEFINE l == IF kind = "context" THEN "mission again" ELSE "proofs"
             s == [seen EXCEPT !.anchors = source.anchors]
  <1>1. s \in Seen
    BY CommandOrigin, SeenChanges
  <1>2. /\ s.anchors = source.anchors /\ s.status = seen.status
        /\ s.proofs = seen.proofs /\ s.begun = seen.begun
    BY CommandOrigin DEF Seen
  <1>3. IsPrefix(source.anchors, source.anchors)
    BY CommandOrigin, PrefixFacts
  <1>4. Len(seen.proofs) <= Len(source.anchors)
    <2>1. /\ Len(seen.proofs) <= Len(seen.anchors)
          /\ IsPrefix(seen.anchors, source.anchors)
      BY CommandOrigin DEF Reading
    <2>2. /\ Len(seen.proofs) \in Nat /\ Len(seen.anchors) \in Nat
          /\ Len(source.anchors) \in Nat
      BY CommandOrigin, SeenFields, HistoryFacts, BoundsAssumption
    <2> QED
      BY <2>1, <2>2 DEF IsPrefix
  <1>5. /\ pc = "checkpoints" /\ pc' = l /\ kind' = kind /\ seen' = s
        /\ UNCHANGED <<source, file, importVars>>
    BY DEF ReadCheckpoints, Reads
  <1> HIDE DEF s
  <1>6. Reading(l, kind, s, source)
    BY <1>2, <1>3, <1>4, <1>5, CommandOrigin DEF Reading
  <1> QED
    BY <1>1, <1>5, <1>6, CommandOrigin, CommandMoves DEF Labels

LEMMA ReadRunProofStep ==
  ASSUME Inv, ReadRunProof
  PROVE  Inv'
  <1>1. PICK status \in Statuses : seen' = [seen EXCEPT !.proofs = Append(seen.proofs, status)]
    BY DEF ReadRunProof, Statuses
  <1> DEFINE q == Append(seen.proofs, status)
             s == [seen EXCEPT !.proofs = q]
  <1>2. /\ pc = "proofs" /\ pc' = "proofs" /\ kind' = kind /\ seen' = s
        /\ Len(seen.proofs) < Len(seen.anchors)
        /\ UNCHANGED <<source, file, importVars>>
    BY <1>1 DEF ReadRunProof, Reads
  <1>3. /\ seen.proofs \in Seq(Statuses) /\ Len(seen.proofs) \in Nat
        /\ Len(seen.anchors) \in 0..MaxCheckpoints
    BY CommandOrigin, SeenFields, HistoryFacts, BoundsAssumption
  <1>4. q \in Seq(Statuses) /\ Len(q) = Len(seen.proofs) + 1
    BY <1>3
  <1>5. Len(q) <= MaxCheckpoints /\ Len(q) <= Len(seen.anchors)
    BY <1>2, <1>3, <1>4, BoundsAssumption
  <1>6. q \in BoundedSeq(Statuses, MaxCheckpoints)
    BY <1>4, <1>5, BoundedSeqIs, BoundsAssumption
  <1> HIDE DEF q
  <1>7. s \in Seen
    BY <1>6, CommandOrigin, SeenChanges
  <1>8. /\ s.anchors = seen.anchors /\ s.status = seen.status
        /\ s.proofs = q /\ s.begun = seen.begun
    BY CommandOrigin DEF Seen
  <1> HIDE DEF s
  <1>9. Reading("proofs", kind, s, source)
    BY <1>2, <1>5, <1>8, CommandOrigin DEF Reading
  <1> QED
    BY <1>2, <1>7, <1>9, CommandOrigin, CommandMoves DEF Labels

LEMMA FinishBundleStep ==
  ASSUME Inv, FinishBundle
  PROVE  Inv'
  <1> DEFINE l == IF kind = "workspace" THEN "artifacts" ELSE "publish"
  <1>1. /\ pc = "proofs" /\ pc' = l /\ kind' = kind /\ seen' = seen
        /\ BundleVerifies(seen)
        /\ UNCHANGED <<source, file, importVars>>
    BY DEF FinishBundle, ProofsRead, Reads
  <1>2. Reading(l, kind, seen, source)
    BY <1>1, CommandOrigin DEF Reading
  <1> QED
    BY <1>1, <1>2, CommandOrigin, CommandMoves DEF Labels

LEMMA LoadArtifactsStep ==
  ASSUME Inv, LoadArtifacts
  PROVE  Inv'
  <1> DEFINE b == IF Cited(seen) = {} THEN None ELSE source.media
             s == [seen EXCEPT !.media = b]
  <1>1. /\ pc = "artifacts" /\ pc' = "verify" /\ kind' = kind /\ seen' = s
        /\ Cited(seen) # {} => source.media # None
        /\ Cited(seen) \subseteq {None, source.media}
        /\ UNCHANGED <<source, file, importVars>>
    BY DEF LoadArtifacts, Reads
  <1>2. b \in Bodies
    BY CommandOrigin DEF Bodies
  <1>3. (Cited(seen) # {} => b # None) /\ Cited(seen) \subseteq {None, b}
    BY <1>1
  <1> HIDE DEF b
  <1>4. s \in Seen
    BY <1>2, CommandOrigin, SeenChanges
  <1>5. /\ s.anchors = seen.anchors /\ s.status = seen.status /\ s.count = seen.count
        /\ s.proofs = seen.proofs /\ s.begun = seen.begun /\ s.media = b
    BY CommandOrigin DEF Seen
  <1> HIDE DEF s
  <1>6. BodyFits(s)
    BY <1>3, <1>5 DEF BodyFits, Cited
  <1>7. Reading("verify", kind, s, source)
    BY <1>1, <1>5, <1>6, CommandOrigin DEF Reading, BundleVerifies
  <1> QED
    BY <1>1, <1>4, <1>7, CommandOrigin, CommandMoves DEF Labels

LEMMA VerifyStageStep ==
  ASSUME Inv, VerifyStage
  PROVE  Inv'
  <1>1. /\ pc = "verify" /\ pc' = "publish" /\ kind' = kind /\ seen' = seen
        /\ Importable(seen)
        /\ UNCHANGED <<source, file, importVars>>
    BY DEF VerifyStage, Reads
  <1>2. Reading("publish", kind, seen, source)
    BY <1>1, CommandOrigin DEF Reading
  <1> QED
    BY <1>1, <1>2, CommandOrigin, CommandMoves DEF Labels

LEMMA CommandFailsStep ==
  ASSUME Inv, CommandFails
  PROVE  Inv'
  <1>1. Reading("idle", None, NothingSeen, source)
    <2>1. IsPrefix(<<>>, source.anchors)
      BY CommandOrigin, PrefixFacts
    <2>2. None = "context" => \A r \in Runs : NothingSeen.begun[r] <= source.length[r]
      <3>1. \A r \in Runs : 0 <= source.length[r]
        BY CommandOrigin, BoundsAssumption
      <3> QED
        BY <3>1 DEF NothingSeen
    <2> QED
      BY <2>1, <2>2, NothingSeenType DEF Reading
  <1>2. /\ UNCHANGED <<source, file, importVars>>
        /\ pc # "done" /\ pc' = "idle" /\ kind' = None /\ seen' = NothingSeen
    BY DEF CommandFails
  <1> QED
    BY <1>1, <1>2, NothingSeenType, CommandMoves DEF Labels

LEMMA ReadMissionAgainStep ==
  ASSUME Inv, ReadMissionAgain
  PROVE  Inv'
  <1> DEFINE s == [seen EXCEPT !.count = Len(source.anchors)]
  <1>1. s \in Seen
    BY CommandOrigin, SeenChanges
  <1>2. /\ s.anchors = seen.anchors /\ s.status = seen.status
        /\ s.proofs = seen.proofs /\ s.begun = seen.begun
    BY CommandOrigin DEF Seen
  <1>3. /\ pc = "mission again" /\ pc' = "verify mission" /\ kind' = kind /\ seen' = s
        /\ UNCHANGED <<source, file, importVars>>
    BY DEF ReadMissionAgain, Reads
  <1> HIDE DEF s
  <1>4. Reading("verify mission", kind, s, source)
    BY <1>2, <1>3, CommandOrigin DEF Reading
  <1> QED
    BY <1>1, <1>3, <1>4, CommandOrigin, CommandMoves DEF Labels

LEMMA VerifyMissionStep ==
  ASSUME Inv, VerifyMission
  PROVE  Inv'
  <1>1. /\ pc = "verify mission" /\ pc' = "latest" /\ kind' = kind /\ seen' = seen
        /\ UNCHANGED <<source, file, importVars>>
    BY DEF VerifyMission, Reads
  <1>2. Reading("latest", kind, seen, source)
    BY <1>1, CommandOrigin DEF Reading
  <1> QED
    BY <1>1, <1>2, CommandOrigin, CommandMoves DEF Labels

LEMMA ReadLatestStep ==
  ASSUME Inv, ReadLatest
  PROVE  Inv'
  <1> DEFINE s == [seen EXCEPT !.latest = source.anchors]
  <1>1. s \in Seen
    BY CommandOrigin, SeenChanges
  <1>2. /\ s.anchors = seen.anchors /\ s.status = seen.status
        /\ s.proofs = seen.proofs /\ s.begun = seen.begun
    BY CommandOrigin DEF Seen
  <1>3. /\ pc = "latest" /\ pc' = "runs" /\ kind' = kind /\ seen' = s
        /\ UNCHANGED <<source, file, importVars>>
    BY DEF ReadLatest, Reads
  <1> HIDE DEF s
  <1>4. Reading("runs", kind, s, source)
    BY <1>2, <1>3, CommandOrigin DEF Reading
  <1> QED
    BY <1>1, <1>3, <1>4, CommandOrigin, CommandMoves DEF Labels

\* The tail of a run, from the anchor of the latest checkpoint to its last event;
\* a run that had begun has a tail, or the checkpoint covers what it had.
LEMMA TailsListed ==
  ASSUME Inv, NEW r \in Runs
  PROVE  /\ TailOf(r) \in Tails
         /\ \A n \in 0..MaxEvents : n <= source.length[r] =>
               \/ n <= Anchored(seen.latest, r)
               \/ TailOf(r).from = Anchored(seen.latest, r) /\ TailOf(r).to >= n
  <1> DEFINE from == Anchored(seen.latest, r)
             to == source.length[r]
  <1>1. from \in 0..MaxEvents /\ to \in 0..MaxEvents /\ 0 \in 0..MaxEvents
    BY CommandOrigin, AnchoredBounded, BoundsAssumption
  <1> HIDE DEF from, to
  <1>2. TailOf(r) = IF to > from THEN [from |-> from, to |-> to] ELSE [from |-> 0, to |-> 0]
    BY DEF TailOf, NoTails, from, to
  <1>3. TailOf(r) \in Tails
    BY <1>1, <1>2 DEF Tails
  <1>4. CASE to > from
    <2>1. TailOf(r).from = from /\ TailOf(r).to = to
      BY <1>2, <1>4
    <2> QED
      BY <1>3, <2>1 DEF from, to
  <1>5. CASE ~(to > from)
    <2>1. \A n \in 0..MaxEvents : n <= to => n <= from
      BY <1>1, <1>5, BoundsAssumption
    <2> QED
      BY <1>3, <2>1 DEF from, to
  <1> QED
    BY <1>4, <1>5

LEMMA ReadRunsStep ==
  ASSUME Inv, ReadRuns
  PROVE  Inv'
  <1> DEFINE t == [r \in Runs |-> TailOf(r)]
             s == [seen EXCEPT !.tails = t]
  <1>1. /\ pc = "runs" /\ pc' = "done" /\ kind' = kind /\ seen' = s
        /\ UNCHANGED <<source, file, importVars>>
    BY DEF ReadRuns, Reads
  <1>2. t \in [Runs -> Tails] /\ \A r \in Runs : t[r] = TailOf(r)
    BY TailsListed
  <1> HIDE DEF t
  <1>3. s \in Seen
    BY <1>2, CommandOrigin, SeenChanges
  <1>4. /\ s.anchors = seen.anchors /\ s.status = seen.status /\ s.latest = seen.latest
        /\ s.proofs = seen.proofs /\ s.begun = seen.begun /\ s.tails = t
    BY CommandOrigin DEF Seen
  <1> HIDE DEF s
  <1>5. \A r \in Runs : seen.begun[r] \in 0..MaxEvents /\ seen.begun[r] <= source.length[r]
    <2>1. seen.begun \in [Runs -> 0..MaxEvents]
      BY CommandOrigin, SeenFields
    <2> QED
      BY <1>1, <2>1, CommandOrigin DEF Reading
  <1>6. Listed(s)
    <2> SUFFICES ASSUME s.latest = s.anchors, NEW r \in Runs
                 PROVE  \/ s.begun[r] <= Anchored(s.anchors, r)
                        \/ /\ s.tails[r].from = Anchored(s.anchors, r)
                           /\ s.tails[r].to >= s.begun[r]
      BY DEF Listed
    <2>1. \/ seen.begun[r] <= Anchored(seen.latest, r)
          \/ /\ TailOf(r).from = Anchored(seen.latest, r)
             /\ TailOf(r).to >= seen.begun[r]
      BY <1>5, TailsListed
    <2> QED
      BY <1>2, <1>4, <2>1
  <1>7. Reading("done", kind, s, source)
    BY <1>1, <1>4, <1>6, CommandOrigin DEF Reading
  <1> QED
    BY <1>1, <1>3, <1>7, CommandOrigin, CommandMoves DEF Labels

\* What is published is what was read; no importer has a file yet.
LEMMA PublishStep ==
  ASSUME Inv, Publish
  PROVE  Inv'
  <1> DEFINE f == [status |-> seen.status, count |-> seen.count, anchors |-> seen.anchors,
                   proofs |-> seen.proofs, media |-> seen.media,
                   workspace |-> kind = "workspace"]
  <1>1. /\ pc = "publish" /\ file = None /\ file' = f
        /\ pc' = "done" /\ kind' = kind /\ seen' = NothingSeen
        /\ source' = source /\ UNCHANGED importVars
    BY DEF Publish
  <1>2. f \in Contents
    BY CommandOrigin DEF Contents, Seen, Bodies
  <1>3. /\ f.status = seen.status /\ f.count = seen.count /\ f.anchors = seen.anchors
        /\ f.proofs = seen.proofs /\ f.media = seen.media
        /\ f.workspace = (kind = "workspace")
    OBVIOUS
  <1> HIDE DEF f
  <1>4. kind # "context" /\ kind \in Kinds /\ Reading("publish", kind, seen, source)
    BY <1>1, CommandOrigin DEF Reading
  <1>5. Reading("done", kind, NothingSeen, source)
    <2>1. IsPrefix(<<>>, source.anchors)
      BY CommandOrigin, PrefixFacts
    <2> QED
      BY <1>4, <2>1, NothingSeenType DEF Reading
  <1>6. CommandShape'
    BY <1>1, <1>2, NothingSeenType DEF Inv, CommandInv, CommandShape, Labels
  <1>7. Published'
    BY <1>1, <1>3, <1>4 DEF Published, Reading
  <1>8. FileSound'
    <2>1. /\ f.count = Len(f.anchors)
          /\ IsPrefix(f.anchors, source.anchors)
          /\ f.status = "completed" => f.anchors = source.anchors
      BY <1>3, <1>4 DEF Reading, BundleVerifies
    <2>2. kind = "workspace" => /\ Importable(f)
                                /\ Cited(f) # {} => f.media # None
                                /\ Cited(f) \subseteq {None, f.media}
      <3>1. kind = "workspace" => Importable(seen) /\ BodyFits(seen)
        BY <1>4 DEF Reading
      <3>2. Importable(seen) => Importable(f)
        BY <1>3 DEF Importable
      <3>3. Cited(f) = Cited(seen)
        BY <1>3 DEF Cited
      <3> QED
        BY <1>3, <3>1, <3>2, <3>3 DEF BodyFits
    <2> QED
      BY <1>1, <1>3, <2>1, <2>2 DEF FileSound
  <1>9. /\ \A p \in Procs : step[p] = "idle"
        /\ ledger.mission = None
    BY <1>1 DEF Inv, ImportInv, FileThere
  <1>10. ImportInv'
    <2>1. /\ ledger' = ledger /\ step' = step /\ attempt' = attempt
          /\ fresh' = fresh /\ writer' = writer
      BY <1>1 DEF importVars, txVars
    <2>2. ImportShape' /\ AllOrNothing'
      BY <2>1 DEF Inv, ImportInv, ImportShape, TxTypeOK, AllOrNothing
    <2>3. SnapshotCurrent'
      <3>1. \A p \in Procs : /\ writer = {p} <=> step[p] = "commit"
                             /\ p \notin fresh
        BY <1>9 DEF Inv, ImportInv, SnapshotCurrent
      <3> QED
        BY <1>9, <2>1, <3>1 DEF SnapshotCurrent
    <2>4. FileThere' /\ ImportedWhole'
      BY <1>9, <2>1 DEF FileThere, ImportedWhole
    <2> QED
      BY <2>2, <2>3, <2>4 DEF ImportInv
  <1> QED
    BY <1>1, <1>5, <1>6, <1>7, <1>8, <1>10 DEF Inv, CommandInv

LEMMA CommandStep ==
  ASSUME Inv, Command
  PROVE  Inv'
  BY ReadMissionStep, ReadCheckpointsStep, ReadRunProofStep, FinishBundleStep,
     LoadArtifactsStep, VerifyStageStep, PublishStep, CommandFailsStep,
     ReadMissionAgainStep, VerifyMissionStep, ReadLatestStep, ReadRunsStep
  DEF Command, Kinds

-----------------------------------------------------------------------------
(* The destination *)

LEMMA CommandKept ==
  ASSUME Inv, UNCHANGED sourceVars
  PROVE  CommandInv'
  <1>1. /\ source' = source /\ kind' = kind /\ pc' = pc /\ seen' = seen /\ file' = file
    BY DEF sourceVars
  <1>2. CommandShape' /\ Published' /\ FileSound'
    BY <1>1 DEF Inv, CommandInv, CommandShape, Published, FileSound
  <1> QED
    BY <1>1, <1>2 DEF Inv, CommandInv

LEMMA ImportOrigin ==
  ASSUME Inv
  PROVE  /\ ledger \in Ledger
         /\ step \in [Procs -> Steps]
         /\ attempt \in [Procs -> 0..MaxAttempts]
         /\ fresh \in SUBSET Procs
         /\ \A p \in Procs : writer = {p} <=> step[p] = "commit"
         /\ \A p \in Procs : p \in fresh => step[p] \in {"insert", "commit"} /\ ~Collides(file)
         /\ \A p \in Procs : step[p] = "commit" => p \in fresh
         /\ \A p \in Procs : step[p] # "idle" => file # None
  BY DEF Inv, ImportInv, ImportShape, TxTypeOK, SnapshotCurrent, FileThere

\* An importer moves without changing the ledger.
LEMMA ImporterMoves ==
  ASSUME Inv, UNCHANGED <<sourceVars, ledger>>,
         NEW p \in Procs, NEW l \in Steps, NEW n \in 0..MaxAttempts,
         step' = [step EXCEPT ![p] = l],
         attempt' = [attempt EXCEPT ![p] = n],
         TxTypeOK',
         \A q \in Procs \ {p} : /\ q \in fresh' => q \in fresh
                                /\ q \in fresh => q \in fresh'
                                /\ writer' = {q} <=> writer = {q},
         writer' = {p} <=> l = "commit",
         p \in fresh' => l \in {"insert", "commit"} /\ ~Collides(file),
         l = "commit" => p \in fresh',
         l # "idle" => file # None
  PROVE  Inv'
  <1>1. CommandInv'
    BY CommandKept
  <1>2. file' = file /\ ledger' = ledger
    BY DEF sourceVars
  <1>3. ImportShape'
    BY <1>2, ImportOrigin DEF ImportShape
  <1>4. SnapshotCurrent'
    <2> SUFFICES ASSUME NEW q \in Procs
                 PROVE  /\ writer' = {q} <=> step'[q] = "commit"
                        /\ q \in fresh' => step'[q] \in {"insert", "commit"} /\ ~Collides(file)
                        /\ step'[q] = "commit" => q \in fresh'
      BY <1>2 DEF SnapshotCurrent, Collides
    <2>1. CASE q = p
      BY <2>1, ImportOrigin
    <2>2. CASE q # p
      <3>1. step'[q] = step[q]
        BY <2>2, ImportOrigin
      <3> QED
        BY <2>2, <3>1, ImportOrigin
    <2> QED
      BY <2>1, <2>2
  <1>5. FileThere'
    <2>1. \A q \in Procs : step'[q] # "idle" => file # None
      BY ImportOrigin
    <2> QED
      BY <1>2, <2>1 DEF FileThere, Inv, ImportInv
  <1>6. ImportedWhole' /\ AllOrNothing'
    BY <1>2 DEF ImportedWhole, AllOrNothing, Inv, ImportInv
  <1> QED
    BY <1>1, <1>3, <1>4, <1>5, <1>6 DEF Inv, ImportInv

\* An importer outside its transaction that leaves the lock and snapshots alone.
LEMMA ImporterOutside ==
  ASSUME Inv, UNCHANGED <<sourceVars, ledger, txVars>>,
         NEW p \in Procs, step[p] \notin {"insert", "commit"},
         NEW l \in Steps, l \notin {"insert", "commit"},
         NEW n \in 0..MaxAttempts,
         step' = [step EXCEPT ![p] = l],
         attempt' = [attempt EXCEPT ![p] = n],
         l # "idle" => file # None
  PROVE  Inv'
  <1>1. fresh' = fresh /\ writer' = writer
    BY DEF txVars
  <1>2. p \notin fresh /\ writer # {p}
    BY ImportOrigin
  <1>3. TxTypeOK'
    BY <1>1 DEF Inv, ImportInv, ImportShape, TxTypeOK
  <1> QED
    BY <1>1, <1>2, <1>3, ImporterMoves

\* An importer rolls back.
LEMMA ImporterRollsBack ==
  ASSUME Inv, UNCHANGED <<sourceVars, ledger>>,
         NEW p \in Procs, TxRollback(p),
         NEW l \in Steps, l \notin {"idle", "insert", "commit"}, step[p] # "idle",
         NEW n \in 0..MaxAttempts,
         step' = [step EXCEPT ![p] = l],
         attempt' = [attempt EXCEPT ![p] = n]
  PROVE  Inv'
  <1>1. writer' = writer \ {p} /\ fresh' = fresh \ {p}
    BY DEF TxRollback
  <1>2. TxTypeOK
    BY DEF Inv, ImportInv, ImportShape
  <1>3. TxTypeOK'
    BY <1>1, <1>2 DEF TxTypeOK
  <1>4. \A q \in Procs \ {p} : writer' = {q} <=> writer = {q}
    BY <1>1, <1>2 DEF TxTypeOK
  <1>5. writer' # {p} /\ p \notin fresh'
    BY <1>1
  <1>6. \A q \in Procs \ {p} : (q \in fresh' => q \in fresh) /\ (q \in fresh => q \in fresh')
    BY <1>1
  <1>7. file # None
    BY ImportOrigin
  <1> QED
    BY <1>3, <1>4, <1>5, <1>6, <1>7, ImporterMoves

LEMMA AttemptUntouched ==
  ASSUME Inv, NEW p \in Procs
  PROVE  /\ attempt[p] \in 0..MaxAttempts
         /\ attempt' = attempt => attempt' = [attempt EXCEPT ![p] = attempt[p]]
  BY ImportOrigin

LEMMA VerifyFileStep ==
  ASSUME Inv, NEW p \in Procs, VerifyFile(p)
  PROVE  Inv'
  <1>1. PICK l \in {"begin", "invalid"} : step' = [step EXCEPT ![p] = l]
    BY DEF VerifyFile, Step
  <1>2. /\ UNCHANGED <<sourceVars, ledger, txVars>>
        /\ step[p] = "idle" /\ file # None
        /\ attempt' = [attempt EXCEPT ![p] = 1]
    BY DEF VerifyFile, At
  <1>3. 1 \in 0..MaxAttempts
    BY BoundsAssumption
  <1> QED
    BY <1>1, <1>2, <1>3, ImporterOutside DEF Steps

LEMMA CheckCollisionsStep ==
  ASSUME Inv, NEW p \in Procs, CheckCollisions(p)
  PROVE  Inv'
  <1>1. /\ UNCHANGED <<sourceVars, ledger>>
        /\ step[p] = "begin" /\ file # None
        /\ attempt[p] \in 0..MaxAttempts
        /\ attempt' = [attempt EXCEPT ![p] = attempt[p]]
    BY AttemptUntouched, ImportOrigin DEF CheckCollisions, At
  <1>2. CASE ~Collides(file) /\ TxSnapshot(p) /\ Step(p, "insert")
    <2>1. /\ fresh' = fresh \cup {p} /\ writer' = writer
          /\ step' = [step EXCEPT ![p] = "insert"]
      BY <1>2 DEF TxSnapshot, Step
    <2>2. TxTypeOK' /\ writer # {p}
      BY <1>1, <2>1, ImportOrigin DEF Inv, ImportInv, ImportShape, TxTypeOK
    <2>3. "insert" \in Steps
      BY DEF Steps
    <2>4. \A q \in Procs \ {p} : /\ q \in fresh' => q \in fresh
                                 /\ q \in fresh => q \in fresh'
                                 /\ writer' = {q} <=> writer = {q}
      BY <2>1
    <2>5. writer' # {p} /\ p \in fresh'
      BY <2>1, <2>2
    <2> QED
      BY <1>1, <1>2, <2>1, <2>2, <2>3, <2>4, <2>5, ImporterMoves
  <1>3. CASE Collides(file) /\ UNCHANGED txVars /\ Step(p, "collision")
    <2>1. step' = [step EXCEPT ![p] = "collision"] /\ "collision" \in Steps
      BY <1>3 DEF Step, Steps
    <2>2. UNCHANGED <<sourceVars, ledger, txVars>>
      BY <1>1, <1>3
    <2> QED
      BY <1>1, <2>1, <2>2, ImporterOutside
  <1> QED
    BY <1>2, <1>3 DEF CheckCollisions

LEMMA InsertStep ==
  ASSUME Inv, NEW p \in Procs, Insert(p)
  PROVE  Inv'
  <1>1. /\ UNCHANGED <<sourceVars, ledger>>
        /\ step[p] = "insert" /\ file # None
        /\ attempt[p] \in 0..MaxAttempts
        /\ attempt' = [attempt EXCEPT ![p] = attempt[p]]
        /\ step' = [step EXCEPT ![p] = "commit"] /\ "commit" \in Steps
    BY AttemptUntouched, ImportOrigin DEF Insert, At, Step, Steps
  <1>2. /\ writer = {} /\ p \in fresh
        /\ writer' = {p} /\ fresh' = fresh
    BY DEF Insert, TxLock, TxMayWrite
  <1>3. TxTypeOK'
    BY <1>2 DEF Inv, ImportInv, ImportShape, TxTypeOK
  <1>4. \A q \in Procs \ {p} : /\ q \in fresh' => q \in fresh
                               /\ q \in fresh => q \in fresh'
                               /\ writer' = {q} <=> writer = {q}
    BY <1>2
  <1>5. ~Collides(file)
    BY <1>2, ImportOrigin
  <1> QED
    BY <1>1, <1>2, <1>3, <1>4, <1>5, ImporterMoves

LEMMA ContentionStep ==
  ASSUME Inv, NEW p \in Procs, Contention(p)
  PROVE  Inv'
  <1>1. UNCHANGED <<sourceVars, ledger>> /\ step[p] = "insert" /\ TxRollback(p)
    BY DEF Contention, At
  <1>2. CASE /\ attempt[p] < MaxAttempts
             /\ Step(p, "begin") /\ attempt' = [attempt EXCEPT ![p] = @ + 1]
    <2>0. attempt[p] \in 0..MaxAttempts /\ attempt[p] < MaxAttempts /\ MaxAttempts \in Nat
      BY <1>2, AttemptUntouched, BoundsAssumption
    <2>1. attempt[p] + 1 \in 0..MaxAttempts
      BY <2>0
    <2>2. /\ attempt' = [attempt EXCEPT ![p] = attempt[p] + 1]
          /\ step' = [step EXCEPT ![p] = "begin"] /\ "begin" \in Steps
      BY <1>2 DEF Step, Steps
    <2> QED
      BY <1>1, <2>1, <2>2, ImporterRollsBack
  <1>3. CASE Step(p, "exhausted") /\ UNCHANGED attempt
    <2>1. /\ attempt' = [attempt EXCEPT ![p] = attempt[p]] /\ attempt[p] \in 0..MaxAttempts
          /\ step' = [step EXCEPT ![p] = "exhausted"] /\ "exhausted" \in Steps
      BY <1>3, AttemptUntouched DEF Step, Steps
    <2> QED
      BY <1>1, <2>1, ImporterRollsBack
  <1> QED
    BY <1>2, <1>3 DEF Contention

LEMMA ImportFailsStep ==
  ASSUME Inv, NEW p \in Procs, ImportFails(p)
  PROVE  Inv'
  <1>1. /\ UNCHANGED <<sourceVars, ledger>> /\ step[p] # "idle" /\ TxRollback(p)
        /\ attempt' = [attempt EXCEPT ![p] = attempt[p]] /\ attempt[p] \in 0..MaxAttempts
        /\ step' = [step EXCEPT ![p] = "failed"] /\ "failed" \in Steps
    BY AttemptUntouched DEF ImportFails, Step, Steps
  <1> QED
    BY <1>1, ImporterRollsBack

LEMMA ImportAgainStep ==
  ASSUME Inv, NEW p \in Procs, ImportAgain(p)
  PROVE  Inv'
  <1>1. /\ UNCHANGED <<sourceVars, ledger, txVars>>
        /\ step[p] \notin {"insert", "commit"}
        /\ attempt' = [attempt EXCEPT ![p] = attempt[p]] /\ attempt[p] \in 0..MaxAttempts
        /\ step' = [step EXCEPT ![p] = "idle"] /\ "idle" \in Steps
    BY AttemptUntouched DEF ImportAgain, Step, Steps
  <1> QED
    BY <1>1, ImporterOutside

-----------------------------------------------------------------------------
(* Changes of the destination *)

LEMMA LedgerChanges ==
  ASSUME NEW records \in Ledger
  PROVE  /\ \A f \in [Events -> Owners] : [records EXCEPT !.events = f] \in Ledger
         /\ \A b \in Bodies, o \in Owners : [records EXCEPT !.media = b, !.by = o] \in Ledger
         /\ \A m \in Missions, f \in [Events -> Owners] :
               [records EXCEPT !.mission = m, !.events = f] \in Ledger
  BY DEF Ledger

\* What a collector or another user does not change: the mission, what was
\* imported, and the body once it is there.
LocalEffect ==
    /\ ledger' \in Ledger
    /\ ledger'.mission = ledger.mission
    /\ \A e \in Events : ledger'.events[e] = "imported" <=> ledger.events[e] = "imported"
    /\ ledger.media # None => ledger'.media = ledger.media
    /\ ledger'.by = "imported" => ledger.by = "imported"

\* Their statement makes every snapshot stale.
LEMMA LocalStepInv ==
  ASSUME Inv, LocalStep
  PROVE  Inv'
  <1>1. /\ UNCHANGED sourceVars /\ file' = file
        /\ step' = step /\ attempt' = attempt
        /\ writer = {} /\ writer' = {} /\ fresh' = {}
    BY DEF LocalStep, TxStatement, sourceVars
  <1>2. CommandInv'
    BY <1>1, CommandKept
  <1>3. /\ ledger \in Ledger /\ ledger.media \in Bodies
        /\ ledger.events \in [Events -> Owners]
    BY ImportOrigin, LedgerFields
  <1>4. LocalEffect
    <2>1. ASSUME NEW e \in Events, CollectLocally(e)
          PROVE  LocalEffect
      <3> DEFINE f == [ledger.events EXCEPT ![e] = "local"]
      <3>1. /\ f \in [Events -> Owners]
            /\ ledger.events[e] = "absent"
            /\ \A d \in Events : f[d] = "imported" <=> ledger.events[d] = "imported"
        BY <1>3, <2>1 DEF CollectLocally, Owners
      <3>2. ledger' = [ledger EXCEPT !.events = f]
        BY <2>1 DEF CollectLocally
      <3> HIDE DEF f
      <3>3. /\ ledger' \in Ledger
            /\ ledger'.mission = ledger.mission /\ ledger'.events = f
            /\ ledger'.media = ledger.media /\ ledger'.by = ledger.by
        BY <1>3, <3>1, <3>2 DEF Ledger
      <3> QED
        BY <3>1, <3>3 DEF LocalEffect
    <2>2. ASSUME NEW t \in MediaTypes, PutArtifact(t)
          PROVE  LocalEffect
      <3>1. /\ ledger.media = None
            /\ ledger' = [ledger EXCEPT !.media = t, !.by = "local"]
            /\ t \in Bodies /\ "local" \in Owners
        BY <2>2 DEF PutArtifact, Bodies, Owners
      <3>2. /\ ledger' \in Ledger
            /\ ledger'.mission = ledger.mission /\ ledger'.events = ledger.events
            /\ ledger'.by = "local"
        BY <1>3, <3>1 DEF Ledger
      <3> QED
        BY <3>1, <3>2 DEF LocalEffect
    <2> QED
      BY <2>1, <2>2 DEF LocalStep
  <1>5. ImportShape'
    BY <1>1, <1>4, ImportOrigin DEF LocalEffect, ImportShape, TxTypeOK
  <1>6. SnapshotCurrent'
    <2>1. \A p \in Procs : step[p] # "commit"
      BY <1>1, ImportOrigin
    <2> QED
      BY <1>1, <2>1 DEF SnapshotCurrent
  <1>7. FileThere'
    BY <1>1, <1>4 DEF LocalEffect, FileThere, Inv, ImportInv
  <1>8. ImportedWhole'
    <2> SUFFICES ASSUME ledger.mission # None
                 PROVE  /\ ledger'.mission.anchors = file.anchors
                        /\ \A e \in AnchoredEvents(file.anchors) : ledger'.events[e] = "imported"
                        /\ file.media # None => ledger'.media = file.media
      BY <1>1, <1>4 DEF LocalEffect, ImportedWhole
    <2>1. AnchoredEvents(file.anchors) \subseteq Events
      BY DEF AnchoredEvents
    <2> QED
      BY <1>4, <2>1 DEF LocalEffect, ImportedWhole, Inv, ImportInv
  <1>9. AllOrNothing'
    BY <1>4 DEF LocalEffect, AllOrNothing, Inv, ImportInv
  <1> QED
    BY <1>2, <1>5, <1>6, <1>7, <1>8, <1>9 DEF Inv, ImportInv

\* The commit puts the whole mission where nothing of it was.
LEMMA CommitStep ==
  ASSUME Inv, NEW p \in Procs, Commit(p)
  PROVE  Inv'
  <1> DEFINE m == [status |-> file.status, anchors |-> file.anchors]
             f == [e \in Events |-> IF e \in ImportedEvents(file) THEN "imported"
                                                                 ELSE ledger.events[e]]
             records == [ledger EXCEPT !.mission = m, !.events = f]
  <1>1. /\ UNCHANGED sourceVars /\ file' = file
        /\ step[p] = "commit" /\ step' = [step EXCEPT ![p] = "imported"]
        /\ attempt' = attempt
        /\ writer = {p} /\ writer' = {} /\ fresh' = {}
        /\ ledger' = WithBody(records)
    BY DEF Commit, At, Step, TxCommit, sourceVars
  <1>2. CommandInv'
    BY <1>1, CommandKept
  <1>3. file # None /\ ~Collides(file) /\ ledger \in Ledger
    BY <1>1, ImportOrigin
  <1>4. file \in Contents
    BY <1>3 DEF Inv, CommandInv, CommandShape
  <1>5. /\ m \in Missions /\ m.anchors = file.anchors
        /\ file.media \in Bodies
    BY <1>4, ContentsFields DEF Missions
  <1>6. /\ f \in [Events -> Owners]
        /\ \A e \in ImportedEvents(file) : f[e] = "imported"
    <2>1. ledger.events \in [Events -> Owners]
      BY <1>3, LedgerFields
    <2>2. ImportedEvents(file) \subseteq Events
      BY DEF ImportedEvents, AnchoredEvents
    <2> QED
      BY <2>1, <2>2 DEF Owners
  <1>7. file.media # None => ledger.media \in {None, file.media}
    BY <1>3 DEF Collides
  <1> HIDE DEF m, f
  <1>8. /\ records \in Ledger
        /\ records.mission = m /\ records.events = f /\ records.media = ledger.media
    BY <1>3, <1>5, <1>6 DEF Ledger
  <1> HIDE DEF records
  <1>9. /\ ledger' \in Ledger
        /\ ledger'.mission = m /\ ledger'.events = f
        /\ file.media # None => ledger'.media = file.media
    <2>1. CASE records.media # None \/ file.media = None
      BY <1>1, <1>7, <1>8, <2>1 DEF WithBody
    <2>2. CASE ~(records.media # None \/ file.media = None)
      <3>1. ledger' = [records EXCEPT !.media = file.media, !.by = "imported"]
        BY <1>1, <2>2 DEF WithBody
      <3> QED
        BY <1>5, <1>8, <3>1 DEF Ledger, Owners
    <2> QED
      BY <2>1, <2>2
  <1>10. m # None
    BY <1>5, MissionsAssumption
  <1>11. ImportShape'
    BY <1>1, <1>9, ImportOrigin DEF ImportShape, TxTypeOK, Steps
  <1>12. SnapshotCurrent'
    <2> SUFFICES ASSUME NEW q \in Procs
                 PROVE  step'[q] # "commit"
      BY <1>1 DEF SnapshotCurrent
    <2>1. q # p => step[q] # "commit"
      BY <1>1, ImportOrigin
    <2> QED
      BY <1>1, <2>1, ImportOrigin
  <1>13. FileThere'
    BY <1>1, <1>3 DEF FileThere
  <1>14. ImportedWhole'
    BY <1>1, <1>5, <1>6, <1>9 DEF ImportedWhole, ImportedEvents
  <1>15. AllOrNothing'
    BY <1>9, <1>10 DEF AllOrNothing
  <1> QED
    BY <1>2, <1>11, <1>12, <1>13, <1>14, <1>15 DEF Inv, ImportInv

-----------------------------------------------------------------------------
(* The invariant *)

LEMMA InitInv == Init => Inv
  <1> SUFFICES ASSUME Init PROVE Inv
    OBVIOUS
  <1>1. <<>> \in Histories
    BY NothingSeenType, SeenFields
  <1>2. source \in Source /\ source.anchors = <<>>
    BY <1>1, BoundsAssumption DEF Init, Source, Statuses, Bodies
  <1>3. CommandShape
    BY <1>2, NothingSeenType DEF Init, CommandShape, Labels
  <1>4. Reading(pc, kind, seen, source)
    <2>1. IsPrefix(<<>>, source.anchors)
      BY <1>1, <1>2, PrefixFacts
    <2>2. \A r \in Runs : seen.begun[r] <= source.length[r]
      BY DEF Init, NothingSeen
    <2> QED
      BY <2>1, <2>2, NothingSeenType DEF Init, Reading
  <1>5. Published /\ FileSound
    BY DEF Init, Published, FileSound
  <1>6. ledger \in Ledger
    BY DEF Init, EmptyLedger, Ledger, Owners, Bodies
  <1>7. ImportShape
    BY <1>6, BoundsAssumption DEF Init, TxInit, ImportShape, TxTypeOK, Steps
  <1>8. SnapshotCurrent /\ FileThere
    BY DEF Init, TxInit, EmptyLedger, SnapshotCurrent, FileThere
  <1>9. ImportedWhole /\ AllOrNothing
    BY DEF Init, EmptyLedger, ImportedWhole, AllOrNothing
  <1> QED
    BY <1>3, <1>4, <1>5, <1>7, <1>8, <1>9 DEF Inv, CommandInv, ImportInv

LEMMA StepInv == Inv /\ [Next]_vars => Inv'
  <1> SUFFICES ASSUME Inv, [Next]_vars
               PROVE  Inv'
    OBVIOUS
  <1>1. ASSUME NEW p \in Procs, Importer(p)
        PROVE  Inv'
    BY <1>1, VerifyFileStep, CheckCollisionsStep, InsertStep, ContentionStep, CommitStep,
       ImportFailsStep, ImportAgainStep DEF Importer
  <1>2. CASE UNCHANGED vars
    <2>1. UNCHANGED sourceVars /\ UNCHANGED importVars /\ file' = file
      BY <1>2 DEF vars, sourceVars
    <2>2. CommandInv'
      BY <2>1, CommandKept
    <2>3. ImportInv'
      BY <2>1 DEF Inv, ImportInv, ImportShape, TxTypeOK, SnapshotCurrent, FileThere,
         ImportedWhole, AllOrNothing, importVars, txVars, Collides, ImportedEvents
    <2> QED
      BY <2>2, <2>3 DEF Inv
  <1> QED
    BY <1>1, <1>2, SourceStepInv, CommandStep, LocalStepInv DEF Next

LEMMA InvHolds == Spec => []Inv
  <1> QED
    BY InitInv, StepInv, PTL DEF Spec

\* Type correctness of export, context and import (workspace.go, continuity.go):
\* files and imported missions have the shape of a bundle, and an import is tried
\* at most maxWriteAttempts times.
THEOREM TypeCorrect == Spec => []TypeOK
  <1>1. Inv => TypeOK
    <2> SUFFICES ASSUME Inv PROVE TypeOK
      OBVIOUS
    <2>1. /\ source.status \in Statuses
          /\ source.anchors \in Histories
          /\ source.length \in [Runs -> 0..MaxEvents] /\ source.ended \subseteq Runs
          /\ source.media \in MediaTypes \cup {None}
      BY CommandOrigin, SourceFields DEF Bodies
    <2>2. /\ seen.count \in 0..MaxCheckpoints /\ seen.anchors \in Histories
          /\ kind \in {"json", "workspace", "context", None}
      BY CommandOrigin, SeenFields DEF Kinds
    <2>3. /\ ledger.mission \in Missions \cup {None}
          /\ ledger.events \in [Events -> {"absent", "local", "imported"}]
          /\ ledger.media \in MediaTypes \cup {None}
      BY ImportOrigin, LedgerFields DEF Bodies, Owners
    <2>4. file \in Contents \cup {None} /\ TxTypeOK
      BY DEF Inv, CommandInv, CommandShape, ImportInv, ImportShape
    <2>5. /\ step \in [Procs -> {"idle", "begin", "insert", "commit", "invalid", "imported",
                                 "collision", "exhausted", "failed"}]
          /\ attempt \in [Procs -> 0..MaxAttempts]
      BY ImportOrigin DEF Steps
    <2> QED
      BY <2>1, <2>2, <2>3, <2>4, <2>5 DEF TypeOK
  <1> QED
    BY <1>1, InvHolds, PTL

\* A published file is one moment of its mission, although it was read by several
\* statements while agents went on, and a workspace can be imported with its
\* bodies (workspace.go Export, continuity.go MissionBundle).
THEOREM FilesAreSound == Spec => []FileSound
  <1>1. Inv => FileSound
    BY DEF Inv, CommandInv
  <1> QED
    BY <1>1, InvHolds, PTL

\* An imported mission is all there, as imported (ImportMissionWithArtifacts).
THEOREM ImportsWhole == Spec => []ImportedWhole
  <1>1. Inv => ImportedWhole
    BY DEF Inv, ImportInv
  <1> QED
    BY <1>1, InvHolds, PTL

\* "Collision aborts without partial state" (docs/continuity.md): refused,
\* cancelled, killed or retried imports leave nothing behind.
THEOREM NothingPartial == Spec => []AllOrNothing
  <1>1. Inv => AllOrNothing
    BY DEF Inv, ImportInv
  <1> QED
    BY <1>1, InvHolds, PTL

\* A compiled context lists, for every run that had begun, what no checkpoint it
\* reports covers, unless a checkpoint came between its two readings
\* (BuildMissionContext, uncheckpointedMissionWork).
THEOREM ContextListsTails == Spec => []ContextComplete
  <1>1. Inv => ContextComplete
    <2> SUFFICES ASSUME Inv, kind = "context", pc = "done", seen.latest = seen.anchors,
                        NEW r \in Runs
                 PROVE  \/ seen.begun[r] <= Anchored(seen.anchors, r)
                        \/ /\ seen.tails[r].from = Anchored(seen.anchors, r)
                           /\ seen.tails[r].to >= seen.begun[r]
      BY DEF ContextComplete
    <2>1. Listed(seen)
      BY CommandOrigin DEF Reading
    <2> QED
      BY <2>1 DEF Listed
  <1> QED
    BY <1>1, InvHolds, PTL
=============================================================================
