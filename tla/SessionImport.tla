---------------------------- MODULE SessionImport ----------------------------
(***************************************************************************)
(* A JSONL session file that a harness is still writing, and the processes *)
(* that import it into the ledger: the Codex collector                     *)
(* (internal/adapters/codex: `codex sync`, `codex watch`, `serve`), and    *)
(* `chainproof pull` (pullFile in cmd/chainproof/main.go).  Opening the    *)
(* ledger first rebuilds missing rows of the provenance index.             *)
(*                                                                         *)
(* The file is a sequence of cells: a record is a head and a tail, ended   *)
(* by a newline.  Offsets count cells instead of bytes.  Each call on the  *)
(* store is one step, for it is one statement or one transaction           *)
(* (RunLedger refines Append); a failing call, an exhausted retry and a    *)
(* killed process all end the pass and lose what it held in memory.        *)
(***************************************************************************)
EXTENDS Integers, Sequences, FiniteSets

CONSTANTS
    Procs,              \* processes that import
    Watchers,           \* those that run the collector's Watch loop
    Sessions,           \* what the harness may write: sequences of Kinds
    Transcripts,        \* the same for a file that is not in Codex's directory
    MaxBlanks,          \* bound: blank lines in the file, for each session
    Closable,           \* bound: runs others may complete or open, for each session
    MaxFailures         \* bound: passes cut short by a failure

\* Of Codex's records, "meta" names agent and model, "work" carries the
\* agent-work marker of a valid parent run, "item" is other evidence and "other"
\* is a record the collector does not import.  A normalised transcript for pull
\* holds events with an identifier of their own ("named") or without.
Kinds == {"meta", "work", "item", "other"}
TranscriptKinds == {"named", "event"}

ASSUME WatchersAssumption == Watchers \subseteq Procs
ASSUME SessionsAssumption == /\ Sessions \subseteq Seq(Kinds)
                             /\ Transcripts \subseteq Seq(TranscriptKinds)
ASSUME BoundsAssumption == /\ MaxBlanks \in [Sessions \cup Transcripts -> Nat]
                           /\ Closable \in [Sessions \cup Transcripts -> SUBSET Nat]
                           /\ MaxFailures \in Nat

VARIABLES
    session,            \* the records the harness writes
    file,               \* the file so far
    runs,               \* table runs, with each run's events and their index rows
    bound,              \* table source_runs: the session's run, 0 for none
    cursors,            \* table import_cursors
    pc,                 \* where each process is
    pass,               \* its local variables
    failures,           \* passes that failed so far
    shared,             \* runs that two passes imported at the same time
    unlinked            \* markers a pass did not find valid, with their runs

store == <<runs, bound, cursors>>
source == <<session, file>>
history == <<failures, shared, unlinked>>
vars == <<source, store, pc, pass, history>>

-----------------------------------------------------------------------------
(* The file *)

Records == 1..Len(session)
NL == <<0, 0>>
Head1(r) == <<r, 1>>
Tail1(r) == <<r, 2>>
Cells == {NL} \cup {Head1(r) : r \in Records} \cup {Tail1(r) : r \in Records}

Begun(r) == \E i \in DOMAIN file : file[i] = Head1(r)
Complete(r) == \E i \in DOMAIN file : file[i] = Tail1(r)
Torn == \E r \in Records : Begun(r) /\ ~Complete(r)
NextRecord == CHOOSE r \in Records : ~Begun(r) /\ \A q \in 1..(r - 1) : Begun(q)
Blanks == Cardinality({i \in DOMAIN file : file[i] = NL})
          - Cardinality({r \in Records : Complete(r)})

\* bufio.Reader.ReadBytes('\n') from a position.
LineEnd(pos) == LET ends == {i \in (pos + 1)..Len(file) : file[i] = NL}
                IN  IF ends = {} THEN Len(file)
                    ELSE CHOOSE i \in ends : \A j \in ends : i <= j
Line(pos) == SubSeq(file, pos + 1, LineEnd(pos))
AtEOF(line) == line = <<>> \/ line[Len(line)] # NL
IsBlank(line) == \A i \in DOMAIN line : line[i] = NL
\* json.Unmarshal accepts the line, as this record.
Parses(line, r) == Len(line) >= 2 /\ line[1] = Head1(r) /\ line[2] = Tail1(r)

-----------------------------------------------------------------------------
(* The ledger.  A run is open while Append takes its events: it is not ended,
   and the mission row that Append finds for it is not completed.  *)

Ops == {"sync", "pull"}
\* proof.Event: the collector derives the identifier from record and offset.
Event == [op : Ops, rec : Records, at : Nat]
Label == {0} \cup Records
Missing == -1

NewRun == [label |-> 0, metadata |-> {}, events |-> <<>>, index |-> <<>>, open |-> TRUE]
PullRun == 1

Imported(run) == {runs[run].events[k] : k \in DOMAIN runs[run].events}
\* EventExists
EventExists(event) == \E i \in DOMAIN runs : event \in Imported(i)

\* The rows of an older ledger that has no index yet.
Legacy == [NewRun EXCEPT !.label = 1, !.metadata = {1},
                         !.events = <<[op |-> "sync", rec |-> 1, at |-> 0]>>,
                         !.index = <<Missing>>]

Discovered == session \in Sessions

Init == /\ session \in Sessions \cup Transcripts
        /\ pc = [p \in Procs |-> "closed"]
        /\ pass = [p \in Procs |-> [op |-> "none"]]
        /\ failures = 0
        /\ shared = {}
        /\ unlinked = {}
        /\ \/ /\ file = <<>>
              /\ runs = <<NewRun>>
              /\ bound = 0
              /\ cursors = [op \in Ops |-> 0]
           \/ /\ Discovered
              /\ 1 \in Records
              /\ session[1] = "meta"
              /\ file = <<Head1(1), Tail1(1), NL>>
              /\ runs = <<NewRun, Legacy>>
              /\ bound = 2
              /\ cursors = [sync |-> 3, pull |-> 0]

Go(p, label) == pc' = [pc EXCEPT ![p] = label]
Leave(p, label) == /\ Go(p, label)
                   /\ pass' = [pass EXCEPT ![p] = [op |-> "none"]]

-----------------------------------------------------------------------------
(* The harness.  A record may be seen half-written; its end and its newline
   arrive together.  *)

Write(cells) == /\ file' = file \o cells
                /\ UNCHANGED <<session, store, pc, pass, history>>

WriteRecord == /\ ~Torn
               /\ \E r \in Records : ~Begun(r)
               /\ Write(<<Head1(NextRecord)>>)

WriteRest == \E r \in Records : /\ Begun(r)
                                /\ ~Complete(r)
                                /\ Write(<<Tail1(r), NL>>)

WriteBlankLine == ~Torn /\ Blanks < MaxBlanks[session] /\ Write(<<NL>>)

-----------------------------------------------------------------------------
(* Other users of the ledger complete the run or its mission, or link the run to
   another mission, which is active (RunLedger has these operations).  *)

CloseRun(i) == /\ runs' = [runs EXCEPT ![i].open = FALSE]
               /\ UNCHANGED <<source, bound, cursors, pc, pass, history>>

ReopenRun(i) == /\ runs' = [runs EXCEPT ![i].open = TRUE]
                /\ UNCHANGED <<source, bound, cursors, pc, pass, history>>

-----------------------------------------------------------------------------
(* Opening the ledger: rebuildMissingIndex *)

\* Rows of events without an index row, with the labels their runs have now.
MissingIndex ==
    UNION {{<<i, k, runs[i].label>> :
              k \in {n \in DOMAIN runs[i].index : runs[i].index[n] = Missing}} :
                i \in DOMAIN runs}

RebuildRead(p) ==
    /\ pc[p] = "closed"
    /\ IF MissingIndex = {} THEN Leave(p, "ready")
       ELSE /\ pass' = [pass EXCEPT ![p] = [op |-> "open", missing |-> MissingIndex]]
            /\ Go(p, "rebuild")
    /\ UNCHANGED <<source, store, history>>

\* One transaction of INSERT OR REPLACE.
RebuildWrite(p) ==
    /\ pc[p] = "rebuild"
    /\ runs' = [i \in DOMAIN runs |-> [runs[i] EXCEPT !.index =
                  [k \in DOMAIN @ |->
                      LET row == {m \in pass[p].missing : m[1] = i /\ m[2] = k}
                      IN  IF row = {} THEN @[k] ELSE (CHOOSE m \in row : TRUE)[3]]]]
    /\ Leave(p, "ready")
    /\ UNCHANGED <<source, bound, cursors, history>>

-----------------------------------------------------------------------------
(* Beginning a pass *)

Begin(p, op, run) ==
    pass' = [pass EXCEPT ![p] = [op |-> op, run |-> run, pos |-> 0, offset |-> 0,
                                 line |-> <<>>, metadata |-> {}]]

Importing(p) == pass[p].op = "sync"

\* syncFile: SourceRun, then Start and BindSourceRun for a new file.
SourceRun(p) ==
    /\ pc[p] = "ready"
    /\ Discovered
    /\ Begin(p, "sync", bound)
    /\ Go(p, IF bound # 0 THEN "open" ELSE "start")
    /\ shared' = shared \cup {i \in {bound} \cap DOMAIN runs :
                                \E q \in Procs : Importing(q) /\ pass[q].run = i}
    /\ UNCHANGED <<source, store, failures, unlinked>>

\* Defective variant (the row is inserted after the binding), to be caught by TypeOK.
StartRunLate(p) ==
    /\ pc[p] = "start"
    /\ pass' = [pass EXCEPT ![p].run = Len(runs) + 1]
    /\ Go(p, "bind")
    /\ UNCHANGED <<source, store, history>>

StartRun(p) ==
    /\ pc[p] = "start"
    /\ runs' = Append(runs, NewRun)
    /\ pass' = [pass EXCEPT ![p].run = Len(runs) + 1]
    /\ Go(p, "bind")
    /\ UNCHANGED <<source, bound, cursors, history>>

\* Keeps the row that is there, and returns no error for it.
BindSourceRun(p) ==
    /\ pc[p] = "bind"
    /\ bound' = IF bound = 0 THEN pass[p].run ELSE bound
    /\ Go(p, "open")
    /\ UNCHANGED <<source, runs, cursors, pass, history>>

\* pull: the run is named by the user, who runs one pull of a file at a time.
PullFile(p) ==
    /\ pc[p] = "ready"
    /\ ~Discovered
    /\ p \notin Watchers
    /\ \A q \in Procs : pass[q].op # "pull"
    /\ Begin(p, "pull", PullRun)
    /\ Go(p, "open")
    /\ UNCHANGED <<source, store, history>>

\* Cursor, Stat and Seek.
OpenFile(p) ==
    /\ pc[p] = "open"
    /\ LET offset == cursors[pass[p].op]
       IN  IF Len(file) < offset
           THEN Leave(p, "ready")
           ELSE /\ pass' = [pass EXCEPT ![p].pos = offset, ![p].offset = offset]
                /\ Go(p, "read")
    /\ UNCHANGED <<source, store, history>>

-----------------------------------------------------------------------------
(* One line *)

Kind(line) == session[line[1][1]]
Rec(p) == pass[p].line[1][1]

\* A blank line moves the reader but not the offset.
ReadBlankLine(p) ==
    /\ pc[p] = "read"
    /\ LET line == Line(pass[p].pos)
       IN  /\ IsBlank(line)
           /\ pass' = [pass EXCEPT ![p].pos = @ + Len(line)]
           /\ Go(p, IF AtEOF(line) THEN "end" ELSE "read")
    /\ UNCHANGED <<source, store, history>>

\* Defective variant (a line that does not parse is skipped), to be caught by
\* NothingSkipped and CatchesUp.
SkipTornLine(p) ==
    /\ pc[p] = "read"
    /\ LET line == Line(pass[p].pos)
       IN  /\ ~IsBlank(line)
           /\ \A r \in Records : ~Parses(line, r)
           /\ cursors' = [cursors EXCEPT ![pass[p].op] = pass[p].offset + Len(line)]
           /\ pass' = [pass EXCEPT ![p].pos = @ + Len(line), ![p].offset = @ + Len(line)]
           /\ Go(p, IF AtEOF(line) THEN "end" ELSE "read")
    /\ UNCHANGED <<source, runs, bound, history>>

\* A line that is not JSON, because it is not written to its end yet or the
\* cursor points into it, ends the pass with an error.
ReadTornLine(p) ==
    /\ pc[p] = "read"
    /\ LET line == Line(pass[p].pos)
       IN  /\ ~IsBlank(line)
           /\ \A r \in Records : ~Parses(line, r)
    /\ Leave(p, "ready")
    /\ UNCHANGED <<source, store, history>>

ReadLine(p) ==
    /\ pc[p] = "read"
    /\ LET line == Line(pass[p].pos)
       IN  /\ \E r \in Records : Parses(line, r)
           /\ pass' = [pass EXCEPT ![p].pos = @ + Len(line), ![p].line = line]
           /\ Go(p, CASE pass[p].op = "pull" -> "append"
                      [] Kind(line) \in {"meta", "work"} -> "identity"
                      [] Kind(line) = "item" -> "append"
                      [] OTHER -> "cursor")
    /\ UNCHANGED <<source, store, history>>

\* UpdateRunIdentity reads the run's metadata and merges the record's into it ...
ReadIdentity(p) ==
    /\ pc[p] = "identity"
    /\ pass' = [pass EXCEPT ![p].metadata = runs[pass[p].run].metadata \cup {Rec(p)}]
    /\ Go(p, "update")
    /\ UNCHANGED <<source, store, history>>

\* ... without the marker if validAgentWorkLink does not find it valid, which is
\* also its answer when it cannot read the mission or the parent's run, or when
\* the parent is not linked to the mission yet.  The pass goes on.
RefuseMarker(p) ==
    /\ pc[p] = "identity"
    /\ Kind(pass[p].line) = "work"
    /\ pass' = [pass EXCEPT ![p].metadata = runs[pass[p].run].metadata]
    /\ unlinked' = unlinked \cup {<<pass[p].run, Rec(p)>>}
    /\ Go(p, "update")
    /\ UNCHANGED <<source, store, failures, shared>>

\* Defective variant (the index keeps the old labels), to be caught by IndexAgrees.
UpdateRunOnly(p) ==
    /\ pc[p] = "update"
    /\ runs' = [runs EXCEPT ![pass[p].run].metadata = pass[p].metadata,
                            ![pass[p].run].label =
                               IF Kind(pass[p].line) = "meta" THEN Rec(p) ELSE @]
    /\ Go(p, "append")
    /\ UNCHANGED <<source, bound, cursors, pass, history>>

\* Defective variant (the merged metadata is written back only for a record that
\* names agent and model), to be caught by IdentityKept.
UpdateLabelsOnly(p) ==
    /\ pc[p] = "update"
    /\ IF Kind(pass[p].line) = "work"
       THEN UNCHANGED runs
       ELSE runs' = [runs EXCEPT ![pass[p].run].metadata = pass[p].metadata,
                                ![pass[p].run].label = Rec(p),
                                ![pass[p].run].index = [k \in DOMAIN @ |->
                                    IF @[k] = Missing THEN @[k] ELSE Rec(p)]]
    /\ Go(p, "append")
    /\ UNCHANGED <<source, bound, cursors, pass, history>>

\* ... and writes the merged metadata and the labels, also of the index rows,
\* in one transaction.  A marker names no agent: the labels stay.
UpdateRunIdentity(p) ==
    /\ pc[p] = "update"
    /\ LET label == IF Kind(pass[p].line) = "meta" THEN Rec(p)
                    ELSE runs[pass[p].run].label
       IN  runs' = [runs EXCEPT
                      ![pass[p].run].metadata = pass[p].metadata,
                      ![pass[p].run].label = label,
                      ![pass[p].run].index = [k \in DOMAIN @ |->
                          IF @[k] = Missing \/ Kind(pass[p].line) = "work"
                          THEN @[k] ELSE label]]
    /\ pass' = [pass EXCEPT ![p].metadata = {}]
    /\ Go(p, "append")
    /\ UNCHANGED <<source, bound, cursors, history>>

\* Defective variant (a fresh identifier for every append), to be caught by
\* ImportedOnce.
FreshEventID(p) ==
    [op |-> pass[p].op, rec |-> Rec(p), at |-> Len(runs[pass[p].run].events) + 1]

\* stableID for the collector; a pulled record's own identifier, or a fresh one.
EventID(p) ==
    [op |-> pass[p].op, rec |-> Rec(p),
     at |-> CASE pass[p].op = "sync" -> pass[p].offset
              [] Kind(pass[p].line) = "named" -> 0
              [] OTHER -> Len(runs[pass[p].run].events) + 1]

\* appendOnce and indexEvent, one transaction.
AppendEvent(run, event) ==
    [run EXCEPT !.events = Append(@, event), !.index = Append(@, run.label)]

\* Append refuses an event that exists, by its primary key, and every event of a
\* run that is not open.  The collector goes on if the event exists; pull ends
\* with the error in both cases.
Refused(p) == EventExists(EventID(p)) \/ ~runs[pass[p].run].open

AppendRecord(p) ==
    /\ pc[p] = "append"
    /\ IF Refused(p)
       THEN /\ UNCHANGED runs
            /\ IF pass[p].op = "sync" /\ EventExists(EventID(p))
               THEN Go(p, "cursor") /\ UNCHANGED pass
               ELSE Leave(p, "ready")
       ELSE /\ runs' = [runs EXCEPT ![pass[p].run] = AppendEvent(@, EventID(p))]
            /\ Go(p, "cursor")
            /\ UNCHANGED pass
    /\ UNCHANGED <<source, bound, cursors, history>>

SetCursor(p) ==
    /\ pc[p] = "cursor"
    /\ LET offset == pass[p].offset + Len(pass[p].line)
       IN  /\ cursors' = [cursors EXCEPT ![pass[p].op] = offset]
           /\ pass' = [pass EXCEPT ![p].offset = offset, ![p].line = <<>>]
    /\ Go(p, IF AtEOF(pass[p].line) THEN "end" ELSE "read")
    /\ UNCHANGED <<source, runs, bound, history>>

-----------------------------------------------------------------------------
(* The end of a pass *)

\* The collector then marks the run of an old file idle (MarkIdle in RunLedger);
\* the status of a run is of no consequence here.
EndPass(p) ==
    /\ pc[p] = "end"
    /\ Leave(p, "ready")
    /\ UNCHANGED <<source, store, history>>

\* A store call fails, and Watch goes on with its next pass; or the process is
\* killed and started again.
Fail(p) ==
    /\ pc[p] \notin {"closed", "ready"}
    /\ failures < MaxFailures
    /\ failures' = failures + 1
    /\ Leave(p, "closed") \/ (pc[p] # "rebuild" /\ Leave(p, "ready"))
    /\ UNCHANGED <<source, store, shared, unlinked>>

-----------------------------------------------------------------------------
Proceed(p) ==
    \/ RebuildRead(p) \/ RebuildWrite(p)
    \/ SourceRun(p) \/ StartRun(p) \/ BindSourceRun(p) \/ OpenFile(p)
    \/ ReadBlankLine(p) \/ ReadTornLine(p) \/ ReadLine(p)
    \/ ReadIdentity(p) \/ RefuseMarker(p) \/ UpdateRunIdentity(p) \/ AppendRecord(p)
    \/ SetCursor(p) \/ EndPass(p)

Next == \/ WriteRecord \/ WriteRest \/ WriteBlankLine
        \/ \E i \in Closable[session] \cap DOMAIN runs : CloseRun(i) \/ ReopenRun(i)
        \/ \E p \in Procs : Proceed(p) \/ PullFile(p) \/ Fail(p)

\* Watch calls Sync again on every tick, so a watcher always goes on.  Nothing
\* else is promised: the harness may stop anywhere, a manual sync need not end.
Fairness == \A p \in Watchers : WF_vars(Proceed(p))

Spec == Init /\ [][Next]_vars /\ Fairness

-----------------------------------------------------------------------------
(* Properties *)

TypeOK ==
    /\ session \in Sessions \cup Transcripts
    /\ file \in Seq(Cells)
    /\ \A i \in DOMAIN runs :
         /\ runs[i].label \in Label
         /\ runs[i].metadata \subseteq Records
         /\ runs[i].events \in Seq(Event)
         /\ runs[i].index \in Seq(Label \cup {Missing})
         /\ Len(runs[i].index) = Len(runs[i].events)
         /\ runs[i].open \in BOOLEAN
    /\ bound \in {0} \cup DOMAIN runs
    /\ cursors \in [Ops -> Nat]
    /\ pc \in [Procs -> {"closed", "rebuild", "ready", "start", "bind", "open", "read",
                         "identity", "update", "append", "cursor", "end"}]
    /\ failures \in 0..MaxFailures
    /\ shared \subseteq DOMAIN runs
    /\ unlinked \subseteq (DOMAIN runs) \X Records

\* How often a record was imported by op.
Copies(op, r) ==
    Cardinality(UNION {{<<i, k>> : k \in {n \in DOMAIN runs[i].events :
                                            /\ runs[i].events[n].op = op
                                            /\ runs[i].events[n].rec = r}} :
                         i \in DOMAIN runs})
Importable(r) == session[r] # "other"

\* However many collectors import a session, wherever they are killed and
\* whatever they find twice, no record becomes two events, and the events of
\* one run stand in the order of the file.  A pull, whose events may have no
\* identifier of their own, imports a record again only after a failed pass,
\* which may have appended it without storing its cursor.
\* This holds while the blank lines of the file are fewer than the cells of a
\* record: the cursor falls behind the reader by the blank lines, and if it falls
\* behind by a whole record, that record is imported again from another offset,
\* as another event (with three blank lines TLC shows it).
ImportedOnce ==
    Blanks <= 2 =>
    /\ \A r \in Records : /\ Copies("sync", r) <= 1
                          /\ Copies("pull", r) <= 1 + failures
    /\ \A i \in DOMAIN runs : \A j, k \in DOMAIN runs[i].events :
         /\ j < k
         /\ runs[i].events[j].op = "sync"
         => runs[i].events[j].rec < runs[i].events[k].rec

\* A stored cursor never passes the beginning of a record that is not in the
\* ledger: no record is lost, neither torn ones nor those read by a pass that was
\* killed, although the cursor lags behind the reader by the blank lines.
Stored(op, r) == \E i \in DOMAIN runs : \E e \in Imported(i) : e.op = op /\ e.rec = r
NothingSkipped ==
    \A op \in Ops : \A i \in DOMAIN file : \A r \in Records :
        file[i] = Head1(r) /\ i <= cursors[op] /\ (op = "pull" \/ Importable(r))
            => Stored(op, r)

\* Once some process has opened the ledger, every event has its index row, and
\* the index rows of a run carry the labels the run has now, although one process
\* may rebuild them while another appends and relabels.  (The labels of the
\* event whose row was missing may be those the rebuilding process read.)
IndexAgrees ==
    \A i \in DOMAIN runs : \A k \in DOMAIN runs[i].index :
        /\ (\E p \in Procs : pc[p] \notin {"closed", "rebuild"})
              => runs[i].index[k] # Missing
        /\ runs[i].index[k] = runs[i].label \/ runs[i].events[k] = Legacy.events[1]

\* What UpdateRunIdentity recorded for an imported record is lost only to passes
\* that import the same run at the same time and write back older metadata, and a
\* marker is missing only if some pass did not find it valid.  A run that no two
\* passes ever shared keeps everything else, wherever they were killed.
Identifies(r) == session[r] \in {"meta", "work"}
IdentityKept ==
    \A i \in DOMAIN runs \ shared : \A e \in Imported(i) :
        e.op = "sync" /\ Identifies(e.rec)
            => e.rec \in runs[i].metadata \/ <<i, e.rec>> \in unlinked

\* What the documents say of such runs, too: a child's run inherits the
\* attribution of its parent when the marker is accepted.
AttributionInherited ==
    \A i \in DOMAIN runs : \A e \in Imported(i) :
        /\ e.op = "sync" /\ session[e.rec] = "work" /\ <<i, e.rec>> \notin unlinked
        /\ \A p \in Procs : ~Importing(p)
        => e.rec \in runs[i].metadata

\* A record that is written to its end is imported, whatever failed before: if from
\* some time on Append takes events of the session's run, the ledger catches up
\* with the file again and again.  A second blank line may stop the collector for
\* good: its cursor may then point into a record, which no pass can parse.
Accepting == bound # 0 => runs[bound].open
CaughtUp == \A r \in Records : Complete(r) /\ Importable(r) => Stored("sync", r)
CatchesUp == <>[]Accepting => []<>(Discovered /\ Blanks <= 1 => CaughtUp)
=============================================================================
