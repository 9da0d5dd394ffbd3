------------------------ MODULE SessionImport_proofs ------------------------
(***************************************************************************)
(* Proofs about SessionImport for any number of importers and failures and *)
(* sessions of any length: the types, the cursor that passes no record,    *)
(* the index and the metadata of the runs; and, as long as the blank lines *)
(* of the file are fewer than the cells of a record, that every record is  *)
(* imported once.                                                          *)
(***************************************************************************)
EXTENDS SessionImport, FiniteSetTheorems, WellFoundedInduction, TLAPS

Idle == [op |-> "none"]
Labels == {"closed", "rebuild", "ready", "start", "bind", "open", "read", "identity",
           "update", "append", "cursor", "end"}
Outside == {"closed", "ready"}
Holding == {"identity", "update", "append", "cursor"}

Run == [label : Label, metadata : SUBSET Records, events : Seq(Event),
        index : Seq(Label \cup {Missing}), open : BOOLEAN]
Openings == [op : {"open"}, missing : SUBSET (Nat \X Nat \X Label)]
Passes == [op : Ops, run : Nat, pos : Nat, offset : Nat, line : Seq(Cells),
           metadata : SUBSET Records]

\* A discovered session is imported by collectors, any other by pulls.
Channel == IF Discovered THEN "sync" ELSE "pull"

Tables == /\ session \in Sessions \cup Transcripts
          /\ runs \in Seq(Run)
          /\ Len(runs) >= 1
          /\ \A i \in DOMAIN runs : Len(runs[i].index) = Len(runs[i].events)
          /\ bound \in 0..Len(runs)
          /\ cursors \in [Ops -> Nat]
          /\ pc \in [Procs -> Labels]
          /\ DOMAIN pass = Procs
          /\ failures \in 0..MaxFailures
          /\ shared \subseteq DOMAIN runs
          /\ unlinked \subseteq (DOMAIN runs) \X Records

\* The session file: records stand in their order, each with its newline, and
\* only the last cell can be the head of a record that is not complete.
Layout ==
    /\ file \in Seq(Cells)
    /\ \A i \in DOMAIN file : \A r \in Records :
         /\ file[i] = Tail1(r) => /\ i >= 2 /\ file[i - 1] = Head1(r)
                                  /\ i < Len(file) /\ file[i + 1] = NL
         /\ file[i] = Head1(r) => i = Len(file) \/ file[i + 1] = Tail1(r)
    /\ \A i, j \in DOMAIN file : \A r, q \in Records :
         file[i] = Head1(r) /\ file[j] = Head1(q) => (i < j <=> r < q)
    /\ \A r, q \in Records : q < r /\ Begun(r) => Begun(q)

\* Every record of the file that op imports and that begins before position n is
\* in the ledger.
Passed(op, n) ==
    \A i \in DOMAIN file : \A r \in Records :
        file[i] = Head1(r) /\ i <= n /\ (op = "pull" \/ Importable(r)) => Stored(op, r)

\* The process has read one line, that of record Rec(p).
Held(p) == /\ Len(pass[p].line) = 3
           /\ Rec(p) \in Records
           /\ pass[p].offset <= pass[p].pos - 3
           /\ file[pass[p].pos - 2] = Head1(Rec(p))

\* What a process holds where it is in its pass.
Stage(p) ==
    /\ pc[p] \in Outside => pass[p] = Idle
    /\ pc[p] = "rebuild" => pass[p] \in Openings
    /\ pc[p] \notin Outside \cup {"rebuild"} => /\ pass[p] \in Passes
                                                /\ pass[p].op = Channel
    /\ pc[p] \in {"start", "bind", "identity", "update"} => pass[p].op = "sync"
    /\ pc[p] \notin Outside \cup {"rebuild", "start"} => pass[p].run \in DOMAIN runs
    /\ pc[p] = "start" => pass[p].run = 0
    /\ pc[p] \in Holding \cup {"read"} => /\ pass[p].offset <= pass[p].pos
                                          /\ pass[p].pos <= Len(file)
    /\ pc[p] \in Holding => Held(p)
    /\ pc[p] \in {"identity", "update"} => Identifies(Rec(p))
    /\ pc[p] = "append" /\ pass[p].op = "sync" => Importable(Rec(p))

Progress(p) ==
    /\ pc[p] \in {"read", "cursor"} => Passed(pass[p].op, pass[p].pos)
    /\ pc[p] \in Holding => Passed(pass[p].op, pass[p].pos - 3)

Gap(i, k) == /\ i \in DOMAIN runs
             /\ k \in DOMAIN runs[i].index
             /\ runs[i].index[k] = Missing

\* A process that rebuilds the index knows every row that is missing, and has
\* taken rows only of the event whose row was missing in the beginning.
Rebuilds(p) ==
    /\ pc[p] = "rebuild" =>
         /\ \A m \in pass[p].missing : /\ m[1] \in DOMAIN runs
                                       /\ m[2] \in DOMAIN runs[m[1]].events
                                       /\ runs[m[1]].events[m[2]] = Legacy.events[1]
         /\ \A i, k \in Nat : Gap(i, k) => \E m \in pass[p].missing : m[1] = i /\ m[2] = k
    /\ pc[p] \notin {"closed", "rebuild"} => \A i, k \in Nat : ~Gap(i, k)

\* As long as it has the run for itself, a pass has all of the run's metadata in
\* what it writes back, with its record unless that is a marker not found valid;
\* and what it merged is there.
Identity(p) ==
    Importing(p) /\ pass[p].run \notin shared =>
        /\ pc[p] = "update" =>
              /\ runs[pass[p].run].metadata \subseteq pass[p].metadata
              /\ Rec(p) \in pass[p].metadata \/ <<pass[p].run, Rec(p)>> \in unlinked
        /\ pc[p] = "append" /\ Identifies(Rec(p)) =>
              \/ Rec(p) \in runs[pass[p].run].metadata
              \/ <<pass[p].run, Rec(p)>> \in unlinked

Settled(p) == Stage(p) /\ Progress(p) /\ Rebuilds(p) /\ Identity(p)

\* Two passes have the same run only when it is shared.
Apart == \A p, q \in Procs :
            p # q /\ Importing(p) /\ Importing(q) /\ pass[p].run = pass[q].run
                => pass[p].run \in shared \cup {0}

Rows == \A i \in DOMAIN runs : \A k \in DOMAIN runs[i].index :
           runs[i].index[k] = runs[i].label \/ runs[i].events[k] = Legacy.events[1]

CursorsInside == \A op \in Ops : cursors[op] <= Len(file)

Inv == /\ Tables
       /\ Layout
       /\ CursorsInside
       /\ NothingSkipped
       /\ Rows
       /\ IdentityKept
       /\ Apart
       /\ \A p \in Procs : Settled(p)

-----------------------------------------------------------------------------
(* Fewer blank lines than a record has cells *)

Threefold(n) == \E k \in Nat : n = 3 * k

Newlines == {i \in DOMAIN file : file[i] = NL}
Completed == {r \in Records : Complete(r)}

\* n records have begun, and all cells are accounted for.
Counted == \E n \in Nat :
              /\ \A r \in Records : Begun(r) <=> r <= n
              /\ IF Torn THEN Len(file) + 2 = Blanks + 3 * n
                 ELSE Len(file) = Blanks + 3 * n

Spaced == \A i \in DOMAIN file : \A r \in Records :
             file[i] = Head1(r) => 3 * r - 2 <= i /\ i <= 3 * r

\* What lies behind a reader is what its offset counts.
Aligned(p) ==
    /\ pc[p] = "read" => /\ Threefold(pass[p].offset)
                         /\ \A i \in DOMAIN file : \A r \in Records :
                              file[i] = Head1(r) => (i <= pass[p].pos <=> 3 * r <= pass[p].offset)
    /\ pc[p] \in Holding => pass[p].offset = 3 * Rec(p) - 3
    /\ pc[p] \in Holding \cup {"read"} /\ pass[p].op = "pull" =>
         cursors["pull"] = pass[p].offset

Events == \A i \in DOMAIN runs : \A k \in DOMAIN runs[i].events :
             /\ runs[i].events[k].op = Channel
             /\ Discovered => runs[i].events[k].at = 3 * runs[i].events[k].rec - 3

Unique == \A i, j \in DOMAIN runs : \A k \in DOMAIN runs[i].events, n \in DOMAIN runs[j].events :
             Discovered /\ runs[i].events[k].rec = runs[j].events[n].rec => i = j /\ k = n

Ordered == \A i \in DOMAIN runs : \A j, k \in DOMAIN runs[i].events :
             Discovered /\ j < k => runs[i].events[j].rec < runs[i].events[k].rec

Downward == \A r, q \in Records :
             Discovered /\ q < r /\ Importable(q) /\ Stored("sync", r) => Stored("sync", q)

SolePull == \A p, q \in Procs : pass[p].op = "pull" /\ pass[q].op = "pull" => p = q

\* The copies of a record: those of failed passes, and one more once it is passed.
CopySet(op, r) ==
    UNION {{<<i, k>> : k \in {n \in DOMAIN runs[i].events :
                                /\ runs[i].events[n].op = op
                                /\ runs[i].events[n].rec = r}} :
             i \in DOMAIN runs}
Pulled(r) == \/ 3 * r <= cursors["pull"]
             \/ \E p \in Procs : pc[p] = "cursor" /\ pass[p].op = "pull" /\ Rec(p) = r
Pulls == \A r \in Records :
            /\ IsFiniteSet(CopySet("pull", r))
            /\ Copies("pull", r) <= failures + (IF Pulled(r) THEN 1 ELSE 0)

Spacing == /\ Counted
           /\ Spaced
           /\ Blanks \in Nat
           /\ \A op \in Ops : Threefold(cursors[op])
           /\ Events
           /\ Unique
           /\ Ordered
           /\ Downward
           /\ SolePull
           /\ Pulls
           /\ \A p \in Procs : Aligned(p)

-----------------------------------------------------------------------------
(* Cells and lines *)

LEMMA CellFacts ==
  \A r, q \in Records :
    /\ r \in Nat /\ r >= 1 /\ r <= Len(session)
    /\ Head1(r) # NL /\ Tail1(r) # NL /\ Head1(r) # Tail1(q)
    /\ Head1(r) = Head1(q) => r = q
    /\ Tail1(r) = Tail1(q) => r = q
    /\ Head1(r)[1] = r
    /\ Head1(r) \in Cells /\ Tail1(r) \in Cells
  <1>1. ASSUME NEW r \in Records, NEW q \in Records
        PROVE  /\ r \in Int /\ r >= 1
               /\ Head1(r) # NL /\ Tail1(r) # NL /\ Head1(r) # Tail1(q)
               /\ Head1(r) = Head1(q) => r = q
               /\ Tail1(r) = Tail1(q) => r = q
               /\ Head1(r)[1] = r
    BY DEF Records, Head1, Tail1, NL
  <1>2. \A r \in Records : Head1(r) \in Cells /\ Tail1(r) \in Cells
    BY DEF Cells
  <1> QED
    BY <1>1, <1>2 DEF Records

\* A set of naturals that has an element has a smallest one.
LEMMA SmallestExists ==
  ASSUME NEW S, S \subseteq Nat, S # {}
  PROVE  \E n \in S : \A k \in S : n <= k
  <1> DEFINE R == OpToRel(<, Nat)
  <1>1. IsWellFoundedOn(R, Nat)
    BY NatLessThanWellFounded
  <1>2. \E x \in S : \A y \in S : ~(<<y, x>> \in R)
    <2> HIDE DEF R
    <2> QED
      BY <1>1, WFMin
  <1>3. \A y, z \in Nat : y < z => <<y, z>> \in R
    BY DEF OpToRel
  <1> HIDE DEF R
  <1>4. PICK x \in S : \A y \in S : ~(<<y, x>> \in R)
    BY <1>2
  <1>5. \A y \in S : ~(y < x)
    BY <1>3, <1>4
  <1> QED
    BY <1>4, <1>5

LEMMA LineEndFacts ==
  ASSUME file \in Seq(Cells), NEW pos \in 0..Len(file)
  PROVE  /\ LineEnd(pos) \in pos..Len(file)
         /\ pos < Len(file) => pos < LineEnd(pos)
         /\ LineEnd(pos) = Len(file) \/ file[LineEnd(pos)] = NL
         /\ \A i \in (pos + 1)..Len(file) : i < LineEnd(pos) => file[i] # NL
  <1> DEFINE ends == {i \in (pos + 1)..Len(file) : file[i] = NL}
  <1>0. Len(file) \in Nat /\ pos \in Nat
    OBVIOUS
  <1>1. CASE ends = {}
    BY <1>0, <1>1 DEF LineEnd
  <1>2. CASE ends # {}
    <2>1. ends \subseteq Nat
      BY <1>0
    <2>2. \E n \in ends : \A k \in ends : n <= k
      <3> HIDE DEF ends
      <3> QED
        BY <1>2, <2>1, SmallestExists
    <2>3. LineEnd(pos) = CHOOSE n \in ends : \A k \in ends : n <= k
      BY <1>2 DEF LineEnd
    <2>4. LineEnd(pos) \in ends /\ \A k \in ends : LineEnd(pos) <= k
      <3> HIDE DEF ends
      <3> QED
        BY <2>2, <2>3
    <2> QED
      BY <1>0, <2>4
  <1> QED
    BY <1>1, <1>2

LEMMA LineFacts ==
  ASSUME file \in Seq(Cells), NEW pos \in 0..Len(file)
  PROVE  /\ Line(pos) \in Seq(Cells)
         /\ Len(Line(pos)) = LineEnd(pos) - pos
         /\ pos + Len(Line(pos)) = LineEnd(pos)
         /\ \A k \in 1..Len(Line(pos)) : Line(pos)[k] = file[pos + k]
  <1>1. \A last \in pos..Len(file) :
           /\ SubSeq(file, pos + 1, last) \in Seq(Cells)
           /\ Len(SubSeq(file, pos + 1, last)) = last - pos
           /\ pos + (last - pos) = last
           /\ \A k \in 1..(last - pos) : SubSeq(file, pos + 1, last)[k] = file[pos + k]
    OBVIOUS
  <1>2. LineEnd(pos) \in pos..Len(file)
    BY LineEndFacts
  <1> QED
    BY <1>1, <1>2 DEF Line

\* A blank line holds no record.
LEMMA BlankLine ==
  ASSUME Layout, NEW pos \in 0..Len(file), IsBlank(Line(pos))
  PROVE  /\ pos + Len(Line(pos)) \in pos..Len(file)
         /\ \A i \in DOMAIN file : \A r \in Records :
              file[i] = Head1(r) /\ i <= pos + Len(Line(pos)) => i <= pos
  <1>1. file \in Seq(Cells)
    BY DEF Layout
  <1>2. /\ LineEnd(pos) \in pos..Len(file)
        /\ Len(Line(pos)) = LineEnd(pos) - pos
        /\ pos + Len(Line(pos)) = LineEnd(pos)
        /\ Line(pos) \in Seq(Cells)
        /\ \A k \in 1..Len(Line(pos)) : Line(pos)[k] = file[pos + k]
    BY <1>1, LineFacts, LineEndFacts
  <1>3. ASSUME NEW i \in DOMAIN file, NEW r \in Records, file[i] = Head1(r),
               i <= LineEnd(pos), pos < i
        PROVE  FALSE
    <2>1. i \in Nat /\ pos \in Nat /\ i - pos \in 1..Len(Line(pos))
      BY <1>1, <1>2, <1>3
    <2>2. Line(pos)[i - pos] = file[pos + (i - pos)] /\ pos + (i - pos) = i
      BY <1>2, <2>1
    <2>3. Line(pos)[i - pos] = NL
      BY <1>2, <2>1 DEF IsBlank
    <2> QED
      BY <1>3, <2>2, <2>3, CellFacts
  <1>4. \A i \in DOMAIN file : i \in Nat
    BY <1>1
  <1> QED
    BY <1>2, <1>3, <1>4

\* A line that parses is the three cells of one record.
LEMMA ParsedLine ==
  ASSUME Layout, NEW pos \in 0..Len(file), NEW r \in Records, Parses(Line(pos), r)
  PROVE  /\ Line(pos) \in Seq(Cells)
         /\ Len(Line(pos)) = 3
         /\ Line(pos)[1] = Head1(r)
         /\ Line(pos)[1][1] = r
         /\ pos + 3 <= Len(file)
         /\ file[pos + 1] = Head1(r)
         /\ file[pos + 2] = Tail1(r)
         /\ file[pos + 3] = NL
         /\ \A i \in DOMAIN file : \A q \in Records :
              file[i] = Head1(q) /\ i <= pos + 3 => i <= pos \/ q = r
  <1>1. file \in Seq(Cells) /\ Len(file) \in Nat /\ pos \in Nat
    BY DEF Layout
  <1>2. /\ LineEnd(pos) \in pos..Len(file)
        /\ LineEnd(pos) = Len(file) \/ file[LineEnd(pos)] = NL
        /\ \A i \in (pos + 1)..Len(file) : i < LineEnd(pos) => file[i] # NL
        /\ Line(pos) \in Seq(Cells)
        /\ Len(Line(pos)) = LineEnd(pos) - pos
        /\ \A k \in 1..Len(Line(pos)) : Line(pos)[k] = file[pos + k]
    BY <1>1, LineFacts, LineEndFacts
  <1>3. /\ Len(Line(pos)) >= 2
        /\ Line(pos)[1] = Head1(r) /\ file[pos + 1] = Head1(r)
        /\ Line(pos)[2] = Tail1(r) /\ file[pos + 2] = Tail1(r)
        /\ pos + 1 \in DOMAIN file /\ pos + 2 \in DOMAIN file
    BY <1>1, <1>2 DEF Parses
  <1>4. pos + 2 < Len(file) /\ file[pos + 3] = NL
    <2>1. pos + 2 < Len(file) /\ file[(pos + 2) + 1] = NL
      BY <1>3 DEF Layout
    <2> QED
      BY <1>1, <2>1
  <1>5. LineEnd(pos) = pos + 3
    <2>1. LineEnd(pos) # pos + 2
      BY <1>1, <1>2, <1>3, <1>4, CellFacts
    <2>2. ~(pos + 3 < LineEnd(pos))
      BY <1>1, <1>2, <1>4
    <2> QED
      BY <1>1, <1>2, <1>3, <2>1, <2>2
  <1>6. ASSUME NEW i \in DOMAIN file, NEW q \in Records, file[i] = Head1(q),
               i <= pos + 3, ~(i <= pos)
        PROVE  q = r
    <2>1. i = pos + 1 \/ i = pos + 2 \/ i = pos + 3
      BY <1>1, <1>6
    <2> QED
      BY <1>3, <1>4, <1>6, <2>1, CellFacts
  <1>7. Line(pos)[1][1] = r
    BY <1>3, CellFacts
  <1> QED
    BY <1>1, <1>2, <1>3, <1>4, <1>5, <1>6, <1>7

-----------------------------------------------------------------------------
(* Types *)

LEMMA RunFields ==
  ASSUME NEW row \in Run
  PROVE  /\ row.label \in Label
         /\ row.metadata \subseteq Records
         /\ row.events \in Seq(Event)
         /\ row.index \in Seq(Label \cup {Missing})
         /\ row.open \in BOOLEAN
  BY DEF Run

LEMMA RunTypes ==
  ASSUME Tables, NEW i \in DOMAIN runs
  PROVE  /\ i \in Nat /\ i >= 1 /\ i <= Len(runs)
         /\ runs[i] \in Run
         /\ runs[i].label \in Label
         /\ runs[i].metadata \subseteq Records
         /\ runs[i].events \in Seq(Event)
         /\ runs[i].index \in Seq(Label \cup {Missing})
         /\ runs[i].open \in BOOLEAN
         /\ DOMAIN runs[i].events = 1..Len(runs[i].events)
         /\ DOMAIN runs[i].index = 1..Len(runs[i].events)
         /\ Len(runs[i].events) \in Nat
  <1>1. i \in Nat /\ i >= 1 /\ i <= Len(runs) /\ runs[i] \in Run
    BY DEF Tables
  <1>2. /\ runs[i].label \in Label
        /\ runs[i].metadata \subseteq Records
        /\ runs[i].events \in Seq(Event)
        /\ runs[i].index \in Seq(Label \cup {Missing})
        /\ runs[i].open \in BOOLEAN
    BY <1>1, RunFields
  <1>3. Len(runs[i].index) = Len(runs[i].events)
    BY DEF Tables
  <1> QED
    BY <1>1, <1>2, <1>3

LEMMA EventFields ==
  ASSUME NEW e \in Event
  PROVE  e.op \in Ops /\ e.rec \in Records /\ e.at \in Nat
  BY DEF Event

LEMMA PassFields ==
  ASSUME NEW s \in Passes
  PROVE  /\ s.op \in Ops
         /\ s.run \in Nat
         /\ s.pos \in Nat
         /\ s.offset \in Nat
         /\ s.line \in Seq(Cells)
         /\ s.metadata \subseteq Records
  BY DEF Passes

LEMMA PassChanges ==
  ASSUME NEW s \in Passes
  PROVE  /\ \A n \in Nat : [s EXCEPT !.run = n] \in Passes
         /\ \A n \in Nat : [s EXCEPT !.pos = n] \in Passes
         /\ \A n, m \in Nat : [s EXCEPT !.pos = n, !.offset = m] \in Passes
         /\ \A n \in Nat, x \in Seq(Cells) : [s EXCEPT !.pos = n, !.line = x] \in Passes
         /\ \A n \in Nat, x \in Seq(Cells) : [s EXCEPT !.offset = n, !.line = x] \in Passes
         /\ \A x \in SUBSET Records : [s EXCEPT !.metadata = x] \in Passes
  BY DEF Passes

LEMMA NotIdle ==
  /\ Idle.op = "none"
  /\ \A s \in Passes : s # Idle /\ s.op # "none" /\ s.op # "open"
  /\ \A s \in Openings : s.op = "open"
  /\ Idle \notin Passes
  BY DEF Idle, Passes, Openings, Ops

-----------------------------------------------------------------------------
(* What no step takes away *)

\* The file and the events only get longer, rows of the index only appear, and a
\* shared run stays one.
Extends ==
    /\ session' = session
    /\ Len(file') >= Len(file)
    /\ file' \in Seq(Cells)
    /\ \A i \in DOMAIN file : file'[i] = file[i]
    /\ Len(runs') >= Len(runs)
    /\ runs' \in Seq(Run)
    /\ \A i \in DOMAIN runs :
         /\ Len(runs'[i].index) = Len(runs'[i].events)
         /\ Len(runs'[i].events) >= Len(runs[i].events)
         /\ \A k \in DOMAIN runs[i].events : runs'[i].events[k] = runs[i].events[k]
    /\ \A i, k \in Nat : Gap(i, k)' => Gap(i, k)
    /\ shared \subseteq shared'
    /\ unlinked \subseteq unlinked'

LEMMA SameSession ==
  ASSUME session' = session
  PROVE  /\ Records' = Records
         /\ Cells' = Cells
         /\ Label' = Label
         /\ Event' = Event
         /\ Run' = Run
         /\ Openings' = Openings
         /\ Passes' = Passes
         /\ Discovered' = Discovered
         /\ Channel' = Channel
         /\ Legacy' = Legacy
         /\ NewRun' = NewRun
  <1>1. Records' = Records
    BY DEF Records
  <1>2. Cells' = Cells /\ Label' = Label
    BY <1>1 DEF Cells, Label
  <1>3. Event' = Event
    BY <1>1 DEF Event
  <1>4. Run' = Run /\ Openings' = Openings /\ Passes' = Passes
    BY <1>1, <1>2, <1>3 DEF Run, Openings, Passes
  <1>5. Discovered' = Discovered /\ Channel' = Channel /\ Legacy' = Legacy /\ NewRun' = NewRun
    BY DEF Discovered, Channel, Legacy, NewRun
  <1> QED
    BY <1>1, <1>2, <1>3, <1>4, <1>5

LEMMA StoredStays ==
  ASSUME Tables, Extends
  PROVE  \A op \in Ops, r \in Records : Stored(op, r) => Stored(op, r)'
  <1>1. ASSUME NEW op \in Ops, NEW r \in Records, NEW i \in DOMAIN runs,
               NEW k \in DOMAIN runs[i].events, runs[i].events[k].op = op,
               runs[i].events[k].rec = r
        PROVE  Stored(op, r)'
    <2>1. i \in DOMAIN runs' /\ runs'[i] \in Run
      BY <1>1 DEF Extends, Tables
    <2>2. k \in DOMAIN runs'[i].events
      <3>1. DOMAIN runs[i].events = 1..Len(runs[i].events) /\ Len(runs[i].events) \in Nat
        BY <1>1, RunTypes
      <3>2. runs'[i].events \in Seq(Event)
        BY <2>1, RunFields
      <3> QED
        BY <1>1, <3>1, <3>2 DEF Extends
    <2>3. runs'[i].events[k] = runs[i].events[k]
      BY <1>1 DEF Extends
    <2> QED
      BY <1>1, <2>1, <2>2, <2>3 DEF Stored, Imported
  <1> QED
    BY <1>1 DEF Stored, Imported

LEMMA PassedStays ==
  ASSUME Tables, Layout, Extends
  PROVE  \A op \in Ops, n \in Nat : n <= Len(file) /\ Passed(op, n) => Passed(op, n)'
  <1>1. ASSUME NEW op \in Ops, NEW n \in Nat, n <= Len(file), Passed(op, n),
               NEW i \in DOMAIN file', NEW r \in Records,
               file'[i] = Head1(r), i <= n, op = "pull" \/ Importable(r)
        PROVE  Stored(op, r)'
    <2>1. i \in DOMAIN file /\ file[i] = Head1(r)
      BY <1>1 DEF Extends, Layout
    <2>2. Stored(op, r)
      BY <1>1, <2>1 DEF Passed
    <2> QED
      BY <2>2, StoredStays
  <1>2. Records' = Records /\ \A r : Importable(r)' <=> Importable(r)
    BY SameSession DEF Extends, Importable
  <1> QED
    BY <1>1, <1>2 DEF Passed, Head1

-----------------------------------------------------------------------------
(* One process moves, the others stay *)

LEMMA StageStays ==
  ASSUME Inv, Extends, NEW q \in Procs, pc'[q] = pc[q], pass'[q] = pass[q]
  PROVE  Stage(q)'
  <1>1. Stage(q)
    BY DEF Inv, Settled
  <1>2. /\ Records' = Records /\ Passes' = Passes /\ Openings' = Openings
        /\ Channel' = Channel /\ session' = session
    BY SameSession DEF Extends
  <1>3. pass[q].run \in DOMAIN runs => pass[q].run \in DOMAIN runs'
    BY DEF Inv, Tables, Extends
  <1>4. Rec(q)' = Rec(q)
    BY DEF Rec
  <1>5. ASSUME pc[q] \in Holding \cup {"read"}
        PROVE  pass[q].offset <= pass[q].pos /\ pass[q].pos <= Len(file')
    <2>1. pass[q] \in Passes /\ pass[q].offset <= pass[q].pos /\ pass[q].pos <= Len(file)
      BY <1>1, <1>5 DEF Stage, Holding, Outside
    <2>2. pass[q].pos \in Nat /\ Len(file) \in Nat /\ Len(file') \in Nat
      BY <2>1, PassFields DEF Inv, Layout, Extends
    <2> QED
      BY <2>1, <2>2 DEF Extends
  <1>6. ASSUME pc[q] \in Holding
        PROVE  Held(q)'
    <2>1. pass[q] \in Passes /\ pass[q].offset <= pass[q].pos /\ pass[q].pos <= Len(file) /\ Held(q)
      BY <1>1, <1>6 DEF Stage, Holding, Outside
    <2>2. pass[q].pos \in Nat /\ pass[q].offset \in Nat /\ Len(file) \in Nat
      BY <2>1, PassFields DEF Inv, Layout
    <2>3. pass[q].pos - 2 \in DOMAIN file
      BY <2>1, <2>2 DEF Held, Inv, Layout
    <2>4. file'[pass[q].pos - 2] = file[pass[q].pos - 2]
      BY <2>3 DEF Extends
    <2> QED
      BY <1>2, <1>4, <2>1, <2>4 DEF Held, Head1
  <1>7. /\ Identifies(Rec(q)) => Identifies(Rec(q))'
        /\ Importable(Rec(q)) => Importable(Rec(q))'
    BY <1>2, <1>4 DEF Identifies, Importable
  <1> QED
    BY <1>1, <1>2, <1>3, <1>5, <1>6, <1>7 DEF Stage

LEMMA ProgressStays ==
  ASSUME Inv, Extends, NEW q \in Procs, pc'[q] = pc[q], pass'[q] = pass[q]
  PROVE  Progress(q)'
  <1>1. Stage(q) /\ Progress(q) /\ Layout /\ Tables
    BY DEF Inv, Settled
  <1>2. ASSUME pc[q] \in Holding \cup {"read"}
        PROVE  /\ pass[q].op \in Ops
               /\ pass[q].pos \in Nat /\ pass[q].pos <= Len(file)
               /\ pc[q] \in Holding => pass[q].pos - 3 \in Nat /\ pass[q].pos - 3 <= Len(file)
    <2>1. pass[q] \in Passes /\ pass[q].pos <= Len(file)
      BY <1>1, <1>2 DEF Stage, Holding, Outside
    <2>2. pc[q] \in Holding => pass[q].offset <= pass[q].pos - 3
      BY <1>1 DEF Stage, Held
    <2>3. Len(file) \in Nat
      BY <1>1 DEF Layout
    <2> QED
      BY <2>1, <2>2, <2>3, PassFields
  <1>3. \A op \in Ops, n \in Nat : n <= Len(file) /\ Passed(op, n) => Passed(op, n)'
    BY <1>1, PassedStays
  <1>4. ASSUME pc[q] \in {"read", "cursor"}
        PROVE  Passed(pass[q].op, pass[q].pos)'
    <2>1. Passed(pass[q].op, pass[q].pos) /\ pass[q].op \in Ops
          /\ pass[q].pos \in Nat /\ pass[q].pos <= Len(file)
      BY <1>1, <1>2, <1>4 DEF Progress, Holding
    <2> QED
      BY <1>3, <2>1 DEF Passed, Stored
  <1>5. ASSUME pc[q] \in Holding
        PROVE  Passed(pass[q].op, pass[q].pos - 3)'
    <2>1. Passed(pass[q].op, pass[q].pos - 3) /\ pass[q].op \in Ops
          /\ pass[q].pos - 3 \in Nat /\ pass[q].pos - 3 <= Len(file)
      BY <1>1, <1>2, <1>5 DEF Progress
    <2> QED
      BY SMTT(20), <1>3, <2>1 DEF Passed, Stored
  <1> QED
    BY <1>4, <1>5 DEF Progress

LEMMA RebuildsStays ==
  ASSUME Inv, Extends, NEW q \in Procs, pc'[q] = pc[q], pass'[q] = pass[q]
  PROVE  Rebuilds(q)'
  <1>1. Rebuilds(q) /\ Tables
    BY DEF Inv, Settled
  <1>2. \A i, k \in Nat : Gap(i, k)' => Gap(i, k)
    BY DEF Extends
  <1>3. Legacy' = Legacy
    BY SameSession DEF Extends
  <1>4. ASSUME NEW i \in DOMAIN runs, NEW k \in DOMAIN runs[i].events
        PROVE  /\ i \in DOMAIN runs'
               /\ k \in DOMAIN runs'[i].events
               /\ runs'[i].events[k] = runs[i].events[k]
    <2>1. i \in DOMAIN runs' /\ runs'[i] \in Run
      BY <1>1 DEF Extends, Tables
    <2>2. DOMAIN runs[i].events = 1..Len(runs[i].events) /\ Len(runs[i].events) \in Nat
      BY <1>1, RunTypes
    <2>3. runs'[i].events \in Seq(Event)
      BY <2>1, RunFields
    <2> QED
      BY <1>4, <2>1, <2>2, <2>3 DEF Extends
  <1>5. pc[q] = "rebuild" =>
          /\ \A m \in pass[q].missing : /\ m[1] \in DOMAIN runs'
                                        /\ m[2] \in DOMAIN runs'[m[1]].events
                                        /\ runs'[m[1]].events[m[2]] = Legacy'.events[1]
          /\ \A i, k \in Nat : Gap(i, k)' => \E m \in pass[q].missing : m[1] = i /\ m[2] = k
    BY <1>1, <1>2, <1>3, <1>4 DEF Rebuilds
  <1>6. pc[q] \notin {"closed", "rebuild"} => \A i, k \in Nat : ~(Gap(i, k)')
    BY <1>1, <1>2 DEF Rebuilds
  <1>7. pc'[q] = pc[q] /\ pass'[q].missing = pass[q].missing
    OBVIOUS
  <1>8. ASSUME pc'[q] = "rebuild"
        PROVE  /\ \A m \in pass'[q].missing : /\ m[1] \in DOMAIN runs'
                                               /\ m[2] \in DOMAIN runs'[m[1]].events
                                               /\ runs'[m[1]].events[m[2]] = Legacy'.events[1]
               /\ \A i, k \in Nat :
                    Gap(i, k)' => \E m \in pass'[q].missing : m[1] = i /\ m[2] = k
    BY <1>5, <1>7, <1>8
  <1>9. pc'[q] \notin {"closed", "rebuild"} => \A i, k \in Nat : ~(Gap(i, k)')
    BY <1>6, <1>7
  <1> QED
    BY <1>8, <1>9 DEF Rebuilds

LEMMA IdentityStays ==
  ASSUME Inv, Extends, NEW q \in Procs, pc'[q] = pc[q], pass'[q] = pass[q],
         /\ Importing(q)
         /\ pass[q].run \in DOMAIN runs
         /\ pass[q].run \notin shared'
         => runs'[pass[q].run].metadata = runs[pass[q].run].metadata
  PROVE  Identity(q)'
  <1>1. Identity(q) /\ Stage(q)
    BY DEF Inv, Settled
  <1>2. session' = session /\ shared \subseteq shared' /\ unlinked \subseteq unlinked'
    BY DEF Extends
  <1>3. Rec(q)' = Rec(q) /\ (Importing(q)' <=> Importing(q))
    BY DEF Rec, Importing
  <1>4. Identifies(Rec(q))' <=> Identifies(Rec(q))
    BY <1>2, <1>3 DEF Identifies
  <1>5. pc[q] \in {"update", "append"} => pass[q].run \in DOMAIN runs
    BY <1>1 DEF Stage, Outside
  <1> QED
    BY <1>1, <1>2, <1>3, <1>4, <1>5 DEF Identity

\* A step of p settles everything when it settles p, and takes nobody's metadata
\* and nobody's run who has it for himself.
LEMMA Moves ==
  ASSUME Inv, Extends, NEW p \in Procs,
         \A q \in Procs \ {p} : pc'[q] = pc[q] /\ pass'[q] = pass[q],
         DOMAIN pass' = Procs,
         \A q \in Procs \ {p} :
            /\ Importing(q)
            /\ pass[q].run \in DOMAIN runs
            /\ pass[q].run \notin shared'
            => runs'[pass[q].run].metadata = runs[pass[q].run].metadata,
         \A q \in Procs \ {p} :
            /\ Importing(p)'
            /\ Importing(q)
            /\ pass[q].run = pass'[p].run
            => pass'[p].run \in shared' \cup {0},
         Settled(p)'
  PROVE  (Apart /\ \A q \in Procs : Settled(q))'
  <1>1. ASSUME NEW q \in Procs, q # p
        PROVE  Settled(q)'
    <2>1. pc'[q] = pc[q] /\ pass'[q] = pass[q]
      BY <1>1
    <2>2. /\ Importing(q)
          /\ pass[q].run \in DOMAIN runs
          /\ pass[q].run \notin shared'
          => runs'[pass[q].run].metadata = runs[pass[q].run].metadata
      BY <1>1
    <2>3. Stage(q)' /\ Progress(q)' /\ Rebuilds(q)' /\ Identity(q)'
      BY <2>1, <2>2, StageStays, ProgressStays, RebuildsStays, IdentityStays
    <2> QED
      BY <2>3 DEF Settled
  <1>2. ASSUME NEW q \in Procs, NEW w \in Procs, q # w,
               Importing(q)', Importing(w)', pass'[q].run = pass'[w].run
        PROVE  pass'[q].run \in shared' \cup {0}
    <2>1. ASSUME NEW x \in Procs, x # p
          PROVE  (Importing(x)' <=> Importing(x)) /\ pass'[x] = pass[x]
      BY <2>1 DEF Importing
    <2>2. CASE q = p
      BY <1>2, <2>1, <2>2
    <2>3. CASE w = p
      BY <1>2, <2>1, <2>3
    <2>4. CASE q # p /\ w # p
      <3>1. pass[q].run \in shared \cup {0}
        BY <1>2, <2>1, <2>4 DEF Inv, Apart
      <3> QED
        BY <2>1, <2>4, <3>1 DEF Extends
    <2> QED
      BY <2>2, <2>3, <2>4
  <1>3. \A q \in Procs : Settled(q)'
    BY <1>1
  <1>4. Apart'
    BY <1>2 DEF Apart
  <1> QED
    BY <1>3, <1>4

LEMMA Unmoved ==
  ASSUME Inv, UNCHANGED <<session, file, runs>>, shared \subseteq shared',
         unlinked \subseteq unlinked'
  PROVE  Extends
  <1>1. file \in Seq(Cells) /\ Len(file) \in Nat
    BY DEF Inv, Layout
  <1>2. runs \in Seq(Run) /\ Len(runs) \in Nat
    BY DEF Inv, Tables
  <1>3. \A i \in DOMAIN runs : /\ Len(runs[i].index) = Len(runs[i].events)
                               /\ Len(runs[i].events) \in Nat
    BY RunTypes DEF Inv, Tables
  <1>4. \A i, k \in Nat : Gap(i, k)' => Gap(i, k)
    BY DEF Gap, Missing
  <1> QED
    BY <1>1, <1>2, <1>3, <1>4 DEF Extends

\* A step that changes what a process has in memory, and nothing in the ledger.
LEMMA PassStep ==
  ASSUME Inv, NEW p \in Procs, NEW l \in Labels,
         UNCHANGED <<session, file, runs, bound, cursors>>,
         shared \subseteq shared', shared' \subseteq DOMAIN runs,
         unlinked \subseteq unlinked', unlinked' \subseteq (DOMAIN runs) \X Records,
         failures' \in 0..MaxFailures,
         pc' = [pc EXCEPT ![p] = l],
         DOMAIN pass' = Procs,
         \A q \in Procs \ {p} : pass'[q] = pass[q],
         \A q \in Procs \ {p} :
            Importing(p)' /\ Importing(q) /\ pass[q].run = pass'[p].run
            => pass'[p].run \in shared' \cup {0},
         Settled(p)'
  PROVE  Inv'
  <1>1. Extends
    BY Unmoved
  <1>2. /\ Tables /\ Layout /\ CursorsInside /\ NothingSkipped /\ Rows /\ IdentityKept
    BY DEF Inv
  <1>3. (Apart /\ \A q \in Procs : Settled(q))'
    <2>1. \A q \in Procs \ {p} : pc'[q] = pc[q]
      BY <1>2 DEF Tables
    <2> QED
      BY <1>1, <2>1, Moves
  <1>4. Tables'
    <2>1. pc' \in [Procs -> Labels]
      BY <1>2 DEF Tables
    <2>2. Run' = Run /\ Records' = Records
      BY SameSession
    <2> QED
      BY <1>2, <2>1, <2>2 DEF Tables
  <1>5. Layout'
    BY <1>2, SameSession DEF Layout, Begun, Head1, Tail1, NL
  <1>6. CursorsInside' /\ NothingSkipped'
    BY <1>2, SameSession DEF CursorsInside, NothingSkipped, Stored, Imported, Importable, Head1
  <1>7. Rows' /\ IdentityKept'
    BY <1>2, SameSession DEF Rows, IdentityKept, Imported, Identifies
  <1> QED
    BY <1>3, <1>4, <1>5, <1>6, <1>7 DEF Inv

LEMMA SameFiles ==
  ASSUME Inv, NEW p \in Procs, NEW l \in Labels, NEW s,
         Go(p, l), pass' = [pass EXCEPT ![p] = s]
  PROVE  /\ pc' = [pc EXCEPT ![p] = l] /\ pc'[p] = l
         /\ \A q \in Procs \ {p} : pc'[q] = pc[q] /\ pass'[q] = pass[q]
         /\ DOMAIN pass' = Procs
         /\ pass'[p] = s
         /\ pc' \in [Procs -> Labels]
  <1>1. pc \in [Procs -> Labels] /\ DOMAIN pass = Procs
    BY DEF Inv, Tables
  <1> QED
    BY <1>1 DEF Go

\* Whoever is outside a pass holds nothing.
LEMMA Outsiders ==
  ASSUME NEW p \in Procs, pc'[p] \in Outside, pass'[p] = Idle,
         pc'[p] = "ready" => \A i, k \in Nat : ~(Gap(i, k)')
  PROVE  Settled(p)' /\ ~(Importing(p)')
  <1>1. pc'[p] = "closed" \/ pc'[p] = "ready"
    BY DEF Outside
  <1>2. ~(Importing(p)')
    BY NotIdle DEF Importing
  <1>3. Stage(p)'
    BY <1>1 DEF Stage, Outside, Holding
  <1>4. Progress(p)'
    BY <1>1 DEF Progress, Holding
  <1>5. Rebuilds(p)'
    BY <1>1 DEF Rebuilds
  <1>6. Identity(p)'
    BY <1>2 DEF Identity
  <1> QED
    BY <1>2, <1>3, <1>4, <1>5, <1>6 DEF Settled

\* No row is missing any more when a process has come past the rebuilding.
LEMMA NoGapsLater ==
  ASSUME Inv, Extends, NEW p \in Procs, pc[p] \notin {"closed", "rebuild"}
  PROVE  /\ \A i, k \in Nat : ~Gap(i, k) /\ ~(Gap(i, k)')
         /\ pc'[p] # "rebuild" => Rebuilds(p)'
  <1>1. \A i, k \in Nat : ~Gap(i, k)
    BY DEF Inv, Settled, Rebuilds
  <1>2. \A i, k \in Nat : ~(Gap(i, k)')
    BY <1>1 DEF Extends
  <1> QED
    BY <1>1, <1>2 DEF Rebuilds

LEMMA LeaveStep ==
  ASSUME Inv, NEW p \in Procs, NEW l \in Outside, Leave(p, l),
         UNCHANGED <<session, file, runs, bound, cursors, shared, unlinked>>,
         failures' \in 0..MaxFailures,
         l = "ready" => pc[p] \notin {"closed", "rebuild"} \/ \A i, k \in Nat : ~Gap(i, k)
  PROVE  Inv'
  <1>0. l \in Labels /\ Go(p, l) /\ pass' = [pass EXCEPT ![p] = Idle]
    BY DEF Outside, Labels, Leave, Idle
  <1>1. Extends
    BY Unmoved
  <1>2. l = "ready" => \A i, k \in Nat : ~(Gap(i, k)')
    BY <1>1, NoGapsLater DEF Extends
  <1>3. /\ pc' = [pc EXCEPT ![p] = l] /\ pc'[p] = l
        /\ \A q \in Procs \ {p} : pass'[q] = pass[q]
        /\ DOMAIN pass' = Procs
        /\ pass'[p] = Idle
    BY <1>0, SameFiles
  <1>4. Settled(p)' /\ ~(Importing(p)')
    BY <1>2, <1>3, Outsiders
  <1>5. shared' \subseteq DOMAIN runs /\ unlinked' \subseteq (DOMAIN runs) \X Records
    BY DEF Inv, Tables
  <1> QED
    BY <1>0, <1>3, <1>4, <1>5, PassStep

-----------------------------------------------------------------------------
(* Opening the ledger and beginning a pass *)

LEMMA GapsListed ==
  ASSUME Inv
  PROVE  /\ \A i, k \in Nat : Gap(i, k) => \E m \in MissingIndex : m[1] = i /\ m[2] = k
         /\ \A m \in MissingIndex :
              /\ m \in Nat \X Nat \X Label
              /\ m[1] \in DOMAIN runs
              /\ m[2] \in DOMAIN runs[m[1]].events
              /\ runs[m[1]].events[m[2]] = Legacy.events[1]
  <1>1. ASSUME NEW i \in Nat, NEW k \in Nat, Gap(i, k)
        PROVE  \E m \in MissingIndex : m[1] = i /\ m[2] = k
    <2>1. <<i, k, runs[i].label>> \in MissingIndex
      BY <1>1 DEF Gap, MissingIndex
    <2> QED
      BY <2>1
  <1>2. ASSUME NEW m \in MissingIndex
        PROVE  /\ m \in Nat \X Nat \X Label
               /\ m[1] \in DOMAIN runs
               /\ m[2] \in DOMAIN runs[m[1]].events
               /\ runs[m[1]].events[m[2]] = Legacy.events[1]
    <2>0. PICK i \in DOMAIN runs :
                 m \in {<<i, k, runs[i].label>> :
                           k \in {n \in DOMAIN runs[i].index : runs[i].index[n] = Missing}}
      BY DEF MissingIndex
    <2>1. PICK k \in DOMAIN runs[i].index :
                 runs[i].index[k] = Missing /\ m = <<i, k, runs[i].label>>
      BY <2>0
    <2>2. /\ i \in Nat /\ k \in Nat /\ runs[i].label \in Label
          /\ k \in DOMAIN runs[i].events
      BY <2>1, RunTypes DEF Inv, Tables
    <2>3. runs[i].label # Missing
      BY <2>2 DEF Label, Records, Missing
    <2>4. runs[i].events[k] = Legacy.events[1]
      BY <2>1, <2>3 DEF Inv, Rows
    <2> QED
      BY <2>1, <2>2, <2>4
  <1> QED
    BY <1>1, <1>2

LEMMA RebuildReadStep ==
  ASSUME Inv, NEW p \in Procs, RebuildRead(p)
  PROVE  Inv'
  <1>1. /\ pc[p] = "closed"
        /\ UNCHANGED <<session, file, runs, bound, cursors, failures, shared, unlinked>>
    BY DEF RebuildRead, source, store, history
  <1>2. /\ failures' \in 0..MaxFailures /\ shared' \subseteq DOMAIN runs
        /\ unlinked' \subseteq (DOMAIN runs) \X Records
    BY <1>1 DEF Inv, Tables
  <1>3. CASE MissingIndex = {}
    <2>1. Leave(p, "ready") /\ "ready" \in Outside
      BY <1>3 DEF RebuildRead, Outside
    <2>2. \A i, k \in Nat : ~Gap(i, k)
      BY <1>3, GapsListed
    <2> QED
      BY <1>1, <1>2, <2>1, <2>2, LeaveStep
  <1>4. CASE MissingIndex # {}
    <2> DEFINE s == [op |-> "open", missing |-> MissingIndex]
    <2>1. Go(p, "rebuild") /\ pass' = [pass EXCEPT ![p] = s] /\ "rebuild" \in Labels
      BY <1>4 DEF RebuildRead, Labels
    <2>2. s \in Openings /\ s.op = "open" /\ s.missing = MissingIndex
      <3>1. MissingIndex \subseteq Nat \X Nat \X Label
        BY GapsListed
      <3> QED
        BY <3>1 DEF Openings
    <2> HIDE DEF s
    <2>3. /\ pc' = [pc EXCEPT ![p] = "rebuild"] /\ pc'[p] = "rebuild"
          /\ \A q \in Procs \ {p} : pass'[q] = pass[q]
          /\ DOMAIN pass' = Procs
          /\ pass'[p] = s
      BY <2>1, SameFiles
    <2>4. Stage(p)' /\ Progress(p)' /\ Identity(p)' /\ ~(Importing(p)')
      <3>1. ~(Importing(p)')
        BY <2>2, <2>3 DEF Importing
      <3>2. Stage(p)'
        BY <1>1, <2>2, <2>3, SameSession DEF Stage, Outside, Holding
      <3> QED
        BY <2>3, <3>1, <3>2 DEF Progress, Identity, Holding
    <2>5. Rebuilds(p)'
      <3>1. Legacy' = Legacy
        BY <1>1, SameSession
      <3>2. \A i, k \in Nat : Gap(i, k)' => Gap(i, k)
        BY <1>1 DEF Gap, Missing
      <3>3. \A i, k \in Nat : Gap(i, k)' => \E m \in pass'[p].missing : m[1] = i /\ m[2] = k
        BY <2>2, <2>3, <3>2, GapsListed
      <3>4. \A m \in pass'[p].missing : /\ m[1] \in DOMAIN runs'
                                        /\ m[2] \in DOMAIN runs'[m[1]].events
                                        /\ runs'[m[1]].events[m[2]] = Legacy'.events[1]
        BY <1>1, <2>2, <2>3, <3>1, GapsListed
      <3> QED
        BY <2>3, <3>3, <3>4 DEF Rebuilds
    <2>6. Settled(p)'
      BY <2>4, <2>5 DEF Settled
    <2> QED
      BY <1>1, <1>2, <2>1, <2>3, <2>4, <2>6, PassStep
  <1> QED
    BY <1>3, <1>4

LEMMA BeginPass ==
  ASSUME Inv, NEW p \in Procs, NEW op \in Ops, NEW run \in 0..Len(runs),
         NEW l \in {"start", "open"}, Begin(p, op, run), Go(p, l),
         pc[p] = "ready", op = Channel,
         l = "start" => op = "sync" /\ run = 0,
         l = "open" => run # 0,
         UNCHANGED <<session, file, runs, bound, cursors, failures, unlinked>>,
         shared \subseteq shared', shared' \subseteq DOMAIN runs,
         \A q \in Procs \ {p} :
            op = "sync" /\ Importing(q) /\ pass[q].run = run => run \in shared' \cup {0}
  PROVE  Inv'
  <1> DEFINE s == [op |-> op, run |-> run, pos |-> 0, offset |-> 0,
                   line |-> <<>>, metadata |-> {}]
  <1>1. pass' = [pass EXCEPT ![p] = s] /\ l \in Labels
    BY DEF Begin, Labels
  <1>2. s \in Passes /\ s.op = op /\ s.run = run
    <2>1. Len(runs) \in Nat /\ <<>> \in Seq(Cells)
      BY DEF Inv, Tables
    <2> QED
      BY <2>1 DEF Passes
  <1> HIDE DEF s
  <1>3. /\ pc' = [pc EXCEPT ![p] = l] /\ pc'[p] = l
        /\ \A q \in Procs \ {p} : pass'[q] = pass[q]
        /\ DOMAIN pass' = Procs
        /\ pass'[p] = s
    BY <1>1, SameFiles
  <1>4. Extends
    BY Unmoved
  <1>5. Stage(p)'
    <2>1. run # 0 => run \in DOMAIN runs
      BY DEF Inv, Tables
    <2> QED
      BY <1>2, <1>3, <2>1, SameSession DEF Stage, Outside, Holding
  <1>6. Progress(p)' /\ Identity(p)'
    BY <1>3 DEF Progress, Identity, Holding
  <1>7. Rebuilds(p)'
    BY <1>3, <1>4, NoGapsLater
  <1>8. \A q \in Procs \ {p} :
            Importing(p)' /\ Importing(q) /\ pass[q].run = pass'[p].run
            => pass'[p].run \in shared' \cup {0}
    BY <1>2, <1>3 DEF Importing
  <1>9. /\ Settled(p)' /\ failures' \in 0..MaxFailures
        /\ unlinked' \subseteq (DOMAIN runs) \X Records
    BY <1>5, <1>6, <1>7 DEF Settled, Inv, Tables
  <1> QED
    BY <1>1, <1>3, <1>8, <1>9, PassStep

LEMMA SourceRunStep ==
  ASSUME Inv, NEW p \in Procs, SourceRun(p)
  PROVE  Inv'
  <1>1. /\ pc[p] = "ready" /\ Discovered
        /\ Begin(p, "sync", bound)
        /\ shared' = shared \cup {i \in {bound} \cap DOMAIN runs :
                                    \E q \in Procs : Importing(q) /\ pass[q].run = i}
        /\ UNCHANGED <<session, file, runs, bound, cursors, failures, unlinked>>
    BY DEF SourceRun, source, store
  <1>2. bound \in 0..Len(runs) /\ Len(runs) \in Nat /\ shared \subseteq DOMAIN runs
    BY DEF Inv, Tables
  <1>3. "sync" \in Ops /\ "sync" = Channel
    BY <1>1 DEF Ops, Channel
  <1>4. shared \subseteq shared' /\ shared' \subseteq DOMAIN runs
    BY <1>1, <1>2
  <1>5. \A q \in Procs \ {p} :
            Importing(q) /\ pass[q].run = bound => bound \in shared' \cup {0}
    <2>1. bound # 0 => bound \in DOMAIN runs
      BY <1>2 DEF Inv, Tables
    <2> QED
      BY <1>1, <2>1
  <1>6. CASE bound = 0
    <2>1. Go(p, "start")
      BY <1>6 DEF SourceRun
    <2> QED
      BY <1>1, <1>2, <1>3, <1>4, <1>5, <1>6, <2>1, BeginPass
  <1>7. CASE bound # 0
    <2>1. Go(p, "open")
      BY <1>7 DEF SourceRun
    <2> QED
      BY <1>1, <1>2, <1>3, <1>4, <1>5, <1>7, <2>1, BeginPass
  <1> QED
    BY <1>6, <1>7

LEMMA PullFileStep ==
  ASSUME Inv, NEW p \in Procs, PullFile(p)
  PROVE  Inv'
  <1>1. /\ pc[p] = "ready" /\ ~Discovered
        /\ Begin(p, "pull", 1)
        /\ Go(p, "open")
        /\ UNCHANGED <<session, file, runs, bound, cursors, failures, shared, unlinked>>
    BY DEF PullFile, PullRun, source, store, history
  <1>2. 1 \in 0..Len(runs) /\ shared' \subseteq DOMAIN runs
    BY <1>1 DEF Inv, Tables
  <1>3. "pull" \in Ops /\ "pull" = Channel
    BY <1>1 DEF Ops, Channel
  <1> QED
    BY <1>1, <1>2, <1>3, BeginPass

LEMMA ContinueStep ==
  ASSUME Inv, NEW p \in Procs, NEW l \in Labels, NEW s,
         Go(p, l), pass' = [pass EXCEPT ![p] = s],
         pc[p] \notin Outside \cup {"rebuild"}, l # "rebuild",
         s.op = pass[p].op, s.run = pass[p].run,
         UNCHANGED <<session, file, runs, bound, cursors, failures, shared, unlinked>>,
         Stage(p)', Progress(p)', Identity(p)'
  PROVE  Inv'
  <1>1. /\ pc' = [pc EXCEPT ![p] = l] /\ pc'[p] = l
        /\ \A q \in Procs \ {p} : pass'[q] = pass[q]
        /\ DOMAIN pass' = Procs
        /\ pass'[p] = s
    BY SameFiles
  <1>2. Extends
    BY Unmoved
  <1>3. Rebuilds(p)'
    BY <1>1, <1>2, NoGapsLater DEF Outside
  <1>4. Settled(p)'
    BY <1>3 DEF Settled
  <1>5. \A q \in Procs \ {p} :
            Importing(p)' /\ Importing(q) /\ pass[q].run = pass'[p].run
            => pass'[p].run \in shared' \cup {0}
    BY <1>1 DEF Inv, Apart, Importing
  <1>6. /\ failures' \in 0..MaxFailures /\ shared' \subseteq DOMAIN runs /\ shared \subseteq shared'
        /\ unlinked \subseteq unlinked' /\ unlinked' \subseteq (DOMAIN runs) \X Records
    BY DEF Inv, Tables
  <1> QED
    BY <1>1, <1>4, <1>5, <1>6, PassStep

LEMMA OpenFileStep ==
  ASSUME Inv, NEW p \in Procs, OpenFile(p)
  PROVE  Inv'
  <1> DEFINE offset == cursors[pass[p].op]
             s == [pass[p] EXCEPT !.pos = offset, !.offset = offset]
  <1>1. /\ pc[p] = "open"
        /\ UNCHANGED <<session, file, runs, bound, cursors, failures, shared, unlinked>>
    BY DEF OpenFile, source, store, history
  <1>2. pass[p] \in Passes /\ pass[p].op = Channel /\ pass[p].run \in DOMAIN runs
    BY <1>1 DEF Inv, Settled, Stage, Outside
  <1>3. /\ failures' \in 0..MaxFailures /\ shared' \subseteq DOMAIN runs
        /\ offset \in Nat /\ Len(file) \in Nat
    BY <1>1, <1>2, PassFields DEF Inv, Tables, Layout
  <1>4. CASE Len(file) < offset
    <2>1. Leave(p, "ready") /\ "ready" \in Outside
      BY <1>4 DEF OpenFile, Outside
    <2> QED
      BY <1>1, <1>3, <2>1, LeaveStep
  <1>5. CASE ~(Len(file) < offset)
    <2>1. pass' = [pass EXCEPT ![p] = s] /\ Go(p, "read") /\ "read" \in Labels
      BY <1>5 DEF OpenFile, Labels
    <2>2. /\ s \in Passes /\ s.op = pass[p].op /\ s.run = pass[p].run
          /\ s.pos = offset /\ s.offset = offset
      BY <1>2, <1>3, PassChanges DEF Passes
    <2>3. Extends
      BY <1>1, Unmoved
    <2> HIDE DEF s
    <2>4. /\ pc' = [pc EXCEPT ![p] = "read"] /\ pc'[p] = "read"
          /\ \A q \in Procs \ {p} : pass'[q] = pass[q]
          /\ DOMAIN pass' = Procs
          /\ pass'[p] = s
      BY <2>1, SameFiles
    <2>5. Stage(p)'
      BY <1>1, <1>2, <1>3, <1>5, <2>2, <2>4, SameSession DEF Stage, Outside, Holding
    <2>6. Progress(p)'
      <3>1. Passed(pass[p].op, offset)
        BY <1>2, PassFields DEF Passed, Inv, NothingSkipped
      <3>2. \A op \in Ops, n \in Nat : n <= Len(file) /\ Passed(op, n) => Passed(op, n)'
        BY <2>3, PassedStays DEF Inv
      <3>3. /\ pass[p].op \in Ops /\ offset <= Len(file)
            /\ pass'[p].op = pass[p].op /\ pass'[p].pos = offset
        BY <1>2, <1>3, <1>5, <2>2, <2>4, PassFields
      <3> HIDE DEF offset
      <3>4. Passed(pass[p].op, pass[p].pos)'
        BY <1>3, <3>1, <3>2, <3>3 DEF Passed, Stored
      <3> QED
        BY <2>4, <3>4 DEF Progress, Holding
    <2>7. Identity(p)'
      BY <2>4 DEF Identity
    <2> QED
      BY <1>1, <2>1, <2>2, <2>5, <2>6, <2>7, ContinueStep DEF Outside
  <1> QED
    BY <1>4, <1>5

-----------------------------------------------------------------------------
(* One line *)

\* What op has passed, with the file up to n, is passed by a process that moves
\* on to n.
LEMMA PassedNow ==
  ASSUME Inv, Extends, NEW p \in Procs, NEW op \in Ops, NEW n \in Nat,
         n <= Len(file), Passed(op, n), pass'[p].op = op
  PROVE  /\ pass'[p].pos = n => Passed(pass[p].op, pass[p].pos)'
         /\ pass'[p].pos - 3 = n => Passed(pass[p].op, pass[p].pos - 3)'
  <1>1. Passed(op, n)'
    BY PassedStays DEF Inv
  <1> QED
    BY <1>1 DEF Passed, Stored

LEMMA ReaderFacts ==
  ASSUME Inv, NEW p \in Procs, pc[p] \in Holding \cup {"read"}
  PROVE  /\ pass[p] \in Passes
         /\ pass[p].op \in Ops /\ pass[p].op = Channel
         /\ pass[p].run \in DOMAIN runs
         /\ pass[p].pos \in 0..Len(file) /\ pass[p].offset \in Nat
         /\ pass[p].offset <= pass[p].pos
         /\ pc[p] \notin Outside \cup {"rebuild"}
         /\ pc[p] \in Holding => /\ Held(p) /\ pass[p].pos - 3 \in Nat
                                 /\ Passed(pass[p].op, pass[p].pos - 3)
         /\ pc[p] = "read" => Passed(pass[p].op, pass[p].pos)
  <1>1. Stage(p) /\ Progress(p) /\ Len(file) \in Nat
    BY DEF Inv, Settled, Layout
  <1>2. /\ pass[p] \in Passes
        /\ pass[p].op = Channel
        /\ pass[p].run \in DOMAIN runs
        /\ pass[p].pos <= Len(file) /\ pass[p].offset <= pass[p].pos
        /\ pc[p] \notin Outside \cup {"rebuild"}
        /\ pc[p] \in Holding => Held(p)
    BY <1>1 DEF Stage, Outside, Holding
  <1>3. pass[p].op \in Ops /\ pass[p].pos \in Nat /\ pass[p].offset \in Nat
    BY <1>2, PassFields
  <1>4. pc[p] \in Holding => pass[p].pos - 3 \in Nat
    BY <1>2, <1>3 DEF Held
  <1> QED
    BY <1>1, <1>2, <1>3, <1>4 DEF Progress

LEMMA ReadBlankLineStep ==
  ASSUME Inv, NEW p \in Procs, ReadBlankLine(p)
  PROVE  Inv'
  <1> DEFINE line == Line(pass[p].pos)
             n == pass[p].pos + Len(line)
             s == [pass[p] EXCEPT !.pos = n]
             l == IF AtEOF(line) THEN "end" ELSE "read"
  <1>1. /\ pc[p] = "read" /\ IsBlank(line)
        /\ pass' = [pass EXCEPT ![p] = s]
        /\ Go(p, l)
        /\ UNCHANGED <<session, file, runs, bound, cursors, failures, shared, unlinked>>
    BY DEF ReadBlankLine, source, store, history
  <1>2. /\ pass[p] \in Passes /\ pass[p].op \in Ops /\ pass[p].op = Channel
        /\ pass[p].run \in DOMAIN runs
        /\ pass[p].pos \in 0..Len(file) /\ pass[p].offset \in Nat
        /\ pass[p].offset <= pass[p].pos
        /\ pc[p] \notin Outside \cup {"rebuild"}
        /\ Passed(pass[p].op, pass[p].pos)
    BY <1>1, ReaderFacts
  <1>3. Layout /\ Len(file) \in Nat
    BY DEF Inv, Layout
  <1>4. /\ n \in pass[p].pos..Len(file)
        /\ \A i \in DOMAIN file : \A r \in Records :
             file[i] = Head1(r) /\ i <= n => i <= pass[p].pos
    BY <1>1, <1>2, <1>3, BlankLine
  <1> HIDE DEF n
  <1>5. n \in Nat /\ n <= Len(file) /\ pass[p].offset <= n
    BY <1>2, <1>3, <1>4
  <1>6. /\ s \in Passes /\ s.op = pass[p].op /\ s.run = pass[p].run
        /\ s.pos = n /\ s.offset = pass[p].offset
    BY <1>2, <1>5, PassChanges DEF Passes
  <1>7. l \in Labels /\ l \in {"end", "read"}
    BY DEF Labels
  <1> HIDE DEF s, l
  <1>8. pc'[p] = l /\ pass'[p] = s
    BY <1>1, <1>7, SameFiles
  <1>9. Extends
    BY <1>1, Unmoved
  <1>10. Stage(p)'
    BY <1>1, <1>2, <1>5, <1>6, <1>7, <1>8, SameSession DEF Stage, Outside, Holding
  <1>11. Progress(p)'
    <2>1. Passed(pass[p].op, n)
      BY <1>2, <1>4 DEF Passed
    <2>2. Passed(pass[p].op, pass[p].pos)'
      BY <1>2, <1>5, <1>6, <1>8, <1>9, <2>1, PassedNow
    <2> QED
      BY <1>7, <1>8, <2>2 DEF Progress, Holding
  <1>12. Identity(p)'
    BY <1>7, <1>8 DEF Identity
  <1>13. l # "rebuild"
    BY <1>7
  <1> QED
    BY <1>1, <1>2, <1>6, <1>7, <1>10, <1>11, <1>12, <1>13, ContinueStep

LEMMA ReadTornLineStep ==
  ASSUME Inv, NEW p \in Procs, ReadTornLine(p)
  PROVE  Inv'
  <1>1. /\ pc[p] = "read" /\ Leave(p, "ready") /\ "ready" \in Outside
        /\ UNCHANGED <<session, file, runs, bound, cursors, failures, shared, unlinked>>
    BY DEF ReadTornLine, source, store, history, Outside
  <1> QED
    BY <1>1, LeaveStep DEF Inv, Tables

LEMMA EndPassStep ==
  ASSUME Inv, NEW p \in Procs, EndPass(p)
  PROVE  Inv'
  <1>1. /\ pc[p] = "end" /\ Leave(p, "ready") /\ "ready" \in Outside
        /\ UNCHANGED <<session, file, runs, bound, cursors, failures, shared, unlinked>>
    BY DEF EndPass, source, store, history, Outside
  <1> QED
    BY <1>1, LeaveStep DEF Inv, Tables

LEMMA FailStep ==
  ASSUME Inv, NEW p \in Procs, Fail(p)
  PROVE  Inv'
  <1>1. /\ pc[p] \notin {"closed", "ready"}
        /\ Leave(p, "closed") \/ (pc[p] # "rebuild" /\ Leave(p, "ready"))
        /\ UNCHANGED <<session, file, runs, bound, cursors, shared, unlinked>>
    BY DEF Fail, source, store
  <1>2. failures' \in 0..MaxFailures
    BY BoundsAssumption DEF Fail, Inv, Tables
  <1>3. "closed" \in Outside /\ "ready" \in Outside
    BY DEF Outside
  <1> QED
    BY <1>1, <1>2, <1>3, LeaveStep

\* Where ReadLine goes with a line.
Follow(p, line) ==
    CASE pass[p].op = "pull" -> "append"
      [] Kind(line) \in {"meta", "work"} -> "identity"
      [] Kind(line) = "item" -> "append"
      [] OTHER -> "cursor"

LEMMA FollowFacts ==
  ASSUME Inv, NEW p \in Procs, pc[p] = "read", NEW line, NEW r \in Records, line[1][1] = r
  PROVE  /\ Follow(p, line) \in {"identity", "append", "cursor"}
         /\ Follow(p, line) = "identity" => pass[p].op # "pull" /\ session[r] \in {"meta", "work"}
         /\ Follow(p, line) = "append" /\ pass[p].op # "pull" => session[r] = "item"
         /\ Follow(p, line) = "cursor" =>
              pass[p].op # "pull" /\ session[r] \notin {"meta", "work", "item"}
  <1>1. Kind(line) = session[r]
    BY DEF Kind
  <1>2. CASE pass[p].op = "pull"
    <2>1. session \in Seq(TranscriptKinds)
      <3>1. pass[p].op = Channel
        BY ReaderFacts
      <3> QED
        BY <1>2, <3>1, SessionsAssumption DEF Channel, Discovered, Inv, Tables
    <2>2. session[r] \in TranscriptKinds
      BY <2>1 DEF Records
    <2>3. Follow(p, line) = "append"
      BY <1>1, <1>2, <2>2 DEF TranscriptKinds, Follow
    <2> QED
      BY <1>2, <2>3
  <1>3. CASE pass[p].op # "pull" /\ session[r] \in {"meta", "work"}
    <2>1. Follow(p, line) = "identity"
      BY <1>1, <1>3 DEF Follow
    <2> QED
      BY <1>3, <2>1
  <1>4. CASE pass[p].op # "pull" /\ session[r] = "item"
    <2>1. Follow(p, line) = "append"
      BY <1>1, <1>4 DEF Follow
    <2> QED
      BY <1>4, <2>1
  <1>5. CASE pass[p].op # "pull" /\ session[r] \notin {"meta", "work", "item"}
    <2>1. Follow(p, line) = "cursor"
      BY <1>1, <1>5 DEF Follow
    <2> QED
      BY <1>5, <2>1
  <1> QED
    BY <1>2, <1>3, <1>4, <1>5

LEMMA ReadLineStep ==
  ASSUME Inv, NEW p \in Procs, ReadLine(p)
  PROVE  Inv'
  <1> DEFINE line == Line(pass[p].pos)
             n == pass[p].pos + Len(line)
             s == [pass[p] EXCEPT !.pos = n, !.line = line]
             l == Follow(p, line)
  <1>1. /\ pc[p] = "read"
        /\ pass' = [pass EXCEPT ![p] = s]
        /\ Go(p, l)
        /\ UNCHANGED <<session, file, runs, bound, cursors, failures, shared, unlinked>>
    BY DEF ReadLine, Follow, source, store, history
  <1>2. PICK r \in Records : Parses(line, r)
    BY DEF ReadLine
  <1>3. /\ pass[p] \in Passes /\ pass[p].op \in Ops /\ pass[p].op = Channel
        /\ pass[p].run \in DOMAIN runs
        /\ pass[p].pos \in 0..Len(file) /\ pass[p].offset \in Nat
        /\ pass[p].offset <= pass[p].pos
        /\ pc[p] \notin Outside \cup {"rebuild"}
        /\ Passed(pass[p].op, pass[p].pos)
    BY <1>1, ReaderFacts
  <1>4. Layout /\ Len(file) \in Nat
    BY DEF Inv, Layout
  <1>5. /\ line \in Seq(Cells) /\ Len(line) = 3
        /\ line[1] = Head1(r) /\ line[1][1] = r
        /\ pass[p].pos + 3 <= Len(file)
        /\ file[pass[p].pos + 1] = Head1(r)
        /\ \A i \in DOMAIN file : \A q \in Records :
             file[i] = Head1(q) /\ i <= pass[p].pos + 3 => i <= pass[p].pos \/ q = r
    BY <1>2, <1>3, <1>4, ParsedLine
  <1>6. Kind(line) = session[r]
    BY <1>5 DEF Kind
  <1> HIDE DEF line
  <1>7. /\ n = pass[p].pos + 3 /\ n \in Nat /\ n <= Len(file) /\ pass[p].offset <= n
        /\ n - 2 = pass[p].pos + 1 /\ n - 3 = pass[p].pos
    BY <1>3, <1>4, <1>5
  <1> HIDE DEF n
  <1>8. /\ s \in Passes /\ s.op = pass[p].op /\ s.run = pass[p].run
        /\ s.pos = n /\ s.offset = pass[p].offset /\ s.line = line
    BY <1>3, <1>5, <1>7, PassChanges DEF Passes
  <1>9. /\ l \in {"identity", "append", "cursor"}
        /\ l = "identity" => pass[p].op # "pull" /\ session[r] \in {"meta", "work"}
        /\ l = "append" /\ pass[p].op # "pull" => session[r] = "item"
        /\ l = "cursor" => pass[p].op # "pull" /\ session[r] \notin {"meta", "work", "item"}
    BY <1>1, <1>5, FollowFacts
  <1> HIDE DEF s, l
  <1>10. l \in Labels /\ l # "rebuild"
    BY <1>9 DEF Labels
  <1>11. pc'[p] = l /\ pass'[p] = s /\ Rec(p)' = r
    <2>1. pc'[p] = l /\ pass'[p] = s
      BY <1>1, <1>10, SameFiles
    <2> QED
      BY <1>5, <1>8, <2>1 DEF Rec
  <1>12. Extends
    BY <1>1, Unmoved
  <1>13. Held(p)'
    BY <1>1, <1>3, <1>5, <1>7, <1>8, <1>11, SameSession DEF Held, Head1
  <1>14. Stage(p)'
    <2>1. pass[p].op # "pull" => pass[p].op = "sync"
      BY <1>3 DEF Ops
    <2>2. l = "identity" => Identifies(Rec(p))'
      BY <1>1, <1>9, <1>11 DEF Identifies
    <2>3. l = "append" /\ pass[p].op = "sync" => Importable(Rec(p))'
      BY <1>1, <1>9, <1>11 DEF Importable
    <2> QED
      BY <1>1, <1>3, <1>7, <1>8, <1>9, <1>11, <1>13, <2>1, <2>2, <2>3, SameSession
         DEF Stage, Outside, Holding
  <1>15. Progress(p)'
    <2>1. Passed(pass[p].op, pass[p].pos - 3)'
      <3>1. pass[p].pos \in Nat /\ pass[p].pos <= Len(file) /\ pass'[p].pos - 3 = pass[p].pos
        BY <1>3, <1>4, <1>7, <1>8, <1>11
      <3> QED
        BY <1>3, <1>8, <1>11, <1>12, <3>1, PassedNow
    <2>2. ASSUME l = "cursor"
          PROVE  Passed(pass[p].op, pass[p].pos)'
      <3>1. pass[p].op = "sync" /\ Discovered
        BY <1>3, <1>9, <2>2 DEF Ops, Channel
      <3>2. session[r] \in Kinds
        BY <3>1, SessionsAssumption DEF Discovered, Records
      <3>3. ~Importable(r)
        BY <1>9, <2>2, <3>2 DEF Importable, Kinds
      <3>4. Passed(pass[p].op, n)
        BY <1>3, <1>5, <1>7, <3>1, <3>3 DEF Passed
      <3> QED
        BY <1>3, <1>7, <1>8, <1>11, <1>12, <3>4, PassedNow
    <2> QED
      BY <1>9, <1>11, <2>1, <2>2 DEF Progress, Holding
  <1>16. Identity(p)'
    <2>1. CASE l = "append" /\ Identifies(Rec(p))'
      <3>1. pass[p].op = "pull"
        BY <1>1, <1>9, <1>11, <2>1 DEF Identifies
      <3> QED
        BY <1>8, <1>11, <3>1 DEF Identity, Importing
    <2>2. CASE ~(l = "append" /\ Identifies(Rec(p))')
      BY <1>9, <1>11, <2>2 DEF Identity
    <2> QED
      BY <2>1, <2>2
  <1> QED
    BY <1>1, <1>3, <1>8, <1>10, <1>14, <1>15, <1>16, ContinueStep

\* Both ways of merging the record: with the marker or without.
LEMMA MergeStep ==
  ASSUME Inv, NEW p \in Procs, pc[p] = "identity", Go(p, "update"),
         NEW m \in SUBSET Records, runs[pass[p].run].metadata \subseteq m,
         pass' = [pass EXCEPT ![p].metadata = m],
         unlinked \subseteq unlinked',
         unlinked' \subseteq unlinked \cup {<<pass[p].run, Rec(p)>>},
         Rec(p) \in m \/ <<pass[p].run, Rec(p)>> \in unlinked',
         UNCHANGED <<session, file, runs, bound, cursors, failures, shared>>
  PROVE  Inv'
  <1> DEFINE s == [pass[p] EXCEPT !.metadata = m]
  <1>1. pass' = [pass EXCEPT ![p] = s]
    OBVIOUS
  <1>2. /\ pass[p] \in Passes /\ pass[p].op \in Ops /\ pass[p].op = Channel
        /\ pass[p].run \in DOMAIN runs
        /\ pass[p].pos \in 0..Len(file) /\ pass[p].offset \in Nat
        /\ pass[p].offset <= pass[p].pos
        /\ pc[p] \notin Outside \cup {"rebuild"}
        /\ Held(p) /\ pass[p].pos - 3 \in Nat
        /\ Passed(pass[p].op, pass[p].pos - 3)
    BY ReaderFacts DEF Holding
  <1>3. Rec(p) \in Records
    BY <1>2 DEF Held
  <1>4. /\ s \in Passes /\ s.op = pass[p].op /\ s.run = pass[p].run
        /\ s.pos = pass[p].pos /\ s.offset = pass[p].offset /\ s.line = pass[p].line
        /\ s.metadata = m
    BY <1>2, PassChanges DEF Passes
  <1> HIDE DEF s
  <1>5. "update" \in Labels /\ "update" # "rebuild"
    BY DEF Labels
  <1>6. /\ pc' = [pc EXCEPT ![p] = "update"]
        /\ pc'[p] = "update" /\ pass'[p] = s /\ Rec(p)' = Rec(p)
        /\ \A q \in Procs \ {p} : pass'[q] = pass[q]
        /\ DOMAIN pass' = Procs
    <2>1. /\ pc' = [pc EXCEPT ![p] = "update"]
          /\ pc'[p] = "update" /\ pass'[p] = s
          /\ \A q \in Procs \ {p} : pass'[q] = pass[q]
          /\ DOMAIN pass' = Procs
      BY <1>1, <1>5, SameFiles
    <2> QED
      BY <1>4, <2>1 DEF Rec
  <1>7. /\ failures' \in 0..MaxFailures /\ shared' \subseteq DOMAIN runs
        /\ shared \subseteq shared' /\ unlinked \subseteq unlinked'
        /\ unlinked' \subseteq (DOMAIN runs) \X Records
    BY <1>2, <1>3 DEF Inv, Tables
  <1>8. Extends
    BY <1>7, Unmoved
  <1>9. Stage(p)'
    <2>1. Identifies(Rec(p)) /\ pass[p].op = "sync"
      BY DEF Inv, Settled, Stage
    <2>2. Identifies(Rec(p))'
      BY <1>6, <2>1 DEF Identifies
    <2>3. Held(p)'
      BY <1>2, <1>4, <1>6, SameSession DEF Held, Head1
    <2> QED
      BY <1>2, <1>4, <1>6, <2>1, <2>2, <2>3, SameSession DEF Stage, Outside, Holding
  <1>10. Progress(p)'
    <2>1. pass[p].pos - 3 <= Len(file) /\ pass'[p].pos - 3 = pass[p].pos - 3
      BY <1>2, <1>4, <1>6 DEF Inv, Layout
    <2>2. Passed(pass[p].op, pass[p].pos - 3)'
      BY <1>2, <1>4, <1>6, <1>8, <2>1, PassedNow
    <2> QED
      BY <1>6, <2>2 DEF Progress
  <1>11. Identity(p)'
    BY <1>4, <1>6 DEF Identity
  <1>12. Settled(p)'
    <2>1. Rebuilds(p)'
      BY <1>2, <1>6, <1>8, NoGapsLater DEF Outside
    <2> QED
      BY <1>9, <1>10, <1>11, <2>1 DEF Settled
  <1>13. \A q \in Procs \ {p} :
            Importing(p)' /\ Importing(q) /\ pass[q].run = pass'[p].run
            => pass'[p].run \in shared' \cup {0}
    BY <1>4, <1>6 DEF Inv, Apart, Importing
  <1> QED
    BY <1>5, <1>6, <1>7, <1>12, <1>13, PassStep

LEMMA ReadIdentityStep ==
  ASSUME Inv, NEW p \in Procs, ReadIdentity(p) \/ RefuseMarker(p)
  PROVE  Inv'
  <1> DEFINE k == runs[pass[p].run].metadata
  <1>1. /\ pc[p] = "identity" /\ Go(p, "update")
        /\ UNCHANGED <<session, file, runs, bound, cursors, failures, shared>>
    BY DEF ReadIdentity, RefuseMarker, source, store, history
  <1>2. Rec(p) \in Records /\ k \subseteq Records
    <2>1. pass[p].run \in DOMAIN runs /\ Held(p)
      BY <1>1, ReaderFacts DEF Holding
    <2> QED
      BY <2>1, RunTypes DEF Inv, Held
  <1>3. CASE ReadIdentity(p)
    <2>1. /\ pass' = [pass EXCEPT ![p].metadata = k \cup {Rec(p)}]
          /\ unlinked' = unlinked
      BY <1>3 DEF ReadIdentity, history
    <2>2. k \cup {Rec(p)} \in SUBSET Records /\ k \subseteq k \cup {Rec(p)}
          /\ Rec(p) \in k \cup {Rec(p)}
      BY <1>2
    <2> QED
      BY <1>1, <2>1, <2>2, MergeStep
  <1>4. CASE RefuseMarker(p)
    <2>1. /\ pass' = [pass EXCEPT ![p].metadata = k]
          /\ unlinked' = unlinked \cup {<<pass[p].run, Rec(p)>>}
      BY <1>4 DEF RefuseMarker
    <2> QED
      BY <1>1, <1>2, <2>1, MergeStep
  <1> QED
    BY <1>3, <1>4

-----------------------------------------------------------------------------
(* Steps on the ledger *)

LEMMA LedgerStep ==
  ASSUME Inv, Extends,
         UNCHANGED <<session, file, cursors, failures, shared, unlinked>>,
         pc' \in [Procs -> Labels], DOMAIN pass' = Procs,
         \A i \in DOMAIN runs' : Len(runs'[i].index) = Len(runs'[i].events),
         bound' \in 0..Len(runs'),
         Rows', IdentityKept', (Apart /\ \A q \in Procs : Settled(q))'
  PROVE  Inv'
  <1>1. Tables /\ Layout /\ CursorsInside /\ NothingSkipped
    BY DEF Inv
  <1>2. Tables'
    <2>1. /\ Run' = Run /\ runs' \in Seq(Run) /\ Len(runs') >= Len(runs)
          /\ Len(runs) \in Nat /\ Len(runs') \in Nat
      BY <1>1, SameSession DEF Extends, Tables
    <2>2. /\ Len(runs') >= 1 /\ shared' \subseteq DOMAIN runs'
          /\ unlinked' \subseteq (DOMAIN runs') \X Records'
      <3>1. DOMAIN runs \subseteq DOMAIN runs' /\ Records' = Records
        BY <1>1, <2>1, SameSession DEF Tables
      <3> QED
        BY <1>1, <2>1, <3>1 DEF Tables
    <2>3. runs' \in Seq(Run')
      BY <2>1
    <2> QED
      BY <1>1, <2>2, <2>3 DEF Tables
  <1>3. Layout' /\ CursorsInside'
    BY <1>1, SameSession DEF Layout, CursorsInside, Begun, Head1, Tail1, NL
  <1>4. NothingSkipped'
    <2>1. ASSUME NEW op \in Ops
          PROVE  Passed(op, cursors[op])
      BY <1>1 DEF Passed, NothingSkipped
    <2>2. ASSUME NEW op \in Ops
          PROVE  /\ cursors[op] \in Nat /\ cursors[op] <= Len(file)
                 /\ cursors'[op] = cursors[op]
      BY <1>1 DEF Tables, CursorsInside
    <2>3. \A op \in Ops, n \in Nat : n <= Len(file) /\ Passed(op, n) => Passed(op, n)'
      BY <1>1, PassedStays
    <2>4. ASSUME NEW op \in Ops
          PROVE  Passed(op, cursors[op])'
      BY <2>1, <2>2, <2>3 DEF Passed
    <2> QED
      BY <2>4 DEF Passed, NothingSkipped
  <1> QED
    BY <1>2, <1>3, <1>4 DEF Inv

LEMMA RebuildWriteStep ==
  ASSUME Inv, NEW p \in Procs, RebuildWrite(p)
  PROVE  Inv'
  <1> DEFINE row(i, k) == {m \in pass[p].missing : m[1] = i /\ m[2] = k}
             cell(i, k) == IF row(i, k) = {} THEN runs[i].index[k]
                           ELSE (CHOOSE m \in row(i, k) : TRUE)[3]
             rebuilt(i) == [k \in DOMAIN runs[i].index |-> cell(i, k)]
  <1>1. /\ pc[p] = "rebuild" /\ Leave(p, "ready")
        /\ runs' = [i \in DOMAIN runs |-> [runs[i] EXCEPT !.index = rebuilt(i)]]
        /\ UNCHANGED <<session, file, bound, cursors, failures, shared, unlinked>>
    BY DEF RebuildWrite, source, history
  <1>2. /\ pass[p].missing \subseteq Nat \X Nat \X Label
        /\ \A m \in pass[p].missing : /\ m[1] \in DOMAIN runs
                                      /\ m[2] \in DOMAIN runs[m[1]].events
                                      /\ runs[m[1]].events[m[2]] = Legacy.events[1]
        /\ \A i, k \in Nat : Gap(i, k) => \E m \in pass[p].missing : m[1] = i /\ m[2] = k
    <2>1. pass[p] \in Openings /\ Rebuilds(p)
      BY <1>1 DEF Inv, Settled, Stage
    <2> QED
      BY <1>1, <2>1 DEF Openings, Rebuilds
  <1>3. Tables /\ Missing \notin Label
    BY DEF Inv, Missing, Label, Records
  <1>4. ASSUME NEW i \in DOMAIN runs, NEW k \in DOMAIN runs[i].index
        PROVE  /\ cell(i, k) \in Label
               /\ cell(i, k) = runs[i].index[k] \/ runs[i].events[k] = Legacy.events[1]
    <2>1. i \in Nat /\ k \in Nat /\ runs[i].index[k] \in Label \cup {Missing}
      BY <1>3, <1>4, RunTypes
    <2>2. CASE row(i, k) = {}
      <3>1. ~Gap(i, k)
        BY <1>2, <2>1, <2>2
      <3> QED
        BY <1>4, <2>1, <2>2, <3>1 DEF Gap
    <2>3. CASE row(i, k) # {}
      <3>1. PICK m \in row(i, k) : cell(i, k) = m[3]
        BY <2>3
      <3>2. m \in pass[p].missing /\ m[1] = i /\ m[2] = k /\ m[3] \in Label
        BY <1>2, <3>1
      <3> QED
        BY <1>2, <3>1, <3>2
    <2> QED
      BY <2>2, <2>3
  <1> HIDE DEF cell
  <1>5. ASSUME NEW i \in DOMAIN runs
        PROVE  /\ i \in DOMAIN runs'
               /\ runs'[i] \in Run
               /\ runs'[i].label = runs[i].label
               /\ runs'[i].metadata = runs[i].metadata
               /\ runs'[i].events = runs[i].events
               /\ runs'[i].index = rebuilt(i)
               /\ Len(runs'[i].index) = Len(runs'[i].events)
               /\ DOMAIN runs'[i].index = DOMAIN runs[i].index
    <2>1. /\ runs[i] \in Run /\ runs[i].index \in Seq(Label \cup {Missing})
          /\ runs[i].events \in Seq(Event)
          /\ DOMAIN runs[i].index = 1..Len(runs[i].events)
          /\ Len(runs[i].events) \in Nat
      BY <1>3, RunTypes
    <2>2. /\ rebuilt(i) \in Seq(Label \cup {Missing})
          /\ DOMAIN rebuilt(i) = 1..Len(runs[i].events)
          /\ Len(rebuilt(i)) = Len(runs[i].events)
      <3>1. rebuilt(i) \in [1..Len(runs[i].events) -> Label \cup {Missing}]
        BY <1>4, <2>1
      <3> HIDE DEF rebuilt
      <3> QED
        BY <2>1, <3>1
    <2> HIDE DEF rebuilt
    <2>3. runs'[i] = [runs[i] EXCEPT !.index = rebuilt(i)] /\ i \in DOMAIN runs'
      BY <1>1
    <2> QED
      BY <2>1, <2>2, <2>3 DEF Run
  <1>6. runs' \in Seq(Run) /\ Len(runs') = Len(runs) /\ Len(runs) \in Nat
        /\ DOMAIN runs' = DOMAIN runs
    <2>1. Len(runs) \in Nat /\ DOMAIN runs = 1..Len(runs)
      BY <1>3 DEF Tables
    <2>2. DOMAIN runs' = 1..Len(runs)
      BY <1>1, <2>1
    <2>3. runs' = [i \in 1..Len(runs) |-> runs'[i]]
      BY <1>1, <2>1
    <2>4. runs' \in [1..Len(runs) -> Run]
      BY <1>5, <2>1, <2>2, <2>3
    <2> QED
      BY <2>1, <2>2, <2>4
  <1>7. ASSUME NEW i \in DOMAIN runs, NEW k \in DOMAIN runs'[i].index
        PROVE  /\ runs'[i].index[k] \in Label
               /\ runs'[i].index[k] = runs'[i].label \/ runs'[i].events[k] = Legacy'.events[1]
    <2>1. k \in DOMAIN runs[i].index /\ runs'[i].index[k] = cell(i, k)
      BY <1>5, <1>7
    <2>2. runs[i].index[k] = runs[i].label \/ runs[i].events[k] = Legacy.events[1]
      BY <2>1 DEF Inv, Rows
    <2>3. Legacy' = Legacy
      BY <1>1, SameSession
    <2> QED
      BY <1>4, <1>5, <2>1, <2>2, <2>3
  <1>8. \A i, k \in Nat : ~(Gap(i, k)')
    <2>1. ASSUME NEW i \in Nat, NEW k \in Nat, Gap(i, k)'
          PROVE  FALSE
      <3>1. i \in DOMAIN runs /\ k \in DOMAIN runs'[i].index /\ runs'[i].index[k] = Missing
        BY <1>6, <2>1 DEF Gap, Missing
      <3> QED
        BY <1>3, <1>7, <3>1
    <2> QED
      BY <2>1
  <1> HIDE DEF rebuilt
  <1>9. Extends
    <2>1. file \in Seq(Cells) /\ Len(file) \in Nat
      BY DEF Inv, Layout
    <2>2. \A i \in DOMAIN runs : Len(runs[i].events) \in Nat
      BY <1>3, RunTypes
    <2>3. \A i, k \in Nat : Gap(i, k)' => Gap(i, k)
      BY <1>8
    <2>4. \A i \in DOMAIN runs :
             /\ Len(runs'[i].index) = Len(runs'[i].events)
             /\ Len(runs'[i].events) >= Len(runs[i].events)
             /\ \A k \in DOMAIN runs[i].events : runs'[i].events[k] = runs[i].events[k]
      BY <1>5, <2>2
    <2>5. /\ file' = file /\ session' = session /\ shared' = shared /\ unlinked' = unlinked
          /\ Len(runs') >= Len(runs)
      BY <1>1, <1>6
    <2> QED
      BY <1>6, <2>1, <2>3, <2>4, <2>5 DEF Extends
  <1>10. /\ pc'[p] = "ready" /\ pass'[p] = Idle
         /\ \A q \in Procs \ {p} : pc'[q] = pc[q] /\ pass'[q] = pass[q]
         /\ DOMAIN pass' = Procs /\ pc' \in [Procs -> Labels]
    <2>1. Go(p, "ready") /\ pass' = [pass EXCEPT ![p] = Idle] /\ "ready" \in Labels
      BY <1>1 DEF Leave, Idle, Labels
    <2> QED
      BY <2>1, SameFiles
  <1>11. Settled(p)' /\ ~(Importing(p)')
    BY <1>8, <1>10, Outsiders DEF Outside
  <1>12. (Apart /\ \A q \in Procs : Settled(q))'
    BY <1>5, <1>9, <1>10, <1>11, Moves
  <1>13. Rows'
    BY <1>6, <1>7 DEF Rows
  <1>14. IdentityKept'
    <2>1. ASSUME NEW i \in DOMAIN runs, i \notin shared, NEW e \in Imported(i),
                 e.op = "sync", Identifies(e.rec)
          PROVE  e.rec \in runs'[i].metadata \/ <<i, e.rec>> \in unlinked
      BY <1>5, <2>1 DEF Inv, IdentityKept
    <2>2. \A i \in DOMAIN runs : Imported(i)' = Imported(i)
      BY <1>5 DEF Imported
    <2>3. session' = session /\ shared' = shared /\ unlinked' = unlinked
      BY <1>1
    <2> QED
      BY <1>6, <2>1, <2>2, <2>3 DEF IdentityKept, Identifies
  <1>15. \A i \in DOMAIN runs' : Len(runs'[i].index) = Len(runs'[i].events)
    BY <1>5, <1>6
  <1>16. bound' \in 0..Len(runs')
    BY <1>1, <1>3, <1>6 DEF Tables
  <1> QED
    BY <1>1, <1>9, <1>10, <1>12, <1>13, <1>14, <1>15, <1>16, LedgerStep

\* The effect of a step that adds a run.
LEMMA StartRunStep ==
  ASSUME Inv, NEW p \in Procs, StartRun(p)
  PROVE  Inv'
  <1> DEFINE n == Len(runs) + 1
             s == [pass[p] EXCEPT !.run = n]
  <1>1. /\ pc[p] = "start" /\ Go(p, "bind")
        /\ runs' = Append(runs, NewRun)
        /\ pass' = [pass EXCEPT ![p] = s]
        /\ UNCHANGED <<session, file, bound, cursors, failures, shared, unlinked>>
    BY DEF StartRun, source, history
  <1>2. pass[p] \in Passes /\ pass[p].op = Channel /\ pass[p].op = "sync"
    BY <1>1 DEF Inv, Settled, Stage, Outside
  <1>3. /\ Tables /\ runs \in Seq(Run) /\ Len(runs) \in Nat
        /\ file \in Seq(Cells) /\ Len(file) \in Nat
    BY DEF Inv, Tables, Layout
  <1>4. s \in Passes /\ s.op = "sync" /\ s.run = n
    <2>1. n \in Nat
      BY <1>3
    <2> HIDE DEF n
    <2>2. s \in Passes
      BY <1>2, <2>1, PassChanges
    <2>3. s.op = pass[p].op /\ s.run = n
      BY <1>2 DEF Passes
    <2> QED
      BY <1>2, <2>2, <2>3
  <1> HIDE DEF s
  <1>5. /\ NewRun \in Run /\ NewRun.events = <<>> /\ NewRun.index = <<>>
        /\ Len(NewRun.index) = 0 /\ Len(NewRun.events) = 0
    BY DEF NewRun, Run, Label
  <1>6. /\ runs' \in Seq(Run) /\ Len(runs') = n /\ runs'[n] = NewRun
        /\ \A i \in DOMAIN runs : i \in DOMAIN runs' /\ runs'[i] = runs[i]
        /\ \A i \in DOMAIN runs' : i \in DOMAIN runs \/ i = n
        /\ n \in DOMAIN runs' /\ n \in Nat
    <2> HIDE DEF NewRun
    <2> QED
      BY <1>1, <1>3, <1>5
  <1>7. \A i, k \in Nat : Gap(i, k)' => Gap(i, k)
    BY <1>5, <1>6 DEF Gap, Missing
  <1>8. Extends
    <2>1. \A i \in DOMAIN runs :
             /\ Len(runs'[i].index) = Len(runs'[i].events)
             /\ Len(runs'[i].events) >= Len(runs[i].events)
             /\ \A k \in DOMAIN runs[i].events : runs'[i].events[k] = runs[i].events[k]
      <3>1. \A i \in DOMAIN runs : Len(runs[i].index) = Len(runs[i].events)
                                   /\ Len(runs[i].events) \in Nat
        BY <1>3, RunTypes DEF Tables
      <3> QED
        BY <1>6, <3>1
    <2>2. Len(runs') >= Len(runs)
      BY <1>3, <1>6
    <2> QED
      BY <1>1, <1>3, <1>6, <1>7, <2>1, <2>2 DEF Extends
  <1>9. "bind" \in Labels
    BY DEF Labels
  <1>10. /\ pc'[p] = "bind" /\ pass'[p] = s
         /\ \A q \in Procs \ {p} : pc'[q] = pc[q] /\ pass'[q] = pass[q]
         /\ DOMAIN pass' = Procs /\ pc' \in [Procs -> Labels]
    BY <1>1, <1>9, SameFiles
  <1>11. Stage(p)'
    BY <1>1, <1>2, <1>4, <1>6, <1>10, SameSession DEF Stage, Outside, Holding
  <1>12. Progress(p)' /\ Identity(p)'
    BY <1>10 DEF Progress, Identity, Holding
  <1>13. Settled(p)'
    <2>1. Rebuilds(p)'
      BY <1>1, <1>8, <1>10, NoGapsLater
    <2> QED
      BY <1>11, <1>12, <2>1 DEF Settled
  <1>14. ASSUME NEW q \in Procs \ {p}, Importing(q)
         PROVE  pass[q].run # n
    <2>1. Stage(q)
      BY DEF Inv, Settled
    <2>2. pass[q].run \in DOMAIN runs \/ pass[q].run = 0
      BY <1>14, <2>1, NotIdle DEF Stage, Outside, Importing
    <2> QED
      BY <1>3, <2>2
  <1>15. (Apart /\ \A q \in Procs : Settled(q))'
    BY <1>4, <1>6, <1>8, <1>10, <1>13, <1>14, Moves
  <1>16. Rows'
    <2>1. \A i \in DOMAIN runs' : \A k \in DOMAIN runs'[i].index :
             i \in DOMAIN runs /\ runs'[i] = runs[i]
      BY <1>5, <1>6
    <2>2. Legacy' = Legacy
      BY <1>1, SameSession
    <2> QED
      BY <2>1, <2>2 DEF Inv, Rows
  <1>17. IdentityKept'
    <2>1. ASSUME NEW i \in DOMAIN runs', NEW e \in Imported(i)'
          PROVE  i \in DOMAIN runs /\ e \in Imported(i) /\ runs'[i] = runs[i]
      BY <1>5, <1>6, <2>1 DEF Imported
    <2>2. session' = session /\ shared' = shared /\ unlinked' = unlinked
      BY <1>1
    <2> QED
      BY <2>1, <2>2 DEF Inv, IdentityKept, Identifies
  <1>18. \A i \in DOMAIN runs' : Len(runs'[i].index) = Len(runs'[i].events)
    BY <1>3, <1>5, <1>6 DEF Tables
  <1>19. bound' \in 0..Len(runs')
    BY <1>1, <1>3, <1>6 DEF Tables
  <1> QED
    BY <1>1, <1>8, <1>10, <1>15, <1>16, <1>17, <1>18, <1>19, LedgerStep

LEMMA BindSourceRunStep ==
  ASSUME Inv, NEW p \in Procs, BindSourceRun(p)
  PROVE  Inv'
  <1>1. /\ pc[p] = "bind" /\ Go(p, "open") /\ pass' = pass
        /\ bound' = IF bound = 0 THEN pass[p].run ELSE bound
        /\ UNCHANGED <<session, file, runs, cursors, failures, shared, unlinked>>
    BY DEF BindSourceRun, source, history
  <1>2. Stage(p) /\ Tables
    BY DEF Inv, Settled
  <1>3. /\ pass[p] \in Passes /\ pass[p].op = Channel
        /\ pass[p].run \in DOMAIN runs
    BY <1>1, <1>2 DEF Stage, Outside
  <1>4. Extends
    BY <1>1, Unmoved
  <1>5. pc \in [Procs -> Labels] /\ DOMAIN pass = Procs
    BY <1>2 DEF Tables
  <1>6. "open" \in Labels
    BY DEF Labels
  <1>7. /\ pc'[p] = "open" /\ pass'[p] = pass[p]
        /\ \A q \in Procs \ {p} : pc'[q] = pc[q] /\ pass'[q] = pass[q]
        /\ DOMAIN pass' = Procs /\ pc' \in [Procs -> Labels]
    BY <1>1, <1>5, <1>6 DEF Go
  <1>8. Stage(p)'
    BY <1>1, <1>3, <1>7, SameSession DEF Stage, Outside, Holding
  <1>9. Progress(p)' /\ Identity(p)'
    BY <1>7 DEF Progress, Identity, Holding
  <1>10. Settled(p)'
    <2>1. Rebuilds(p)'
      BY <1>1, <1>4, <1>7, NoGapsLater
    <2> QED
      BY <1>8, <1>9, <2>1 DEF Settled
  <1>11. \A q \in Procs \ {p} :
            Importing(p)' /\ Importing(q) /\ pass[q].run = pass'[p].run
            => pass'[p].run \in shared' \cup {0}
    BY <1>1, <1>7 DEF Inv, Apart, Importing
  <1>12. (Apart /\ \A q \in Procs : Settled(q))'
    BY <1>1, <1>4, <1>7, <1>10, <1>11, Moves
  <1>13. Rows' /\ IdentityKept'
    BY <1>1, SameSession DEF Inv, Rows, IdentityKept, Imported, Identifies
  <1>14. \A i \in DOMAIN runs' : Len(runs'[i].index) = Len(runs'[i].events)
    BY <1>1, <1>2 DEF Tables
  <1>15. bound' \in 0..Len(runs')
    BY <1>1, <1>2, <1>3 DEF Tables
  <1> QED
    BY <1>1, <1>4, <1>7, <1>12, <1>13, <1>14, <1>15, LedgerStep

\* The effect of a step that changes one run, and fills in what it adds.
LEMMA RunStep ==
  ASSUME Inv, NEW i \in DOMAIN runs, \A j, k \in Nat : ~Gap(j, k),
         UNCHANGED <<session, file, bound, cursors, failures, shared, unlinked>>,
         runs' \in Seq(Run), DOMAIN runs' = DOMAIN runs,
         \A j \in DOMAIN runs \ {i} : runs'[j] = runs[j],
         runs'[i].index \in Seq(Label),
         Len(runs'[i].index) = Len(runs'[i].events),
         Len(runs'[i].events) >= Len(runs[i].events),
         \A k \in DOMAIN runs[i].events : runs'[i].events[k] = runs[i].events[k],
         \A k \in DOMAIN runs'[i].index :
            \/ runs'[i].index[k] = runs'[i].label
            \/ runs'[i].events[k] = Legacy.events[1]
  PROVE  /\ Extends
         /\ Rows'
         /\ \A j, k \in Nat : ~(Gap(j, k)')
         /\ \A j \in DOMAIN runs' : Len(runs'[j].index) = Len(runs'[j].events)
         /\ bound' \in 0..Len(runs')
  <1>1. /\ Tables /\ Rows /\ runs \in Seq(Run) /\ Len(runs) \in Nat /\ Len(runs') = Len(runs)
        /\ file \in Seq(Cells) /\ Len(file) \in Nat
    BY DEF Inv, Tables, Layout
  <1>2. \A j \in DOMAIN runs : /\ Len(runs[j].index) = Len(runs[j].events)
                               /\ Len(runs[j].events) \in Nat
    BY <1>1, RunTypes DEF Tables
  <1>3. ASSUME NEW j \in Nat, NEW k \in Nat, Gap(j, k)'
        PROVE  FALSE
    <2>1. j \in DOMAIN runs /\ k \in DOMAIN runs'[j].index /\ runs'[j].index[k] = Missing
      BY <1>3 DEF Gap, Missing
    <2>2. CASE j = i
      <3>1. runs'[i].index[k] \in Label
        BY <2>1, <2>2
      <3> QED
        BY <2>1, <2>2, <3>1 DEF Label, Records, Missing
    <2>3. CASE j # i
      <3>1. Gap(j, k)
        BY <2>1, <2>3 DEF Gap
      <3> QED
        BY <3>1
    <2> QED
      BY <2>2, <2>3
  <1>4. \A j \in DOMAIN runs : /\ Len(runs'[j].index) = Len(runs'[j].events)
                               /\ Len(runs'[j].events) >= Len(runs[j].events)
                               /\ \A k \in DOMAIN runs[j].events :
                                    runs'[j].events[k] = runs[j].events[k]
    <2>1. ASSUME NEW j \in DOMAIN runs \ {i}
          PROVE  /\ Len(runs'[j].index) = Len(runs'[j].events)
                 /\ Len(runs'[j].events) >= Len(runs[j].events)
                 /\ \A k \in DOMAIN runs[j].events :
                      runs'[j].events[k] = runs[j].events[k]
      BY <1>2, <2>1
    <2> QED
      BY <2>1
  <1>5. Extends
    BY <1>1, <1>3, <1>4 DEF Extends
  <1>6. Rows'
    <2>1. ASSUME NEW j \in DOMAIN runs, NEW k \in DOMAIN runs'[j].index
          PROVE  \/ runs'[j].index[k] = runs'[j].label
                 \/ runs'[j].events[k] = Legacy.events[1]
      <3>1. CASE j = i
        BY <2>1, <3>1
      <3>2. CASE j # i
        <4>1. runs'[j] = runs[j] /\ k \in DOMAIN runs[j].index
          BY <2>1, <3>2
        <4>2. \/ runs[j].index[k] = runs[j].label
              \/ runs[j].events[k] = Legacy.events[1]
          BY <1>1, <4>1 DEF Rows
        <4> QED
          BY <4>1, <4>2
      <3> QED
        BY <3>1, <3>2
    <2>2. Legacy' = Legacy
      BY SameSession
    <2> QED
      BY <2>1, <2>2 DEF Rows
  <1> QED
    BY <1>1, <1>3, <1>4, <1>5, <1>6 DEF Tables

LEMMA UpdateRunIdentityStep ==
  ASSUME Inv, NEW p \in Procs, UpdateRunIdentity(p)
  PROVE  Inv'
  <1> DEFINE i == pass[p].run
             r == Rec(p)
             work == Kind(pass[p].line) = "work"
             label == IF Kind(pass[p].line) = "meta" THEN r ELSE runs[i].label
             index == [k \in DOMAIN runs[i].index |->
                         IF runs[i].index[k] = Missing \/ work
                         THEN runs[i].index[k] ELSE label]
             s == [pass[p] EXCEPT !.metadata = {}]
  <1>1. /\ pc[p] = "update" /\ Go(p, "append") /\ pass' = [pass EXCEPT ![p] = s]
        /\ UNCHANGED <<session, file, bound, cursors, failures, shared, unlinked>>
    BY DEF UpdateRunIdentity, source, history
  <1>2. /\ pass[p] \in Passes /\ pass[p].op \in Ops /\ pass[p].op = Channel
        /\ i \in DOMAIN runs
        /\ pass[p].pos \in 0..Len(file) /\ pass[p].offset \in Nat
        /\ pass[p].offset <= pass[p].pos
        /\ pc[p] \notin Outside \cup {"rebuild"}
        /\ Held(p) /\ pass[p].pos - 3 \in Nat
        /\ Passed(pass[p].op, pass[p].pos - 3)
    BY <1>1, ReaderFacts DEF Holding
  <1>3. /\ pass[p].op = "sync" /\ Importing(p) /\ Identifies(r) /\ r \in Records
        /\ i \in shared \/ runs[i].metadata \subseteq pass[p].metadata
        /\ i \in shared \/ r \in pass[p].metadata \/ <<i, r>> \in unlinked
    BY <1>1, <1>2 DEF Inv, Settled, Stage, Identity, Importing, Held
  <1>4. Kind(pass[p].line) = session[r] /\ (Kind(pass[p].line) = "meta" \/ work)
    BY <1>3 DEF Kind, Rec, Identifies
  <1>5. /\ runs' = [runs EXCEPT ![i] = [runs[i] EXCEPT
                      !.metadata = pass[p].metadata,
                      !.label = label,
                      !.index = index]]
    BY DEF UpdateRunIdentity
  <1>6. /\ Tables /\ runs \in Seq(Run) /\ runs[i] \in Run
        /\ runs[i].label \in Label
        /\ runs[i].events \in Seq(Event)
        /\ runs[i].index \in Seq(Label \cup {Missing})
        /\ DOMAIN runs[i].events = 1..Len(runs[i].events)
        /\ DOMAIN runs[i].index = 1..Len(runs[i].events)
        /\ Len(runs[i].events) \in Nat
        /\ pass[p].metadata \subseteq Records
    BY <1>2, RunTypes, PassFields DEF Inv, Tables
  <1>7. \A j, k \in Nat : ~Gap(j, k)
    BY <1>1 DEF Inv, Settled, Rebuilds
  <1>8. \A k \in DOMAIN runs[i].index : runs[i].index[k] \in Label
    <2>1. ASSUME NEW k \in DOMAIN runs[i].index
          PROVE  k \in Nat /\ runs[i].index[k] \in Label \cup {Missing}
      BY <1>6, <2>1
    <2>2. i \in Nat
      BY <1>2, <1>6, RunTypes
    <2> HIDE DEF i
    <2> QED
      BY <1>2, <1>7, <2>1, <2>2 DEF Gap
  <1>9. label \in Label
    BY <1>3, <1>6 DEF Label
  <1>10. work => label = runs[i].label
    OBVIOUS
  <1> HIDE DEF label, r
  <1>11. /\ index \in Seq(Label) /\ Len(index) = Len(runs[i].events)
         /\ DOMAIN index = DOMAIN runs[i].index
         /\ \A k \in DOMAIN index : IF work THEN index[k] = runs[i].index[k]
                                    ELSE index[k] = label
    <2> HIDE DEF work
    <2>1. index \in [1..Len(runs[i].events) -> Label]
      BY <1>6, <1>8, <1>9
    <2>2. \A k \in DOMAIN runs[i].index : runs[i].index[k] # Missing
      BY <1>8 DEF Label, Records, Missing
    <2>3. \A k \in DOMAIN index : IF work THEN index[k] = runs[i].index[k]
                                  ELSE index[k] = label
      BY <2>2
    <2>4. DOMAIN index = DOMAIN runs[i].index
      OBVIOUS
    <2> HIDE DEF index
    <2> QED
      BY SMTT(20), <1>6, <2>1, <2>3, <2>4
  <1> HIDE DEF index
  <1>12. /\ DOMAIN runs' = DOMAIN runs
         /\ \A j \in DOMAIN runs \ {i} : runs'[j] = runs[j]
         /\ runs'[i].metadata = pass[p].metadata
         /\ runs'[i].label = label
         /\ runs'[i].events = runs[i].events
         /\ runs'[i].index = index
         /\ runs'[i] \in Run
    <2>1. /\ DOMAIN runs' = DOMAIN runs
          /\ \A j \in DOMAIN runs \ {i} : runs'[j] = runs[j]
          /\ runs'[i] = [runs[i] EXCEPT !.metadata = pass[p].metadata,
                                        !.label = label, !.index = index]
      BY <1>2, <1>5
    <2>2. pass[p].metadata \subseteq Records /\ index \in Seq(Label \cup {Missing})
      BY <1>3, <1>6, <1>11 DEF r
    <2> QED
      BY <1>6, <1>9, <2>1, <2>2 DEF Run
  <1>13. runs' \in Seq(Run)
    <2>1. DOMAIN runs = 1..Len(runs) /\ Len(runs) \in Nat
          /\ \A j \in DOMAIN runs : runs[j] \in Run
      BY <1>6
    <2>2. \A j \in DOMAIN runs : runs'[j] \in Run
      BY <1>12, <2>1
    <2>3. runs' \in [1..Len(runs) -> Run]
      BY <1>5, <1>12, <2>1, <2>2
    <2> QED
      BY <2>1, <2>3
  <1>14. ASSUME NEW k \in DOMAIN runs'[i].index
         PROVE  \/ runs'[i].index[k] = runs'[i].label
                \/ runs'[i].events[k] = Legacy.events[1]
    <2>1. k \in DOMAIN runs[i].index
      BY <1>11, <1>12
    <2>2. runs[i].index[k] = runs[i].label \/ runs[i].events[k] = Legacy.events[1]
      BY <1>2, <2>1 DEF Inv, Rows
    <2> QED
      BY <1>10, <1>11, <1>12, <2>1, <2>2
  <1>15. /\ Extends
         /\ Rows'
         /\ \A j, k \in Nat : ~(Gap(j, k)')
         /\ \A j \in DOMAIN runs' : Len(runs'[j].index) = Len(runs'[j].events)
         /\ bound' \in 0..Len(runs')
    <2>1. /\ runs'[i].index \in Seq(Label)
          /\ Len(runs'[i].index) = Len(runs'[i].events)
          /\ Len(runs'[i].events) >= Len(runs[i].events)
          /\ \A k \in DOMAIN runs[i].events : runs'[i].events[k] = runs[i].events[k]
      BY <1>6, <1>11, <1>12
    <2> QED
      BY <1>1, <1>2, <1>7, <1>12, <1>13, <1>14, <2>1, RunStep
  <1>16. s \in Passes /\ s.op = pass[p].op /\ s.run = i /\ s.pos = pass[p].pos
         /\ s.offset = pass[p].offset /\ s.line = pass[p].line
    BY <1>2, PassChanges DEF Passes
  <1> HIDE DEF s
  <1>17. "append" \in Labels
    BY DEF Labels
  <1>18. /\ pc'[p] = "append" /\ pass'[p] = s /\ Rec(p)' = r
         /\ \A q \in Procs \ {p} : pc'[q] = pc[q] /\ pass'[q] = pass[q]
         /\ DOMAIN pass' = Procs /\ pc' \in [Procs -> Labels]
    <2>1. /\ pc'[p] = "append" /\ pass'[p] = s
          /\ \A q \in Procs \ {p} : pc'[q] = pc[q] /\ pass'[q] = pass[q]
          /\ DOMAIN pass' = Procs /\ pc' \in [Procs -> Labels]
      BY <1>1, <1>17, SameFiles
    <2> QED
      BY <1>16, <2>1 DEF Rec, r
  <1>19. Stage(p)'
    <2>1. Importable(Rec(p))'
      BY <1>1, <1>3, <1>18 DEF Importable, Identifies
    <2>2. Held(p)'
      BY <1>1, <1>2, <1>3, <1>16, <1>18, SameSession DEF Held, Head1, r
    <2>3. pass'[p].run \in DOMAIN runs'
      BY <1>2, <1>12, <1>16, <1>18
    <2> QED
      BY <1>1, <1>2, <1>16, <1>18, <2>1, <2>2, <2>3, SameSession DEF Stage, Outside, Holding
  <1>20. Progress(p)'
    <2>1. pass[p].pos - 3 <= Len(file) /\ pass'[p].pos - 3 = pass[p].pos - 3
      BY <1>2, <1>16, <1>18 DEF Inv, Layout
    <2>2. Passed(pass[p].op, pass[p].pos - 3)'
      BY <1>2, <1>15, <1>16, <1>18, <2>1, PassedNow
    <2> QED
      BY <1>18, <2>2 DEF Progress
  <1>21. Identity(p)'
    BY <1>1, <1>3, <1>12, <1>16, <1>18 DEF Identity
  <1>22. Settled(p)'
    <2>1. Rebuilds(p)'
      BY <1>15, <1>18 DEF Rebuilds
    <2> QED
      BY <1>19, <1>20, <1>21, <2>1 DEF Settled
  <1>23. (Apart /\ \A q \in Procs : Settled(q))'
    <2>1. ASSUME NEW q \in Procs \ {p}, Importing(q), pass[q].run \in DOMAIN runs,
                 pass[q].run \notin shared'
          PROVE  runs'[pass[q].run].metadata = runs[pass[q].run].metadata
      <3>1. pass[q].run # i
        <4>1. pass[q].run # 0
          BY <1>6, <2>1
        <4> QED
          BY <1>1, <1>3, <2>1, <4>1 DEF Inv, Apart
      <3> QED
        BY <1>12, <2>1, <3>1
    <2>2. ASSUME NEW q \in Procs \ {p}, Importing(q), pass[q].run = pass'[p].run
          PROVE  pass'[p].run \in shared' \cup {0}
      BY <1>1, <1>3, <1>16, <1>18, <2>2 DEF Inv, Apart
    <2> QED
      BY <1>15, <1>18, <1>22, <2>1, <2>2, Moves
  <1>24. IdentityKept'
    <2>1. ASSUME NEW j \in DOMAIN runs, j \notin shared, NEW e \in Imported(j),
                 e.op = "sync", Identifies(e.rec)
          PROVE  e.rec \in runs'[j].metadata \/ <<j, e.rec>> \in unlinked
      <3>1. e.rec \in runs[j].metadata \/ <<j, e.rec>> \in unlinked
        BY <2>1 DEF Inv, IdentityKept
      <3>2. CASE j = i
        <4>0. i \notin shared
          BY <2>1, <3>2
        <4>1. runs[i].metadata \subseteq pass[p].metadata
          BY <1>3, <4>0
        <4>2. runs'[i].metadata = pass[p].metadata
          BY <1>12
        <4> HIDE DEF i
        <4> QED
          BY <3>1, <3>2, <4>1, <4>2
      <3>3. CASE j # i
        BY <1>12, <3>1, <3>3
      <3> QED
        BY <3>2, <3>3
    <2>2. \A j \in DOMAIN runs : Imported(j)' = Imported(j)
      <3>1. \A j \in DOMAIN runs : runs'[j].events = runs[j].events
        BY <1>12
      <3> QED
        BY <3>1 DEF Imported
    <2>3. session' = session /\ shared' = shared /\ unlinked' = unlinked
      BY <1>1
    <2> QED
      BY <1>12, <2>1, <2>2, <2>3 DEF IdentityKept, Identifies
  <1> QED
    BY <1>1, <1>15, <1>18, <1>23, <1>24, LedgerStep

\* The line that is held has one head, that of its record.
LEMMA HeldLast ==
  ASSUME Inv, NEW p \in Procs, pc[p] \in Holding
  PROVE  /\ Rec(p) \in Records
         /\ \A n \in DOMAIN file : \A q \in Records :
              file[n] = Head1(q) /\ n <= pass[p].pos => n <= pass[p].pos - 3 \/ q = Rec(p)
  <1> DEFINE pos == pass[p].pos
  <1>1. /\ Held(p) /\ pos \in 0..Len(file) /\ pos - 3 \in Nat
        /\ Layout /\ file \in Seq(Cells) /\ Len(file) \in Nat
    BY ReaderFacts DEF Inv, Layout
  <1>2. Rec(p) \in Records /\ file[pos - 2] = Head1(Rec(p))
    BY <1>1 DEF Held
  <1> HIDE DEF pos
  <1>3. pos - 2 \in DOMAIN file /\ pos - 1 \in DOMAIN file /\ pos \in DOMAIN file
    BY <1>1
  <1>4. file[pos - 1] = Tail1(Rec(p))
    <2>1. pos - 2 # Len(file) /\ (pos - 2) + 1 = pos - 1
      BY <1>1
    <2> QED
      BY <1>1, <1>2, <1>3, <2>1 DEF Layout
  <1>5. file[pos] = NL
    <2>1. (pos - 1) + 1 = pos
      BY <1>1
    <2> QED
      BY <1>1, <1>2, <1>3, <1>4, <2>1 DEF Layout
  <1>6. ASSUME NEW n \in DOMAIN file, NEW q \in Records, file[n] = Head1(q),
               n <= pos, ~(n <= pos - 3)
        PROVE  q = Rec(p)
    <2>1. n = pos - 2 \/ n = pos - 1 \/ n = pos
      BY <1>1, <1>6
    <2> QED
      BY <1>2, <1>4, <1>5, <1>6, <2>1, CellFacts
  <1> QED
    BY <1>2, <1>6 DEF pos

\* A line whose record is in the ledger is passed.
LEMMA HeldPassed ==
  ASSUME Inv, Extends, NEW p \in Procs, pc[p] \in Holding, file' = file,
         Stored(pass[p].op, Rec(p))', pass'[p].pos = pass[p].pos,
         pass'[p].op = pass[p].op, Rec(p)' = Rec(p)
  PROVE  Passed(pass[p].op, pass[p].pos)'
  <1>1. /\ pass[p].op \in Ops /\ pass[p].pos \in 0..Len(file) /\ pass[p].pos - 3 \in Nat
        /\ Passed(pass[p].op, pass[p].pos - 3) /\ Len(file) \in Nat
    BY ReaderFacts DEF Inv, Layout
  <1>2. Passed(pass[p].op, pass[p].pos - 3)'
    <2>1. pass[p].pos - 3 <= Len(file) /\ pass'[p].pos - 3 = pass[p].pos - 3
      BY <1>1
    <2> QED
      BY <1>1, <2>1, PassedNow
  <1>3. Records' = Records
    BY SameSession DEF Extends
  <1>4. ASSUME NEW n \in DOMAIN file', NEW r \in Records',
               file'[n] = Head1(r), n <= pass'[p].pos,
               pass'[p].op = "pull" \/ Importable(r)'
        PROVE  Stored(pass[p].op, r)'
    <2>1. n <= pass[p].pos - 3 \/ r = Rec(p)
      BY <1>3, <1>4, HeldLast
    <2>2. CASE n <= pass[p].pos - 3
      BY <1>2, <1>4, <2>2 DEF Passed, Head1
    <2>3. CASE r = Rec(p)
      BY <2>3 DEF Stored
    <2> QED
      BY <2>1, <2>2, <2>3
  <1> QED
    BY <1>4 DEF Passed, Head1

\* A process that holds a line whose record is in the ledger goes on to the cursor.
LEMMA CursorNext ==
  ASSUME Inv, Extends, NEW p \in Procs, pc[p] = "append", pc'[p] = "cursor",
         pass'[p] = pass[p], file' = file, Stored(pass[p].op, Rec(p))',
         \A j, k \in Nat : ~(Gap(j, k)')
  PROVE  Settled(p)'
  <1>1. /\ pass[p] \in Passes /\ pass[p].op = Channel /\ pass[p].run \in DOMAIN runs
        /\ pass[p].pos \in 0..Len(file) /\ pass[p].offset \in Nat
        /\ pass[p].offset <= pass[p].pos /\ Held(p)
        /\ pass[p].pos - 3 \in Nat /\ Passed(pass[p].op, pass[p].pos - 3)
        /\ pass[p].op \in Ops /\ Len(file) \in Nat
    BY ReaderFacts DEF Holding, Inv, Layout
  <1>2. /\ Records' = Records /\ Passes' = Passes /\ Channel' = Channel
        /\ session' = session
    BY SameSession DEF Extends
  <1>3. Rec(p)' = Rec(p) /\ pass[p].run \in DOMAIN runs'
    BY <1>1 DEF Rec, Inv, Tables, Extends
  <1>4. Held(p)'
    BY <1>1, <1>2, <1>3 DEF Held, Head1
  <1>5. Stage(p)'
    BY <1>1, <1>2, <1>3, <1>4 DEF Stage, Outside, Holding
  <1>6. Passed(pass[p].op, pass[p].pos)'
    BY <1>3, HeldPassed DEF Holding
  <1>7. Passed(pass[p].op, pass[p].pos - 3)'
    BY <1>1, PassedStays DEF Inv, Passed, Stored
  <1> QED
    BY <1>5, <1>6, <1>7 DEF Settled, Progress, Rebuilds, Identity, Holding

\* A step on the ledger that leaves every process its pass.
LEMMA KeepPass ==
  ASSUME Inv, NEW p \in Procs, NEW l \in Labels, Go(p, l), pass' = pass
  PROVE  /\ pc'[p] = l /\ pass'[p] = pass[p]
         /\ \A q \in Procs \ {p} : pc'[q] = pc[q] /\ pass'[q] = pass[q]
         /\ DOMAIN pass' = Procs /\ pc' \in [Procs -> Labels]
  BY DEF Inv, Tables, Go

\* The identifier of an event carries its operation and its record.
LEMMA EventIDFacts ==
  ASSUME Inv, NEW p \in Procs, pc[p] = "append"
  PROVE  /\ EventID(p) \in Event
         /\ EventID(p).op = pass[p].op
         /\ EventID(p).rec = Rec(p)
         /\ pass[p].op = "sync" => EventID(p).at = pass[p].offset
  <1> DEFINE at == CASE pass[p].op = "sync" -> pass[p].offset
                     [] Kind(pass[p].line) = "named" -> 0
                     [] OTHER -> Len(runs[pass[p].run].events) + 1
             named == Kind(pass[p].line) = "named"
  <1>1. /\ pass[p].op \in Ops /\ pass[p].offset \in Nat /\ Rec(p) \in Records
        /\ Len(runs[pass[p].run].events) \in Nat /\ pass[p].op = Channel
    <2>1. /\ pass[p].op \in Ops /\ pass[p].offset \in Nat /\ Held(p)
          /\ pass[p].run \in DOMAIN runs /\ pass[p].op = Channel
      BY ReaderFacts DEF Holding
    <2> QED
      BY <2>1, RunTypes DEF Held, Inv
  <1>2. at \in Nat /\ (pass[p].op = "sync" => at = pass[p].offset)
    <2>1. CASE pass[p].op = "sync"
      <3>1. Kind(pass[p].line) # "named"
        <4>1. session \in Seq(Kinds) /\ Kind(pass[p].line) = session[Rec(p)]
          BY <1>1, <2>1, SessionsAssumption DEF Channel, Discovered, Kind, Rec
        <4>2. session[Rec(p)] \in Kinds
          BY <1>1, <4>1 DEF Records
        <4> QED
          BY <4>1, <4>2 DEF Kinds
      <3> QED
        BY <1>1, <2>1, <3>1
    <2>2. CASE pass[p].op # "sync" /\ named
      BY <2>2
    <2>3. CASE pass[p].op # "sync" /\ ~named
      BY <1>1, <2>3
    <2> QED
      BY <2>1, <2>2, <2>3
  <1>3. EventID(p) = [op |-> pass[p].op, rec |-> Rec(p), at |-> at]
    BY DEF EventID
  <1> HIDE DEF at
  <1> QED
    BY <1>1, <1>2, <1>3 DEF Event

LEMMA AppendStep ==
  ASSUME Inv, NEW p \in Procs, pc[p] = "append",
         Go(p, "cursor"), pass' = pass,
         runs' = [runs EXCEPT ![pass[p].run] = AppendEvent(@, EventID(p))],
         UNCHANGED <<session, file, bound, cursors, failures, shared, unlinked>>
  PROVE  Inv'
  <1> DEFINE i == pass[p].run
             e == EventID(p)
             len == Len(runs[i].events)
  <1>1. i \in DOMAIN runs /\ pass[p] \in Passes /\ pass[p].op \in Ops
    BY ReaderFacts DEF Holding
  <1>2. /\ Tables /\ runs \in Seq(Run) /\ runs[i] \in Run
        /\ runs[i].label \in Label
        /\ runs[i].events \in Seq(Event)
        /\ runs[i].index \in Seq(Label \cup {Missing})
        /\ DOMAIN runs[i].events = 1..len
        /\ DOMAIN runs[i].index = 1..len
        /\ Len(runs[i].index) = len
        /\ len \in Nat
    BY <1>1, RunTypes DEF Inv, Tables
  <1>3. e \in Event /\ e.op = pass[p].op /\ e.rec = Rec(p)
    BY EventIDFacts
  <1>4. \A j, k \in Nat : ~Gap(j, k)
    BY DEF Inv, Settled, Rebuilds
  <1>5. \A k \in DOMAIN runs[i].index : runs[i].index[k] \in Label
    <2>1. ASSUME NEW k \in DOMAIN runs[i].index
          PROVE  k \in Nat /\ runs[i].index[k] \in Label \cup {Missing}
      BY <1>2, <2>1
    <2>2. i \in Nat
      BY <1>1, <1>2, RunTypes
    <2> HIDE DEF i
    <2> QED
      BY <1>1, <1>4, <2>1, <2>2 DEF Gap
  <1> HIDE DEF i, e, len
  <1>6. /\ DOMAIN runs' = DOMAIN runs
        /\ \A j \in DOMAIN runs \ {i} : runs'[j] = runs[j]
        /\ runs'[i] = [runs[i] EXCEPT !.events = Append(runs[i].events, e),
                                      !.index = Append(runs[i].index, runs[i].label)]
    BY <1>1 DEF i, e, AppendEvent
  <1>7. /\ Append(runs[i].events, e) \in Seq(Event)
        /\ Len(Append(runs[i].events, e)) = len + 1
        /\ \A k \in 1..len : Append(runs[i].events, e)[k] = runs[i].events[k]
        /\ Append(runs[i].events, e)[len + 1] = e
    BY <1>2, <1>3 DEF len
  <1>8. /\ Append(runs[i].index, runs[i].label) \in Seq(Label \cup {Missing})
        /\ Len(Append(runs[i].index, runs[i].label)) = len + 1
        /\ \A k \in 1..len : Append(runs[i].index, runs[i].label)[k] = runs[i].index[k]
        /\ Append(runs[i].index, runs[i].label)[len + 1] = runs[i].label
    BY <1>2
  <1>9. /\ runs'[i] \in Run
        /\ runs'[i].events = Append(runs[i].events, e)
        /\ runs'[i].index = Append(runs[i].index, runs[i].label)
        /\ runs'[i].label = runs[i].label
        /\ runs'[i].metadata = runs[i].metadata
    <2> DEFINE events == Append(runs[i].events, e)
               index == Append(runs[i].index, runs[i].label)
    <2>1. /\ events \in Seq(Event) /\ index \in Seq(Label \cup {Missing})
          /\ runs'[i] = [runs[i] EXCEPT !.events = events, !.index = index]
      BY <1>6, <1>7, <1>8
    <2> HIDE DEF events, index
    <2>2. /\ runs'[i] \in Run /\ runs'[i].events = events /\ runs'[i].index = index
          /\ runs'[i].label = runs[i].label /\ runs'[i].metadata = runs[i].metadata
      BY ZenonT(30), <1>2, <2>1 DEF Run
    <2> QED
      BY <2>2 DEF events, index
  <1>10. runs' \in Seq(Run)
    <2>1. DOMAIN runs = 1..Len(runs) /\ Len(runs) \in Nat
          /\ \A j \in DOMAIN runs : runs[j] \in Run
      BY <1>2
    <2>2. \A j \in DOMAIN runs : runs'[j] \in Run
      BY <1>6, <1>9, <2>1
    <2>3. runs' \in [1..Len(runs) -> Run]
      BY <1>6, <2>1, <2>2
    <2> QED
      BY <2>1, <2>3
  <1>11. runs'[i].index \in Seq(Label)
    <2>1. ASSUME NEW k \in 1..(len + 1)
          PROVE  runs'[i].index[k] \in Label
      <3>1. k \in 1..len \/ k = len + 1
        BY <1>2, <2>1
      <3> QED
        BY <1>2, <1>5, <1>8, <1>9, <3>1
    <2>2. runs'[i].index \in [1..(len + 1) -> Label]
      <3>1. runs'[i].index \in Seq(Label \cup {Missing}) /\ Len(runs'[i].index) = len + 1
        BY <1>8, <1>9
      <3>2. runs'[i].index = [k \in 1..(len + 1) |-> runs'[i].index[k]]
        BY <3>1
      <3> QED
        BY <2>1, <3>2
    <2> QED
      BY <1>2, <2>2
  <1>12. ASSUME NEW k \in DOMAIN runs'[i].index
         PROVE  \/ runs'[i].index[k] = runs'[i].label
                \/ runs'[i].events[k] = Legacy.events[1]
    <2>1. k \in 1..len \/ k = len + 1
      BY SMTT(20), <1>2, <1>8, <1>9
    <2>2. CASE k \in 1..len
      <3>1. runs[i].index[k] = runs[i].label \/ runs[i].events[k] = Legacy.events[1]
        BY <1>1, <1>2, <2>2 DEF Inv, Rows, i
      <3> QED
        BY <1>7, <1>8, <1>9, <2>2, <3>1
    <2>3. CASE k = len + 1
      BY <1>8, <1>9, <2>3
    <2> QED
      BY <2>1, <2>2, <2>3
  <1>13. /\ Extends
         /\ Rows'
         /\ \A j, k \in Nat : ~(Gap(j, k)')
         /\ \A j \in DOMAIN runs' : Len(runs'[j].index) = Len(runs'[j].events)
         /\ bound' \in 0..Len(runs')
    <2>1. /\ Len(runs'[i].index) = Len(runs'[i].events)
          /\ Len(runs'[i].events) >= Len(runs[i].events)
          /\ \A k \in DOMAIN runs[i].events : runs'[i].events[k] = runs[i].events[k]
      <3>1. Len(runs'[i].index) = len + 1
        BY <1>8, <1>9
      <3>2. Len(runs'[i].events) = len + 1 /\ \A k \in 1..len : runs'[i].events[k] = runs[i].events[k]
        BY <1>7, <1>9
      <3>3. Len(runs[i].events) = len
        BY DEF len
      <3> QED
        BY <1>2, <3>1, <3>2, <3>3
    <2>2. i \in DOMAIN runs
      BY <1>1 DEF i
    <2> QED
      BY <1>4, <1>6, <1>10, <1>11, <1>12, <2>1, <2>2, RunStep
  <1>14. Stored(pass[p].op, Rec(p))'
    <2>1. len + 1 \in DOMAIN runs'[i].events /\ runs'[i].events[len + 1] = e
      BY SMTT(20), <1>2, <1>7, <1>9
    <2>2. \E j \in DOMAIN runs' : \E k \in DOMAIN runs'[j].events : runs'[j].events[k] = e
      BY <1>1, <1>6, <2>1 DEF i
    <2>3. e.op = pass'[p].op /\ e.rec = Rec(p)'
      BY <1>3 DEF Rec
    <2> QED
      BY <2>2, <2>3 DEF Stored, Imported
  <1>15. "cursor" \in Labels
    BY DEF Labels
  <1>16. /\ pc'[p] = "cursor" /\ pass'[p] = pass[p]
         /\ \A q \in Procs \ {p} : pc'[q] = pc[q] /\ pass'[q] = pass[q]
         /\ DOMAIN pass' = Procs /\ pc' \in [Procs -> Labels]
    BY <1>15, KeepPass
  <1>17. Settled(p)'
    BY <1>13, <1>14, <1>16, CursorNext
  <1>18. \A j \in DOMAIN runs : runs'[j].metadata = runs[j].metadata
    BY <1>6, <1>9
  <1>19. (Apart /\ \A q \in Procs : Settled(q))'
    <2>1. \A q \in Procs \ {p} :
             Importing(p)' /\ Importing(q) /\ pass[q].run = pass'[p].run
             => pass'[p].run \in shared' \cup {0}
      BY <1>16 DEF Inv, Apart, Importing
    <2> QED
      BY <1>13, <1>16, <1>17, <1>18, <2>1, Moves
  <1>20. IdentityKept'
    <2>1. ASSUME NEW j \in DOMAIN runs, j \notin shared, NEW x \in Imported(j)',
                 x.op = "sync", Identifies(x.rec)
          PROVE  x.rec \in runs'[j].metadata \/ <<j, x.rec>> \in unlinked
      <3>1. CASE x \in Imported(j)
        BY <1>18, <2>1, <3>1 DEF Inv, IdentityKept
      <3>2. CASE x \notin Imported(j)
        <4>1. PICK k \in DOMAIN runs'[j].events : x = runs'[j].events[k]
          BY <2>1 DEF Imported
        <4>2. j = i
          BY <1>6, <2>1, <3>2, <4>1 DEF Imported
        <4>3. x = e
          <5>1. k \in 1..len \/ k = len + 1
            BY <1>2, <1>7, <1>9, <4>1, <4>2
          <5>2. k \notin 1..len
            BY <1>2, <1>7, <1>9, <3>2, <4>1, <4>2 DEF Imported
          <5> QED
            BY <1>7, <1>9, <4>1, <4>2, <5>1, <5>2
        <4>4. Importing(p) /\ pass[p].run \notin shared /\ Identifies(Rec(p))
          BY <1>3, <2>1, <4>2, <4>3 DEF Importing, i
        <4>5. Rec(p) \in runs[pass[p].run].metadata \/ <<pass[p].run, Rec(p)>> \in unlinked
          BY <4>4 DEF Inv, Settled, Identity
        <4> QED
          BY <1>3, <1>18, <2>1, <4>2, <4>3, <4>5 DEF i
      <3> QED
        BY <3>1, <3>2
    <2>2. session' = session /\ shared' = shared /\ unlinked' = unlinked
      OBVIOUS
    <2> QED
      BY <1>6, <2>1, <2>2 DEF IdentityKept, Identifies
  <1> QED
    BY <1>13, <1>16, <1>19, <1>20, LedgerStep

LEMMA AppendRecordStep ==
  ASSUME Inv, NEW p \in Procs, AppendRecord(p)
  PROVE  Inv'
  <1>1. /\ pc[p] = "append"
        /\ UNCHANGED <<session, file, bound, cursors, failures, shared, unlinked>>
    BY DEF AppendRecord, source, history
  <1>2. pc[p] \notin Outside \cup {"rebuild"} /\ pass[p].op \in Ops
    BY <1>1, ReaderFacts DEF Holding
  <1>3. failures' \in 0..MaxFailures
    BY <1>1 DEF Inv, Tables
  <1>4. CASE EventExists(EventID(p)) /\ pass[p].op = "sync"
    <2>1. runs' = runs /\ Go(p, "cursor") /\ pass' = pass
      BY <1>4 DEF AppendRecord, Refused
    <2>2. "cursor" \in Labels
      BY DEF Labels
    <2>3. Extends
      BY <1>1, <2>1, Unmoved
    <2>4. /\ pc' = [pc EXCEPT ![p] = "cursor"]
          /\ pc'[p] = "cursor" /\ pass'[p] = pass[p]
          /\ \A q \in Procs \ {p} : pc'[q] = pc[q] /\ pass'[q] = pass[q]
          /\ DOMAIN pass' = Procs
      BY <2>1, <2>2, KeepPass DEF Go
    <2>5. Stored(pass[p].op, Rec(p))'
      <3>1. Stored(pass[p].op, Rec(p))
        <4>1. EventID(p).op = pass[p].op /\ EventID(p).rec = Rec(p)
          BY <1>1, EventIDFacts
        <4> QED
          BY <1>4, <4>1 DEF EventExists, Stored
      <3>2. Rec(p) \in Records
        BY <1>1, HeldLast DEF Holding
      <3>3. Stored(pass[p].op, Rec(p)) => Stored(pass[p].op, Rec(p))'
        BY <2>1 DEF Stored, Imported, Rec
      <3> QED
        BY <3>1, <3>3
    <2>6. \A j, k \in Nat : ~(Gap(j, k)')
      BY <1>1, <2>3, NoGapsLater
    <2>7. Settled(p)'
      BY <1>1, <2>3, <2>4, <2>5, <2>6, CursorNext
    <2>8. \A q \in Procs \ {p} :
             Importing(p)' /\ Importing(q) /\ pass[q].run = pass'[p].run
             => pass'[p].run \in shared' \cup {0}
      BY <1>1, <2>4 DEF Inv, Apart, Importing
    <2>9. /\ shared \subseteq shared' /\ shared' \subseteq DOMAIN runs
          /\ unlinked \subseteq unlinked' /\ unlinked' \subseteq (DOMAIN runs) \X Records
      BY <1>1 DEF Inv, Tables
    <2> QED
      BY <1>1, <1>3, <2>1, <2>2, <2>4, <2>7, <2>8, <2>9, PassStep
  <1>5. CASE Refused(p) /\ ~(pass[p].op = "sync" /\ EventExists(EventID(p)))
    <2>1. runs' = runs /\ Leave(p, "ready") /\ "ready" \in Outside
      BY <1>5 DEF AppendRecord, Outside
    <2> QED
      BY <1>1, <1>2, <1>3, <2>1, LeaveStep
  <1>6. CASE ~Refused(p)
    BY <1>1, <1>6, AppendStep DEF AppendRecord
  <1> QED
    BY <1>4, <1>5, <1>6

LEMMA SetCursorStep ==
  ASSUME Inv, NEW p \in Procs, SetCursor(p)
  PROVE  Inv'
  <1> DEFINE op == pass[p].op
             offset == pass[p].offset + Len(pass[p].line)
             s == [pass[p] EXCEPT !.offset = offset, !.line = <<>>]
             l == IF AtEOF(pass[p].line) THEN "end" ELSE "read"
  <1>1. /\ pc[p] = "cursor" /\ Go(p, l) /\ pass' = [pass EXCEPT ![p] = s]
        /\ cursors' = [cursors EXCEPT ![op] = offset]
        /\ UNCHANGED <<session, file, runs, bound, failures, shared, unlinked>>
    BY DEF SetCursor, source, history
  <1>2. /\ pass[p] \in Passes /\ op \in Ops /\ op = Channel
        /\ pass[p].run \in DOMAIN runs
        /\ pass[p].pos \in 0..Len(file) /\ pass[p].offset \in Nat
        /\ pc[p] \notin Outside \cup {"rebuild"}
        /\ Len(pass[p].line) = 3 /\ pass[p].offset <= pass[p].pos - 3
        /\ Passed(op, pass[p].pos)
        /\ Len(file) \in Nat
    <2>1. Progress(p) /\ Len(file) \in Nat
      BY DEF Inv, Settled, Layout
    <2> QED
      BY <1>1, <2>1, ReaderFacts DEF Holding, Progress, Held
  <1>3. offset \in Nat /\ offset <= pass[p].pos /\ offset <= Len(file)
    BY <1>2
  <1> HIDE DEF offset
  <1>4. /\ s \in Passes /\ s.op = op /\ s.run = pass[p].run
        /\ s.pos = pass[p].pos /\ s.offset = offset
    <2>1. <<>> \in Seq(Cells)
      OBVIOUS
    <2> QED
      BY <1>2, <1>3, <2>1, PassChanges DEF Passes
  <1>5. l \in Labels /\ l \in {"end", "read"}
    BY DEF Labels
  <1> HIDE DEF s, l
  <1>6. /\ pc'[p] = l /\ pass'[p] = s
        /\ \A q \in Procs \ {p} : pc'[q] = pc[q] /\ pass'[q] = pass[q]
        /\ DOMAIN pass' = Procs /\ pc' \in [Procs -> Labels]
    BY <1>1, <1>5, SameFiles
  <1>7. Extends
    BY <1>1, Unmoved
  <1>8. Stage(p)'
    BY <1>1, <1>2, <1>3, <1>4, <1>5, <1>6, SameSession DEF Stage, Outside, Holding
  <1>9. Progress(p)' /\ Identity(p)'
    <2>1. Passed(pass[p].op, pass[p].pos)'
      <3>1. pass[p].pos \in Nat /\ pass[p].pos <= Len(file) /\ pass'[p].pos = pass[p].pos
        BY <1>2, <1>4, <1>6
      <3> QED
        BY <1>2, <1>4, <1>6, <1>7, <3>1, PassedNow
    <2> QED
      BY <1>5, <1>6, <2>1 DEF Progress, Identity, Holding
  <1>10. Settled(p)'
    <2>1. Rebuilds(p)'
      BY <1>1, <1>5, <1>6, <1>7, NoGapsLater
    <2> QED
      BY <1>8, <1>9, <2>1 DEF Settled
  <1>11. \A q \in Procs \ {p} :
            Importing(p)' /\ Importing(q) /\ pass[q].run = pass'[p].run
            => pass'[p].run \in shared' \cup {0}
    BY ZenonT(30), <1>1, <1>4, <1>6 DEF Inv, Apart, Importing
  <1>12. (Apart /\ \A q \in Procs : Settled(q))'
    BY <1>1, <1>6, <1>7, <1>10, <1>11, Moves
  <1>13. Tables /\ Layout /\ CursorsInside /\ NothingSkipped /\ Rows /\ IdentityKept
    BY DEF Inv
  <1>14. Tables'
    BY <1>1, <1>2, <1>3, <1>6, <1>13, SameSession DEF Tables
  <1>15. Layout' /\ CursorsInside'
    <2>1. Layout'
      BY <1>1, <1>13, SameSession DEF Layout, Begun, Head1, Tail1, NL
    <2>2. CursorsInside'
      BY <1>1, <1>2, <1>3, <1>13 DEF CursorsInside, Tables
    <2> QED
      BY <2>1, <2>2
  <1>16. NothingSkipped'
    <2>1. ASSUME NEW x \in Ops, NEW i \in DOMAIN file, NEW r \in Records,
                 file[i] = Head1(r), i <= cursors'[x], x = "pull" \/ Importable(r)
          PROVE  Stored(x, r)
      <3>1. CASE x = op
        <4>1. i <= pass[p].pos
          BY <1>1, <1>2, <1>3, <1>13, <2>1, <3>1 DEF Tables, Layout
        <4> QED
          BY <1>2, <2>1, <3>1, <4>1 DEF Passed
      <3>2. CASE x # op
        BY <1>1, <1>13, <2>1, <3>2 DEF NothingSkipped, Tables
      <3> QED
        BY <3>1, <3>2
    <2> QED
      BY <1>1, <2>1, SameSession DEF NothingSkipped, Stored, Imported, Importable, Head1
  <1>17. Rows' /\ IdentityKept'
    BY <1>1, <1>13, SameSession DEF Rows, IdentityKept, Imported, Identifies
  <1> QED
    BY <1>12, <1>14, <1>15, <1>16, <1>17 DEF Inv

-----------------------------------------------------------------------------
(* Other users of the ledger *)

\* What a run that is completed or opened keeps.
LEMMA SwitchFacts ==
  ASSUME Inv, NEW i \in DOMAIN runs, CloseRun(i) \/ ReopenRun(i)
  PROVE  /\ UNCHANGED <<session, file, bound, cursors, pc, pass, failures, shared, unlinked>>
         /\ runs' \in Seq(Run) /\ DOMAIN runs' = DOMAIN runs
         /\ \A j \in DOMAIN runs : /\ runs'[j].label = runs[j].label
                                   /\ runs'[j].metadata = runs[j].metadata
                                   /\ runs'[j].events = runs[j].events
                                   /\ runs'[j].index = runs[j].index
  <1>1. PICK o \in BOOLEAN : runs' = [runs EXCEPT ![i] = [runs[i] EXCEPT !.open = o]]
    BY DEF CloseRun, ReopenRun
  <1>2. UNCHANGED <<session, file, bound, cursors, pc, pass, failures, shared, unlinked>>
    BY DEF CloseRun, ReopenRun, source, history
  <1>3. runs \in Seq(Run) /\ runs[i] \in Run
    BY RunTypes DEF Inv, Tables
  <1> DEFINE row == [runs[i] EXCEPT !.open = o]
  <1>4. /\ row \in Run /\ row.label = runs[i].label /\ row.metadata = runs[i].metadata
        /\ row.events = runs[i].events /\ row.index = runs[i].index
    BY <1>3 DEF Run
  <1>5. runs' = [runs EXCEPT ![i] = row]
    BY <1>1
  <1> HIDE DEF row
  <1>6. /\ runs' \in Seq(Run) /\ DOMAIN runs' = DOMAIN runs
        /\ \A j \in DOMAIN runs : runs'[j] = IF j = i THEN row ELSE runs[j]
    BY <1>3, <1>4, <1>5
  <1> QED
    BY <1>2, <1>4, <1>6

LEMMA SwitchStep ==
  ASSUME Inv, NEW i \in DOMAIN runs, CloseRun(i) \/ ReopenRun(i)
  PROVE  Inv'
  <1>1. /\ UNCHANGED <<session, file, bound, cursors, pc, pass, failures, shared, unlinked>>
        /\ runs' \in Seq(Run) /\ DOMAIN runs' = DOMAIN runs
        /\ \A j \in DOMAIN runs : /\ runs'[j].label = runs[j].label
                                  /\ runs'[j].metadata = runs[j].metadata
                                  /\ runs'[j].events = runs[j].events
                                  /\ runs'[j].index = runs[j].index
    BY SwitchFacts
  <1>2. /\ Tables /\ Rows /\ IdentityKept /\ Apart /\ file \in Seq(Cells) /\ Len(file) \in Nat
        /\ Len(runs) \in Nat /\ Len(runs') = Len(runs)
    BY <1>1 DEF Inv, Tables, Layout
  <1>3. \A j \in DOMAIN runs : /\ Len(runs[j].index) = Len(runs[j].events)
                               /\ Len(runs[j].events) \in Nat
    BY <1>2, RunTypes DEF Tables
  <1>4. Extends
    <2>1. \A j, k \in Nat : Gap(j, k)' => Gap(j, k)
      BY <1>1 DEF Gap, Missing
    <2>2. \A j \in DOMAIN runs :
             /\ Len(runs'[j].index) = Len(runs'[j].events)
             /\ Len(runs'[j].events) >= Len(runs[j].events)
             /\ \A k \in DOMAIN runs[j].events : runs'[j].events[k] = runs[j].events[k]
      BY <1>1, <1>3
    <2>3. Len(runs') >= Len(runs) /\ Len(file') >= Len(file)
      BY <1>1, <1>2
    <2>4. /\ session' = session /\ file' = file /\ shared' = shared /\ unlinked' = unlinked
          /\ runs' \in Seq(Run)
      BY <1>1
    <2> QED
      BY <1>2, <2>1, <2>2, <2>3, <2>4 DEF Extends
  <1>5. Rows'
    BY <1>1, <1>2, SameSession DEF Rows
  <1>6. IdentityKept'
    <2>1. \A j \in DOMAIN runs : Imported(j)' = Imported(j)
      BY <1>1 DEF Imported
    <2> QED
      BY <1>1, <1>2, <2>1 DEF IdentityKept, Identifies
  <1>7. ASSUME NEW q \in Procs
        PROVE  Settled(q)'
    <2>1. pc'[q] = pc[q] /\ pass'[q] = pass[q]
      BY <1>1
    <2>2. Stage(q)' /\ Progress(q)' /\ Rebuilds(q)' /\ Identity(q)'
      BY <1>1, <1>4, <2>1, StageStays, ProgressStays, RebuildsStays, IdentityStays
    <2> QED
      BY <2>2 DEF Settled
  <1>8. Apart'
    BY <1>1, <1>2 DEF Apart, Importing
  <1>9. pc' \in [Procs -> Labels] /\ DOMAIN pass' = Procs /\ bound' \in 0..Len(runs')
    BY <1>1, <1>2 DEF Tables
  <1>10. \A j \in DOMAIN runs' : Len(runs'[j].index) = Len(runs'[j].events)
    BY <1>1, <1>3
  <1> QED
    BY <1>1, <1>4, <1>5, <1>6, <1>7, <1>8, <1>9, <1>10, LedgerStep

-----------------------------------------------------------------------------
(* The harness writes *)

\* The head of a complete record is followed by its tail.
LEMMA LastHead ==
  ASSUME Layout, ~Torn, NEW i \in DOMAIN file, NEW r \in Records, file[i] = Head1(r)
  PROVE  i \in Nat /\ i < Len(file) /\ file[i + 1] = Tail1(r)
  <1>1. /\ file \in Seq(Cells) /\ Len(file) \in Nat /\ i \in 1..Len(file)
        /\ i = Len(file) \/ file[i + 1] = Tail1(r)
    BY DEF Layout
  <1>2. Complete(r)
    BY DEF Torn, Begun
  <1>3. PICK k \in DOMAIN file : file[k] = Tail1(r)
    BY <1>2 DEF Complete
  <1>4. k >= 2 /\ file[k - 1] = Head1(r) /\ k < Len(file) /\ k \in Nat
    BY <1>1, <1>3 DEF Layout
  <1>5. k - 1 \in DOMAIN file
    BY <1>1, <1>4
  <1>6. (i < k - 1 <=> r < r) /\ (k - 1 < i <=> r < r)
    BY <1>4, <1>5 DEF Layout
  <1>7. i = k - 1
    BY <1>1, <1>4, <1>6, CellFacts
  <1> QED
    BY <1>1, <1>4, <1>7

\* What the harness adds disturbs nobody.
LEMMA WriteStep ==
  ASSUME Inv, Layout', Len(file') >= Len(file), \A i \in DOMAIN file : file'[i] = file[i],
         UNCHANGED <<session, runs, bound, cursors, pc, pass, failures, shared, unlinked>>
  PROVE  Inv'
  <1>1. Tables /\ Layout /\ CursorsInside /\ NothingSkipped /\ Rows /\ IdentityKept /\ Apart
    BY DEF Inv
  <1>2. /\ Len(file) \in Nat /\ Len(file') \in Nat /\ file' \in Seq(Cells)
    BY <1>1, SameSession DEF Layout
  <1>3. Extends
    <2>1. runs \in Seq(Run) /\ Len(runs) \in Nat
      BY <1>1 DEF Tables
    <2>2. \A i \in DOMAIN runs : /\ Len(runs[i].index) = Len(runs[i].events)
                                 /\ Len(runs[i].events) \in Nat
      BY <1>1, RunTypes DEF Tables
    <2>3. \A i, k \in Nat : Gap(i, k)' => Gap(i, k)
      BY DEF Gap, Missing
    <2> QED
      BY <1>2, <2>1, <2>2, <2>3 DEF Extends
  <1>4. Tables'
    BY <1>1, SameSession DEF Tables
  <1>5. CursorsInside'
    BY <1>1, <1>2 DEF CursorsInside, Tables
  <1>6. NothingSkipped'
    <2>1. ASSUME NEW op \in Ops
          PROVE  Passed(op, cursors[op]) /\ cursors[op] \in Nat /\ cursors[op] <= Len(file)
      BY <1>1 DEF Passed, NothingSkipped, Tables, CursorsInside
    <2>2. \A op \in Ops, n \in Nat : n <= Len(file) /\ Passed(op, n) => Passed(op, n)'
      BY <1>1, <1>3, PassedStays
    <2>3. ASSUME NEW op \in Ops
          PROVE  Passed(op, cursors[op])'
      BY <2>1, <2>2 DEF Passed
    <2> QED
      BY <2>3 DEF Passed, NothingSkipped
  <1>7. Rows' /\ IdentityKept' /\ Apart'
    BY <1>1, SameSession DEF Rows, IdentityKept, Apart, Importing, Imported, Identifies
  <1>8. ASSUME NEW q \in Procs
        PROVE  Settled(q)'
    <2>1. pc'[q] = pc[q] /\ pass'[q] = pass[q]
      OBVIOUS
    <2>2. Stage(q)' /\ Progress(q)' /\ Rebuilds(q)' /\ Identity(q)'
      BY <1>3, <2>1, StageStays, ProgressStays, RebuildsStays, IdentityStays
    <2> QED
      BY <2>2 DEF Settled
  <1> QED
    BY <1>4, <1>5, <1>6, <1>7, <1>8 DEF Inv

LEMMA NextRecordFacts ==
  ASSUME Layout, \E r \in Records : ~Begun(r)
  PROVE  /\ NextRecord \in Records
         /\ ~Begun(NextRecord)
         /\ \A q \in Records : q < NextRecord <=> Begun(q)
  <1> DEFINE S == {r \in Records : ~Begun(r)}
  <1>1. S \subseteq Nat /\ S # {}
    BY CellFacts
  <1>2. PICK r \in S : \A k \in S : r <= k
    <2> HIDE DEF S
    <2> QED
      BY <1>1, SmallestExists
  <1>3. r \in Records /\ ~Begun(r) /\ \A q \in 1..(r - 1) : Begun(q)
    <2>1. ASSUME NEW q \in 1..(r - 1)
          PROVE  q \in Records /\ ~(r <= q)
      BY <1>2, <2>1, CellFacts DEF Records
    <2> QED
      BY <1>2, <2>1
  <1>4. \E x \in Records : ~Begun(x) /\ \A q \in 1..(x - 1) : Begun(q)
    BY <1>3
  <1>5. /\ NextRecord \in Records /\ ~Begun(NextRecord)
        /\ \A q \in 1..(NextRecord - 1) : Begun(q)
    BY <1>4 DEF NextRecord
  <1>6. ASSUME NEW q \in Records, q < NextRecord
        PROVE  Begun(q)
    BY <1>5, <1>6, CellFacts
  <1>7. ASSUME NEW q \in Records, Begun(q)
        PROVE  q < NextRecord
    <2>1. ~(NextRecord < q)
      BY <1>5, <1>7 DEF Layout
    <2> QED
      BY <1>5, <1>7, <2>1, CellFacts
  <1> QED
    BY <1>5, <1>6, <1>7

LEMMA WriteRecordStep ==
  ASSUME Inv, WriteRecord
  PROVE  Inv'
  <1> DEFINE x == NextRecord
             n == Len(file)
  <1>1. /\ ~Torn /\ file' = file \o <<Head1(x)>>
        /\ UNCHANGED <<session, runs, bound, cursors, pc, pass, failures, shared, unlinked>>
    BY DEF WriteRecord, Write, store, history
  <1>2. Layout /\ file \in Seq(Cells) /\ n \in Nat /\ DOMAIN file = 1..n
    BY DEF Inv, Layout
  <1>3. /\ x \in Records /\ ~Begun(x) /\ x \in Nat
        /\ \A q \in Records : q < x <=> Begun(q)
    BY <1>2, NextRecordFacts, CellFacts DEF WriteRecord
  <1> HIDE DEF x
  <1>4. /\ file' \in Seq(Cells) /\ Len(file') = n + 1 /\ DOMAIN file' = 1..(n + 1)
        /\ \A i \in 1..n : file'[i] = file[i]
        /\ file'[n + 1] = Head1(x)
    <2>1. Head1(x) \in Cells
      BY <1>3, CellFacts
    <2> HIDE DEF Head1
    <2> QED
      BY <1>1, <1>2, <2>1
  <1>5. ASSUME NEW i \in 1..(n + 1), NEW r \in Records
        PROVE  /\ file'[i] = Tail1(r) => /\ i >= 2 /\ file'[i - 1] = Head1(r)
                                         /\ i < Len(file') /\ file'[i + 1] = NL
               /\ file'[i] = Head1(r) => i = Len(file') \/ file'[i + 1] = Tail1(r)
    <2>1. CASE i = n + 1
      BY <1>3, <1>4, <2>1, CellFacts
    <2>2. CASE i \in 1..n
      <3>1. ASSUME file[i] = Tail1(r)
            PROVE  /\ i >= 2 /\ file'[i - 1] = Head1(r)
                   /\ i < Len(file') /\ file'[i + 1] = NL
        <4>1. i >= 2 /\ file[i - 1] = Head1(r) /\ i < n /\ file[i + 1] = NL
          BY <1>2, <2>2, <3>1 DEF Layout
        <4>2. i - 1 \in 1..n /\ i + 1 \in 1..n
          BY <1>2, <2>2, <4>1
        <4> QED
          BY <1>2, <1>4, <4>1, <4>2
      <3>2. ASSUME file[i] = Head1(r)
            PROVE  file'[i + 1] = Tail1(r)
        <4>1. i < n /\ file[i + 1] = Tail1(r)
          BY <1>1, <1>2, <2>2, <3>2, LastHead
        <4>2. i + 1 \in 1..n
          BY <1>2, <2>2, <4>1
        <4> QED
          BY <1>4, <4>1, <4>2
      <3> QED
        BY <1>4, <2>2, <3>1, <3>2
    <2> QED
      BY <1>2, <1>5, <2>1, <2>2
  <1>6. ASSUME NEW i \in 1..(n + 1), NEW j \in 1..(n + 1), NEW r \in Records, NEW q \in Records,
               file'[i] = Head1(r), file'[j] = Head1(q)
        PROVE  i < j <=> r < q
    <2>1. ASSUME NEW k \in 1..(n + 1), NEW y \in Records, file'[k] = Head1(y)
          PROVE  /\ y \in Nat /\ k \in Nat
                 /\ k = n + 1 => y = x
                 /\ k # n + 1 => k \in 1..n /\ y < x
      <3>1. k = n + 1 => y = x
        BY <1>3, <1>4, <2>1, CellFacts
      <3>2. ASSUME k # n + 1
            PROVE  k \in 1..n /\ y < x
        <4>1. k \in 1..n
          BY <1>2, <2>1, <3>2
        <4>2. Begun(y)
          BY <1>2, <1>4, <2>1, <4>1 DEF Begun
        <4> QED
          BY <1>3, <4>1, <4>2
      <3> QED
        BY <1>2, <3>1, <3>2, CellFacts
    <2>2. CASE i # n + 1 /\ j # n + 1
      <3>1. i \in 1..n /\ j \in 1..n /\ file[i] = Head1(r) /\ file[j] = Head1(q)
        BY <1>4, <1>6, <2>1, <2>2
      <3> QED
        BY <1>2, <3>1 DEF Layout
    <2>3. CASE i = n + 1 \/ j = n + 1
      BY <1>2, <1>3, <1>6, <2>1, <2>3
    <2> QED
      BY <2>2, <2>3
  <1>7. ASSUME NEW r \in Records, NEW q \in Records, q < r, Begun(r)'
        PROVE  Begun(q)'
    <2>1. Begun(r) \/ r = x
      BY <1>2, <1>3, <1>4, <1>7, CellFacts DEF Begun, Head1
    <2>2. Begun(q)
      BY <1>2, <1>3, <1>7, <2>1 DEF Layout
    <2> QED
      BY <1>2, <1>4, <2>2 DEF Begun, Head1
  <1>8. Layout'
    <2>1. Records' = Records /\ Cells' = Cells
      BY <1>1, SameSession
    <2>2. file' \in Seq(Cells')
      BY <1>4, <2>1
    <2>3. \A i \in DOMAIN file' : \A r \in Records' :
            /\ file'[i] = Tail1(r) => /\ i >= 2 /\ file'[i - 1] = Head1(r)
                                      /\ i < Len(file') /\ file'[i + 1] = NL
            /\ file'[i] = Head1(r) => i = Len(file') \/ file'[i + 1] = Tail1(r)
      BY <1>4, <1>5, <2>1
    <2>4. \A i, j \in DOMAIN file' : \A r, q \in Records' :
            file'[i] = Head1(r) /\ file'[j] = Head1(q) => (i < j <=> r < q)
      BY <1>4, <1>6, <2>1
    <2>5. \A r, q \in Records' : q < r /\ Begun(r)' => Begun(q)'
      BY <1>7, <2>1
    <2> QED
      BY <2>2, <2>3, <2>4, <2>5 DEF Layout, Head1, Tail1, NL, Begun
  <1> QED
    BY <1>1, <1>2, <1>4, <1>8, WriteStep

\* A torn record is the last cell of the file.
LEMMA TornLast ==
  ASSUME Layout, NEW x \in Records, Begun(x), ~Complete(x)
  PROVE  Len(file) \in DOMAIN file /\ file[Len(file)] = Head1(x)
  <1>1. PICK i \in DOMAIN file : file[i] = Head1(x)
    BY DEF Begun
  <1>2. file \in Seq(Cells) /\ Len(file) \in Nat
    BY DEF Layout
  <1>3. CASE i = Len(file)
    BY <1>1, <1>3
  <1>4. CASE i # Len(file)
    <2>1. file[i + 1] = Tail1(x) /\ i + 1 \in DOMAIN file
      BY <1>1, <1>2, <1>4 DEF Layout
    <2> QED
      BY <2>1 DEF Complete
  <1> QED
    BY <1>3, <1>4

LEMMA WriteRestStep ==
  ASSUME Inv, WriteRest
  PROVE  Inv'
  <1> DEFINE n == Len(file)
  <1>1. PICK x \in Records : Begun(x) /\ ~Complete(x) /\ Write(<<Tail1(x), NL>>)
    BY DEF WriteRest
  <1>2. /\ file' = file \o <<Tail1(x), NL>>
        /\ UNCHANGED <<session, runs, bound, cursors, pc, pass, failures, shared, unlinked>>
    BY <1>1 DEF Write, store, history
  <1>3. Layout /\ file \in Seq(Cells) /\ n \in Nat /\ DOMAIN file = 1..n
    BY DEF Inv, Layout
  <1>4. n \in 1..n /\ file[n] = Head1(x)
    BY <1>1, <1>3, TornLast
  <1>5. /\ file' \in Seq(Cells) /\ Len(file') = n + 2 /\ DOMAIN file' = 1..(n + 2)
        /\ \A i \in 1..n : file'[i] = file[i]
        /\ file'[n + 1] = Tail1(x) /\ file'[n + 2] = NL
    <2>1. Tail1(x) \in Cells /\ NL \in Cells
      BY CellFacts DEF Cells
    <2> HIDE DEF Tail1, NL
    <2> QED
      BY <1>2, <1>3, <2>1
  <1>6. ASSUME NEW i \in 1..(n + 2)
        PROVE  i \in 1..n \/ i = n + 1 \/ i = n + 2
    BY <1>3
  <1>7. ASSUME NEW i \in 1..(n + 2), NEW r \in Records
        PROVE  /\ file'[i] = Tail1(r) => /\ i >= 2 /\ file'[i - 1] = Head1(r)
                                         /\ i < Len(file') /\ file'[i + 1] = NL
               /\ file'[i] = Head1(r) => i = Len(file') \/ file'[i + 1] = Tail1(r)
    <2>1. CASE i = n + 1
      <3>1. i >= 2 /\ i - 1 = n /\ i + 1 = n + 2 /\ i < n + 2
        BY <1>3, <1>4, <2>1
      <3> QED
        BY <1>4, <1>5, <2>1, <3>1, CellFacts
    <2>2. CASE i = n + 2
      BY <1>5, <2>2, CellFacts
    <2>3. CASE i \in 1..n
      <3>1. ASSUME file[i] = Tail1(r)
            PROVE  /\ i >= 2 /\ file'[i - 1] = Head1(r)
                   /\ i < Len(file') /\ file'[i + 1] = NL
        <4>1. i >= 2 /\ file[i - 1] = Head1(r) /\ i < n /\ file[i + 1] = NL
          BY <1>3, <2>3, <3>1 DEF Layout
        <4>2. i - 1 \in 1..n /\ i + 1 \in 1..n
          BY <1>3, <2>3, <4>1
        <4> QED
          BY <1>3, <1>5, <4>1, <4>2
      <3>2. ASSUME file[i] = Head1(r)
            PROVE  file'[i + 1] = Tail1(r)
        <4>1. CASE i = n
          BY <1>4, <1>5, <3>2, <4>1, CellFacts
        <4>2. CASE i # n
          <5>1. file[i + 1] = Tail1(r)
            BY <1>3, <2>3, <3>2, <4>2 DEF Layout
          <5>2. i + 1 \in 1..n
            <6>1. n \in Nat
              BY <1>3
            <6> HIDE DEF n
            <6> QED
              BY <2>3, <4>2, <6>1
          <5> QED
            BY <1>5, <5>1, <5>2
        <4> QED
          BY <4>1, <4>2
      <3> QED
        BY <1>5, <2>3, <3>1, <3>2
    <2> QED
      BY <1>6, <1>7, <2>1, <2>2, <2>3
  <1>8. ASSUME NEW i \in 1..(n + 2), NEW r \in Records, file'[i] = Head1(r)
        PROVE  i \in 1..n /\ file[i] = Head1(r)
    BY <1>5, <1>6, <1>8, CellFacts
  <1>9. \A r \in Records : Begun(r)' <=> Begun(r)
    BY SMTT(20), <1>3, <1>5, <1>8 DEF Begun, Head1
  <1>10. Layout'
    <2>1. Records' = Records /\ Cells' = Cells
      BY <1>2, SameSession
    <2>2. file' \in Seq(Cells')
      BY <1>5, <2>1
    <2>3. \A i \in DOMAIN file' : \A r \in Records' :
            /\ file'[i] = Tail1(r) => /\ i >= 2 /\ file'[i - 1] = Head1(r)
                                      /\ i < Len(file') /\ file'[i + 1] = NL
            /\ file'[i] = Head1(r) => i = Len(file') \/ file'[i + 1] = Tail1(r)
      BY <1>5, <1>7, <2>1
    <2>4. \A i, j \in DOMAIN file' : \A r, q \in Records' :
            file'[i] = Head1(r) /\ file'[j] = Head1(q) => (i < j <=> r < q)
      BY <1>3, <1>5, <1>8, <2>1 DEF Layout
    <2>5. \A r, q \in Records' : q < r /\ Begun(r)' => Begun(q)'
      BY <1>3, <1>9, <2>1 DEF Layout
    <2> QED
      BY <2>2, <2>3, <2>4, <2>5 DEF Layout, Head1, Tail1, NL, Begun
  <1> QED
    BY <1>2, <1>3, <1>5, <1>10, WriteStep

LEMMA WriteBlankLineStep ==
  ASSUME Inv, WriteBlankLine
  PROVE  Inv'
  <1> DEFINE n == Len(file)
  <1>1. /\ ~Torn /\ file' = file \o <<NL>>
        /\ UNCHANGED <<session, runs, bound, cursors, pc, pass, failures, shared, unlinked>>
    BY DEF WriteBlankLine, Write, store, history
  <1>2. Layout /\ file \in Seq(Cells) /\ n \in Nat /\ DOMAIN file = 1..n
    BY DEF Inv, Layout
  <1>3. /\ file' \in Seq(Cells) /\ Len(file') = n + 1 /\ DOMAIN file' = 1..(n + 1)
        /\ \A i \in 1..n : file'[i] = file[i]
        /\ file'[n + 1] = NL
    <2>1. NL \in Cells
      BY DEF Cells
    <2> HIDE DEF NL
    <2> QED
      BY <1>1, <1>2, <2>1
  <1>4. ASSUME NEW i \in 1..(n + 1)
        PROVE  i \in 1..n \/ i = n + 1
    BY <1>2
  <1>5. ASSUME NEW i \in 1..(n + 1), NEW r \in Records
        PROVE  /\ file'[i] = Tail1(r) => /\ i >= 2 /\ file'[i - 1] = Head1(r)
                                         /\ i < Len(file') /\ file'[i + 1] = NL
               /\ file'[i] = Head1(r) => i = Len(file') \/ file'[i + 1] = Tail1(r)
    <2>1. CASE i = n + 1
      BY <1>3, <2>1, CellFacts
    <2>2. CASE i \in 1..n
      <3>1. ASSUME file[i] = Tail1(r)
            PROVE  /\ i >= 2 /\ file'[i - 1] = Head1(r)
                   /\ i < Len(file') /\ file'[i + 1] = NL
        <4>1. i >= 2 /\ file[i - 1] = Head1(r) /\ i < n /\ file[i + 1] = NL
          BY <1>2, <2>2, <3>1 DEF Layout
        <4>2. i - 1 \in 1..n /\ i + 1 \in 1..n
          BY <1>2, <2>2, <4>1
        <4> QED
          BY <1>2, <1>3, <4>1, <4>2
      <3>2. ASSUME file[i] = Head1(r)
            PROVE  file'[i + 1] = Tail1(r)
        <4>1. i < n /\ file[i + 1] = Tail1(r)
          BY <1>1, <1>2, <2>2, <3>2, LastHead
        <4>2. i + 1 \in 1..n
          BY <1>2, <2>2, <4>1
        <4> QED
          BY <1>3, <4>1, <4>2
      <3> QED
        BY <1>3, <2>2, <3>1, <3>2
    <2> QED
      BY <1>4, <1>5, <2>1, <2>2
  <1>6. ASSUME NEW i \in 1..(n + 1), NEW r \in Records, file'[i] = Head1(r)
        PROVE  i \in 1..n /\ file[i] = Head1(r)
    BY <1>3, <1>4, <1>6, CellFacts
  <1>7. \A r \in Records : Begun(r)' <=> Begun(r)
    BY <1>2, <1>3, <1>6 DEF Begun, Head1
  <1>8. Layout'
    <2>1. Records' = Records /\ Cells' = Cells
      BY <1>1, SameSession
    <2>2. file' \in Seq(Cells')
      BY <1>3, <2>1
    <2>3. \A i \in DOMAIN file' : \A r \in Records' :
            /\ file'[i] = Tail1(r) => /\ i >= 2 /\ file'[i - 1] = Head1(r)
                                      /\ i < Len(file') /\ file'[i + 1] = NL
            /\ file'[i] = Head1(r) => i = Len(file') \/ file'[i + 1] = Tail1(r)
      BY <1>3, <1>5, <2>1
    <2>4. \A i, j \in DOMAIN file' : \A r, q \in Records' :
            file'[i] = Head1(r) /\ file'[j] = Head1(q) => (i < j <=> r < q)
      BY <1>2, <1>3, <1>6, <2>1 DEF Layout
    <2>5. \A r, q \in Records' : q < r /\ Begun(r)' => Begun(q)'
      BY <1>2, <1>7, <2>1 DEF Layout
    <2> QED
      BY <2>2, <2>3, <2>4, <2>5 DEF Layout, Head1, Tail1, NL, Begun
  <1> QED
    BY <1>1, <1>2, <1>3, <1>8, WriteStep

-----------------------------------------------------------------------------
(* The invariant *)

LEMMA NewRunFacts ==
  /\ NewRun \in Run /\ NewRun.events = <<>> /\ NewRun.index = <<>>
  /\ NewRun.label = 0 /\ NewRun.metadata = {}
  BY DEF NewRun, Run, Label

LEMMA LegacyFacts ==
  ASSUME 1 \in Records
  PROVE  /\ Legacy \in Run
         /\ Legacy.events = <<[op |-> "sync", rec |-> 1, at |-> 0]>>
         /\ Legacy.index = <<Missing>>
         /\ Legacy.metadata = {1}
  <1> DEFINE e == [op |-> "sync", rec |-> 1, at |-> 0]
  <1>1. e \in Event
    BY DEF Event, Ops
  <1>2. <<e>> \in Seq(Event) /\ <<Missing>> \in Seq(Label \cup {Missing}) /\ 1 \in Label
    <2> HIDE DEF e
    <2> QED
      BY <1>1 DEF Label
  <1> DEFINE es == <<e>>
             ix == <<Missing>>
  <1>3. Legacy = [[label |-> 0, metadata |-> {}, events |-> <<>>, index |-> <<>>, open |-> TRUE]
                     EXCEPT !.label = 1, !.metadata = {1}, !.events = es, !.index = ix]
    BY DEF Legacy, NewRun
  <1>4. es \in Seq(Event) /\ ix \in Seq(Label \cup {Missing})
    BY <1>2
  <1> HIDE DEF e, es, ix
  <1>5. Legacy \in Run /\ Legacy.events = es /\ Legacy.index = ix /\ Legacy.metadata = {1}
    BY <1>2, <1>3, <1>4 DEF Run
  <1> QED
    BY <1>5 DEF e, es, ix

LEMMA InitEmpty ==
  ASSUME Init, file = <<>>, runs = <<NewRun>>, bound = 0, cursors = [op \in Ops |-> 0]
  PROVE  Inv
  <1>1. /\ pc = [q \in Procs |-> "closed"] /\ pass = [q \in Procs |-> Idle]
        /\ session \in Sessions \cup Transcripts /\ failures = 0
        /\ shared = {} /\ unlinked = {}
    BY DEF Init, Idle
  <1>2. /\ runs \in Seq(Run) /\ Len(runs) = 1 /\ DOMAIN runs = {1} /\ runs[1] = NewRun
    <2>1. NewRun \in Run
      BY NewRunFacts
    <2> HIDE DEF NewRun
    <2> QED
      BY <2>1
  <1>3. /\ DOMAIN runs[1].events = {} /\ DOMAIN runs[1].index = {}
        /\ Len(runs[1].index) = Len(runs[1].events)
    BY <1>2, NewRunFacts
  <1>4. Tables
    BY <1>1, <1>2, <1>3, BoundsAssumption DEF Tables, Labels
  <1>5. file \in Seq(Cells) /\ DOMAIN file = {} /\ Len(file) = 0
    OBVIOUS
  <1>6. Layout
    BY <1>5 DEF Layout, Begun
  <1>7. CursorsInside /\ NothingSkipped
    BY <1>5 DEF CursorsInside, NothingSkipped
  <1>8. Rows
    BY <1>2, <1>3 DEF Rows
  <1>9. IdentityKept
    BY <1>2, <1>3 DEF IdentityKept, Imported
  <1>10. ASSUME NEW q \in Procs
         PROVE  pc[q] = "closed" /\ pass[q] = Idle /\ ~Importing(q)
    BY <1>1, NotIdle DEF Importing
  <1>11. Apart /\ \A q \in Procs : Settled(q)
    BY <1>10 DEF Apart, Settled, Stage, Progress, Rebuilds, Identity, Outside, Holding
  <1> QED
    BY <1>4, <1>6, <1>7, <1>8, <1>9, <1>11 DEF Inv

LEMMA InitLegacy ==
  ASSUME Init, 1 \in Records, file = <<Head1(1), Tail1(1), NL>>,
         runs = <<NewRun, Legacy>>, bound = 2, cursors = [sync |-> 3, pull |-> 0]
  PROVE  Inv
  <1>1. /\ pc = [q \in Procs |-> "closed"] /\ pass = [q \in Procs |-> Idle]
        /\ session \in Sessions \cup Transcripts /\ failures = 0
        /\ shared = {} /\ unlinked = {}
    BY DEF Init, Idle
  <1>2. /\ runs \in Seq(Run) /\ Len(runs) = 2 /\ DOMAIN runs = {1, 2}
        /\ runs[1] = NewRun /\ runs[2] = Legacy
    <2>1. NewRun \in Run /\ Legacy \in Run
      BY NewRunFacts, LegacyFacts
    <2> HIDE DEF NewRun, Legacy
    <2> QED
      BY <2>1
  <1>3. /\ DOMAIN runs[1].events = {} /\ DOMAIN runs[1].index = {}
        /\ Len(runs[1].index) = Len(runs[1].events)
        /\ DOMAIN runs[2].events = {1} /\ DOMAIN runs[2].index = {1}
        /\ Len(runs[2].index) = Len(runs[2].events)
        /\ runs[2].events[1] = Legacy.events[1]
        /\ Legacy.events[1].op = "sync" /\ Legacy.events[1].rec = 1
        /\ runs[2].metadata = {1}
    BY <1>2, NewRunFacts, LegacyFacts
  <1>4. cursors \in [Ops -> Nat] /\ cursors["sync"] = 3 /\ cursors["pull"] = 0
    BY DEF Ops
  <1>5. Tables
    BY <1>1, <1>2, <1>3, <1>4, BoundsAssumption DEF Tables, Labels
  <1>6. /\ file \in Seq(Cells) /\ DOMAIN file = {1, 2, 3} /\ Len(file) = 3
        /\ file[1] = Head1(1) /\ file[2] = Tail1(1) /\ file[3] = NL
    <2>1. Head1(1) \in Cells /\ Tail1(1) \in Cells /\ NL \in Cells
      BY CellFacts DEF Cells
    <2> HIDE DEF Head1, Tail1, NL
    <2> QED
      BY <2>1
  <1>7. ASSUME NEW i \in DOMAIN file, NEW r \in Records
        PROVE  /\ file[i] = Head1(r) => i = 1 /\ r = 1
               /\ file[i] = Tail1(r) => i = 2 /\ r = 1
    BY <1>6, CellFacts
  <1>8. Layout
    <2>1. \A r \in Records : Begun(r) => r = 1
      BY <1>7 DEF Begun
    <2>2. \A r, q \in Records : q < r /\ Begun(r) => Begun(q)
      BY <2>1, CellFacts
    <2>3. \A i \in DOMAIN file : \A r \in Records :
             /\ file[i] = Tail1(r) => /\ i >= 2 /\ file[i - 1] = Head1(r)
                                      /\ i < Len(file) /\ file[i + 1] = NL
             /\ file[i] = Head1(r) => i = Len(file) \/ file[i + 1] = Tail1(r)
      BY <1>6, <1>7
    <2>4. \A i, j \in DOMAIN file : \A r, q \in Records :
             file[i] = Head1(r) /\ file[j] = Head1(q) => (i < j <=> r < q)
      BY <1>7
    <2> QED
      BY <1>6, <2>2, <2>3, <2>4 DEF Layout
  <1>9. CursorsInside
    BY <1>4, <1>6 DEF CursorsInside, Ops
  <1>10. NothingSkipped
    <2>1. Stored("sync", 1)
      BY <1>2, <1>3 DEF Stored, Imported
    <2>2. ASSUME NEW op \in Ops, NEW i \in DOMAIN file, NEW r \in Records,
                 file[i] = Head1(r), i <= cursors[op]
          PROVE  Stored(op, r)
      <3>1. op = "sync" /\ r = 1
        BY <1>4, <1>7, <2>2 DEF Ops
      <3> QED
        BY <2>1, <3>1
    <2> QED
      BY <2>2 DEF NothingSkipped
  <1>11. Rows
    BY <1>2, <1>3 DEF Rows
  <1>12. IdentityKept
    BY <1>2, <1>3 DEF IdentityKept, Imported
  <1>13. ASSUME NEW q \in Procs
         PROVE  pc[q] = "closed" /\ pass[q] = Idle /\ ~Importing(q)
    BY <1>1, NotIdle DEF Importing
  <1>14. Apart /\ \A q \in Procs : Settled(q)
    BY <1>13 DEF Apart, Settled, Stage, Progress, Rebuilds, Identity, Outside, Holding
  <1> QED
    BY <1>5, <1>8, <1>9, <1>10, <1>11, <1>12, <1>14 DEF Inv

LEMMA InvInit == Init => Inv
  BY InitEmpty, InitLegacy DEF Init

LEMMA InvUnchanged ==
  ASSUME Inv, UNCHANGED vars
  PROVE  Inv'
  <1>1. UNCHANGED <<session, file, runs, bound, cursors, pc, pass, failures, shared, unlinked>>
    BY DEF vars, source, store, history
  <1>2. file \in Seq(Cells) /\ Len(file) \in Nat
    BY DEF Inv, Layout
  <1>3. Layout'
    BY <1>1, SameSession DEF Inv, Layout, Begun, Head1, Tail1, NL
  <1> QED
    BY <1>1, <1>2, <1>3, WriteStep

LEMMA InvNext ==
  ASSUME Inv, Next
  PROVE  Inv'
  <1>1. CASE WriteRecord
    BY <1>1, WriteRecordStep
  <1>2. CASE WriteRest
    BY <1>2, WriteRestStep
  <1>3. CASE WriteBlankLine
    BY <1>3, WriteBlankLineStep
  <1>4. ASSUME NEW p \in Procs, Proceed(p)
        PROVE  Inv'
    <2>1. CASE RebuildRead(p)
      BY <2>1, RebuildReadStep
    <2>2. CASE RebuildWrite(p)
      BY <2>2, RebuildWriteStep
    <2>3. CASE SourceRun(p)
      BY <2>3, SourceRunStep
    <2>4. CASE StartRun(p)
      BY <2>4, StartRunStep
    <2>5. CASE BindSourceRun(p)
      BY <2>5, BindSourceRunStep
    <2>6. CASE OpenFile(p)
      BY <2>6, OpenFileStep
    <2>7. CASE ReadBlankLine(p)
      BY <2>7, ReadBlankLineStep
    <2>8. CASE ReadTornLine(p)
      BY <2>8, ReadTornLineStep
    <2>9. CASE ReadLine(p)
      BY <2>9, ReadLineStep
    <2>10. CASE ReadIdentity(p) \/ RefuseMarker(p)
      BY <2>10, ReadIdentityStep
    <2>11. CASE UpdateRunIdentity(p)
      BY <2>11, UpdateRunIdentityStep
    <2>12. CASE AppendRecord(p)
      BY <2>12, AppendRecordStep
    <2>13. CASE SetCursor(p)
      BY <2>13, SetCursorStep
    <2>14. CASE EndPass(p)
      BY <2>14, EndPassStep
    <2> QED
      BY <1>4, <2>1, <2>2, <2>3, <2>4, <2>5, <2>6, <2>7, <2>8, <2>9, <2>10,
         <2>11, <2>12, <2>13, <2>14 DEF Proceed
  <1>5. ASSUME NEW p \in Procs, PullFile(p) \/ Fail(p)
        PROVE  Inv'
    BY <1>5, PullFileStep, FailStep
  <1>6. ASSUME NEW i \in DOMAIN runs, CloseRun(i) \/ ReopenRun(i)
        PROVE  Inv'
    BY <1>6, SwitchStep
  <1> QED
    BY <1>1, <1>2, <1>3, <1>4, <1>5, <1>6 DEF Next

LEMMA InvHolds == Spec => []Inv
  <1>1. Inv /\ [Next]_vars => Inv'
    BY InvNext, InvUnchanged
  <1> QED
    BY <1>1, InvInit, PTL DEF Spec

-----------------------------------------------------------------------------
(* Theorems *)

\* Types: every table holds rows of its type, a binding names a run that exists,
\* and a run has as many index rows as events.
THEOREM TypeCorrect == Spec => []TypeOK
  <1>1. Inv => TypeOK
    <2>1. ASSUME Inv, NEW i \in DOMAIN runs
          PROVE  /\ runs[i].label \in Label
                 /\ runs[i].metadata \subseteq Records
                 /\ runs[i].events \in Seq(Event)
                 /\ runs[i].index \in Seq(Label \cup {Missing})
                 /\ Len(runs[i].index) = Len(runs[i].events)
                 /\ runs[i].open \in BOOLEAN
      BY <2>1, RunTypes DEF Inv, Tables
    <2>2. ASSUME Inv
          PROVE  bound \in {0} \cup DOMAIN runs
      BY <2>2 DEF Inv, Tables
    <2> QED
      BY <2>1, <2>2 DEF Inv, Tables, Layout, Labels, TypeOK
  <1> QED
    BY <1>1, InvHolds, PTL

\* No record is lost: a cursor that the collector or a pull has stored (SetCursor)
\* stands behind no beginning of a record that is not in the ledger, however the
\* passes interleave and wherever they end.
THEOREM NothingLost == Spec => []NothingSkipped
  <1>1. Inv => NothingSkipped
    BY DEF Inv
  <1> QED
    BY <1>1, InvHolds, PTL

\* The index is whole once a process has opened the ledger (rebuildMissingIndex),
\* and its rows carry the labels of their runs, although rebuilding, appending and
\* relabelling interleave.
THEOREM IndexCorrect == Spec => []IndexAgrees
  <1>1. Inv => IndexAgrees
    <2>1. ASSUME Inv, NEW i \in DOMAIN runs, NEW k \in DOMAIN runs[i].index,
                 NEW p \in Procs, pc[p] \notin {"closed", "rebuild"}
          PROVE  runs[i].index[k] # Missing
      <3>1. \A j, n \in Nat : ~Gap(j, n)
        BY <2>1 DEF Inv, Settled, Rebuilds
      <3>2. i \in Nat /\ k \in Nat
        BY <2>1, RunTypes DEF Inv
      <3> QED
        BY <2>1, <3>1, <3>2 DEF Gap
    <2> QED
      BY <2>1 DEF IndexAgrees, Inv, Rows
  <1> QED
    BY <1>1, InvHolds, PTL

\* UpdateRunIdentity loses no metadata of a run that no two passes ever imported
\* at the same time, whatever fails between reading and writing it.
THEOREM MetadataKept == Spec => []IdentityKept
  <1>1. Inv => IdentityKept
    BY DEF Inv
  <1> QED
    BY <1>1, InvHolds, PTL

-----------------------------------------------------------------------------
(* Every record once: what stays *)

\* No event is added; runs that are new are empty.
SameEvents ==
    /\ \A i \in DOMAIN runs : i \in DOMAIN runs' /\ runs'[i].events = runs[i].events
    /\ \A i \in DOMAIN runs' : i \in DOMAIN runs \/ runs'[i].events = <<>>

LEMMA CopyMember ==
  \A op, r, x :
    x \in CopySet(op, r) <=>
      \E i \in DOMAIN runs : \E k \in DOMAIN runs[i].events :
         /\ runs[i].events[k].op = op
         /\ runs[i].events[k].rec = r
         /\ x = <<i, k>>
  <1>1. ASSUME NEW op, NEW r, NEW x, x \in CopySet(op, r)
        PROVE  \E i \in DOMAIN runs : \E k \in DOMAIN runs[i].events :
                  /\ runs[i].events[k].op = op
                  /\ runs[i].events[k].rec = r
                  /\ x = <<i, k>>
    <2>1. PICK i \in DOMAIN runs :
                 x \in {<<i, k>> : k \in {n \in DOMAIN runs[i].events :
                                            /\ runs[i].events[n].op = op
                                            /\ runs[i].events[n].rec = r}}
      BY <1>1 DEF CopySet
    <2>2. PICK k \in {n \in DOMAIN runs[i].events : /\ runs[i].events[n].op = op
                                                    /\ runs[i].events[n].rec = r} :
                 x = <<i, k>>
      BY <2>1
    <2> QED
      BY <2>2
  <1>2. ASSUME NEW op, NEW r, NEW i \in DOMAIN runs, NEW k \in DOMAIN runs[i].events,
               runs[i].events[k].op = op, runs[i].events[k].rec = r
        PROVE  <<i, k>> \in CopySet(op, r)
    <2>1. <<i, k>> \in {<<i, m>> : m \in {n \in DOMAIN runs[i].events :
                                            /\ runs[i].events[n].op = op
                                            /\ runs[i].events[n].rec = r}}
      BY <1>2
    <2> QED
      BY <2>1 DEF CopySet
  <1> QED
    BY <1>1, <1>2

LEMMA CopyMemberLater ==
  (\A op, r, x :
     x \in CopySet(op, r) <=>
       \E i \in DOMAIN runs : \E k \in DOMAIN runs[i].events :
          /\ runs[i].events[k].op = op
          /\ runs[i].events[k].rec = r
          /\ x = <<i, k>>)'
  BY CopyMember, PTL

LEMMA OldEvent ==
  ASSUME SameEvents, NEW i \in DOMAIN runs', NEW k \in DOMAIN runs'[i].events
  PROVE  i \in DOMAIN runs /\ runs'[i].events = runs[i].events /\ k \in DOMAIN runs[i].events
  <1>1. runs'[i].events # <<>>
    OBVIOUS
  <1> QED
    BY <1>1 DEF SameEvents

LEMMA SameStored ==
  ASSUME SameEvents
  PROVE  \A op, r : Stored(op, r)' <=> Stored(op, r)
  <1>1. ASSUME NEW op, NEW r, Stored(op, r)
        PROVE  Stored(op, r)'
    <2>1. PICK i \in DOMAIN runs : \E k \in DOMAIN runs[i].events :
                 runs[i].events[k].op = op /\ runs[i].events[k].rec = r
      BY <1>1 DEF Stored, Imported
    <2>2. i \in DOMAIN runs' /\ runs'[i].events = runs[i].events
      BY <2>1 DEF SameEvents
    <2> QED
      BY <2>1, <2>2 DEF Stored, Imported
  <1>2. ASSUME NEW op, NEW r, Stored(op, r)'
        PROVE  Stored(op, r)
    <2>1. PICK i \in DOMAIN runs' : \E k \in DOMAIN runs'[i].events :
                 runs'[i].events[k].op = op /\ runs'[i].events[k].rec = r
      BY <1>2 DEF Stored, Imported
    <2>2. i \in DOMAIN runs /\ runs'[i].events = runs[i].events
      BY <2>1, OldEvent
    <2> QED
      BY <2>1, <2>2 DEF Stored, Imported
  <1> QED
    BY <1>1, <1>2

LEMMA SameCopies ==
  ASSUME SameEvents
  PROVE  \A op, r : CopySet(op, r)' = CopySet(op, r)
  <1>1. ASSUME NEW op, NEW r, NEW x
        PROVE  x \in CopySet(op, r)' <=> x \in CopySet(op, r)
    <2>1. x \in CopySet(op, r)' <=>
            \E i \in DOMAIN runs' : \E k \in DOMAIN runs'[i].events :
               /\ runs'[i].events[k].op = op
               /\ runs'[i].events[k].rec = r
               /\ x = <<i, k>>
      BY CopyMemberLater
    <2>2. (\E i \in DOMAIN runs' : \E k \in DOMAIN runs'[i].events :
               /\ runs'[i].events[k].op = op
               /\ runs'[i].events[k].rec = r
               /\ x = <<i, k>>)
          <=>
          (\E i \in DOMAIN runs : \E k \in DOMAIN runs[i].events :
               /\ runs[i].events[k].op = op
               /\ runs[i].events[k].rec = r
               /\ x = <<i, k>>)
      BY OldEvent DEF SameEvents
    <2> QED
      BY <2>1, <2>2, CopyMember
  <1> QED
    BY <1>1

LEMMA EventsStay ==
  ASSUME SameEvents, session' = session, Events, Unique, Ordered, Downward
  PROVE  Events' /\ Unique' /\ Ordered' /\ Downward'
  <1>1. Discovered' = Discovered /\ Channel' = Channel /\ Records' = Records
    BY SameSession
  <1>2. Events'
    <2>1. ASSUME NEW i \in DOMAIN runs', NEW k \in DOMAIN runs'[i].events
          PROVE  /\ runs'[i].events[k].op = Channel
                 /\ Discovered => runs'[i].events[k].at = 3 * runs'[i].events[k].rec - 3
      <3>1. i \in DOMAIN runs /\ runs'[i].events = runs[i].events
            /\ k \in DOMAIN runs[i].events
        BY <2>1, OldEvent
      <3> QED
        BY <3>1 DEF Events
    <2> QED
      BY <1>1, <2>1 DEF Events
  <1>3. Unique'
    <2>1. ASSUME NEW i \in DOMAIN runs', NEW k \in DOMAIN runs'[i].events,
                 NEW j \in DOMAIN runs', NEW n \in DOMAIN runs'[j].events,
                 Discovered, runs'[i].events[k].rec = runs'[j].events[n].rec
          PROVE  i = j /\ k = n
      <3>1. i \in DOMAIN runs /\ runs'[i].events = runs[i].events
            /\ k \in DOMAIN runs[i].events
        BY <2>1, OldEvent
      <3>2. j \in DOMAIN runs /\ runs'[j].events = runs[j].events
            /\ n \in DOMAIN runs[j].events
        BY <2>1, OldEvent
      <3> QED
        BY <2>1, <3>1, <3>2 DEF Unique
    <2> QED
      BY <1>1, <2>1 DEF Unique
  <1>4. Ordered'
    <2>1. ASSUME NEW i \in DOMAIN runs', NEW j \in DOMAIN runs'[i].events,
                 NEW k \in DOMAIN runs'[i].events, Discovered, j < k
          PROVE  runs'[i].events[j].rec < runs'[i].events[k].rec
      <3>1. i \in DOMAIN runs /\ runs'[i].events = runs[i].events
        BY <2>1, OldEvent
      <3> QED
        BY <2>1, <3>1 DEF Ordered
    <2> QED
      BY <1>1, <2>1 DEF Ordered
  <1>5. Downward'
    <2>1. \A r : Stored("sync", r)' <=> Stored("sync", r)
      BY SameStored
    <2> QED
      BY <1>1, <2>1 DEF Downward, Importable
  <1> QED
    BY <1>2, <1>3, <1>4, <1>5

LEMMA BlanksCounted ==
  Blanks = Cardinality(Newlines) - Cardinality(Completed)
  BY DEF Blanks, Newlines, Completed

LEMMA SpacesStay ==
  ASSUME UNCHANGED <<session, file>>, Counted, Spaced, Blanks \in Nat
  PROVE  Counted' /\ Spaced' /\ Blanks' \in Nat
  <1>1. Records' = Records
    BY SameSession
  <1>2. \A r : (Begun(r)' <=> Begun(r)) /\ (Complete(r)' <=> Complete(r))
    BY DEF Begun, Complete, Head1, Tail1
  <1>3. Newlines' = Newlines /\ Completed' = Completed
    BY <1>1, <1>2 DEF Newlines, Completed, NL
  <1>4. Blanks' = Blanks
    <2>1. Blanks' = Cardinality(Newlines') - Cardinality(Completed')
      BY DEF Blanks, Newlines, Completed
    <2> QED
      BY <1>3, <2>1, BlanksCounted
  <1>5. Torn' <=> Torn
    BY <1>1, <1>2 DEF Torn
  <1>6. Counted'
    BY <1>1, <1>2, <1>4, <1>5 DEF Counted
  <1>7. Spaced'
    BY <1>1 DEF Spaced, Head1
  <1> QED
    BY <1>4, <1>6, <1>7

LEMMA AlignedStays ==
  ASSUME UNCHANGED <<session, file>>, NEW q \in Procs, Aligned(q),
         pc'[q] = pc[q], pass'[q] = pass[q],
         pass[q].op = "pull" => cursors'["pull"] = cursors["pull"]
  PROVE  Aligned(q)'
  <1>1. Records' = Records /\ Rec(q)' = Rec(q)
    BY SameSession DEF Rec
  <1> QED
    BY <1>1 DEF Aligned, Threefold, Head1

LEMMA PullsStay ==
  ASSUME SameEvents, session' = session, Pulls, failures \in Nat,
         \/ /\ failures' = failures
            /\ \A r \in Records : Pulled(r) => Pulled(r)'
         \/ failures' = failures + 1
  PROVE  Pulls'
  <1>1. Records' = Records
    BY SameSession
  <1>2. ASSUME NEW r \in Records
        PROVE  /\ IsFiniteSet(CopySet("pull", r)')
               /\ Copies("pull", r)' <= failures' + (IF Pulled(r)' THEN 1 ELSE 0)
    <2>1. CopySet("pull", r)' = CopySet("pull", r)
      BY SameCopies
    <2>2. /\ Copies("pull", r) = Cardinality(CopySet("pull", r))
          /\ Copies("pull", r)' = Cardinality(CopySet("pull", r)')
      BY DEF Copies, CopySet
    <2>3. /\ IsFiniteSet(CopySet("pull", r))
          /\ Copies("pull", r) <= failures + (IF Pulled(r) THEN 1 ELSE 0)
      BY <1>2 DEF Pulls
    <2>4. Copies("pull", r) \in Nat
      BY <2>2, <2>3, FS_CardinalityType
    <2>5. Copies("pull", r)' = Copies("pull", r)
      BY <2>1, <2>2
    <2>6. Copies("pull", r)' <= failures' + (IF Pulled(r)' THEN 1 ELSE 0)
      <3>1. CASE failures' = failures /\ (Pulled(r) => Pulled(r)')
        BY <2>3, <2>4, <2>5, <3>1
      <3>2. CASE failures' = failures + 1
        BY <2>3, <2>4, <2>5, <3>2
      <3> QED
        BY <1>2, <3>1, <3>2
    <2> QED
      BY <2>1, <2>3, <2>6
  <1> QED
    BY <1>1, <1>2 DEF Pulls

\* A step of p that adds no event and stores no cursor.
LEMMA QuietStep ==
  ASSUME Inv, Spacing, NEW p \in Procs, SameEvents,
         UNCHANGED <<session, file, cursors>>,
         \A q \in Procs \ {p} : pc'[q] = pc[q] /\ pass'[q] = pass[q],
         pass'[p].op = "pull" => pass[p].op = "pull" \/ \A q \in Procs : pass[q].op # "pull",
         (failures' = failures /\ pc[p] # "cursor") \/ failures' = failures + 1,
         Aligned(p)'
  PROVE  Spacing'
  <1>1. Counted' /\ Spaced' /\ Blanks' \in Nat
    BY SpacesStay DEF Spacing
  <1>2. \A op \in Ops : Threefold(cursors'[op])
    BY DEF Spacing
  <1>3. Events' /\ Unique' /\ Ordered' /\ Downward'
    BY EventsStay DEF Spacing
  <1>4. SolePull'
    <2>1. ASSUME NEW q \in Procs, NEW w \in Procs, pass'[q].op = "pull", pass'[w].op = "pull"
          PROVE  q = w
      <3>1. CASE q # p /\ w # p
        BY <2>1, <3>1 DEF Spacing, SolePull
      <3>2. CASE q = p /\ w # p
        BY <2>1, <3>2 DEF Spacing, SolePull
      <3>3. CASE q # p /\ w = p
        BY <2>1, <3>3 DEF Spacing, SolePull
      <3> QED
        BY <3>1, <3>2, <3>3
    <2> QED
      BY <2>1 DEF SolePull
  <1>5. Pulls'
    <2>1. ASSUME pc[p] # "cursor", NEW r \in Records, Pulled(r)
          PROVE  Pulled(r)'
      <3>1. CASE 3 * r <= cursors["pull"]
        BY <3>1 DEF Pulled
      <3>2. CASE \E q \in Procs : pc[q] = "cursor" /\ pass[q].op = "pull" /\ Rec(q) = r
        <4>1. PICK q \in Procs : pc[q] = "cursor" /\ pass[q].op = "pull" /\ Rec(q) = r
          BY <3>2
        <4>2. pc'[q] = "cursor" /\ pass'[q].op = "pull" /\ Rec(q)' = r
          BY <2>1, <4>1 DEF Rec
        <4> QED
          BY <4>2 DEF Pulled
      <3> QED
        BY <2>1, <3>1, <3>2 DEF Pulled
    <2>2. failures \in Nat
      BY BoundsAssumption DEF Inv, Tables
    <2> QED
      BY <2>1, <2>2, PullsStay DEF Spacing
  <1>6. ASSUME NEW q \in Procs
        PROVE  Aligned(q)'
    <2>1. CASE q = p
      BY <2>1
    <2>2. CASE q # p
      BY <2>2, AlignedStays DEF Spacing
    <2> QED
      BY <2>1, <2>2
  <1> QED
    BY <1>1, <1>2, <1>3, <1>4, <1>5, <1>6 DEF Spacing

\* A step that leaves the run table.
LEMMA SameRuns ==
  ASSUME runs' = runs
  PROVE  SameEvents
  BY DEF SameEvents

LEMMA NotReading ==
  ASSUME NEW p \in Procs, pc'[p] \notin Holding \cup {"read"}
  PROVE  Aligned(p)'
  BY DEF Aligned

-----------------------------------------------------------------------------
(* Every record once: the steps *)

LEMMA LeaveSpacing ==
  ASSUME Inv, Spacing, NEW p \in Procs, NEW l \in Outside, Leave(p, l),
         SameEvents, UNCHANGED <<session, file, cursors>>,
         (failures' = failures /\ pc[p] # "cursor") \/ failures' = failures + 1
  PROVE  Spacing'
  <1>1. l \in Labels /\ Go(p, l) /\ pass' = [pass EXCEPT ![p] = Idle]
    BY DEF Outside, Labels, Leave, Idle
  <1>2. /\ pc'[p] = l /\ pass'[p] = Idle
        /\ \A q \in Procs \ {p} : pc'[q] = pc[q] /\ pass'[q] = pass[q]
    BY <1>1, SameFiles
  <1>3. Aligned(p)' /\ pass'[p].op # "pull"
    BY <1>2, NotReading, NotIdle DEF Outside, Holding
  <1> QED
    BY <1>2, <1>3, QuietStep

LEMMA RebuildSpacing ==
  ASSUME Inv, Spacing, NEW p \in Procs, RebuildRead(p) \/ RebuildWrite(p)
  PROVE  Spacing'
  <1>0. "ready" \in Outside
    BY DEF Outside
  <1>1. CASE RebuildWrite(p)
    <2>1. /\ pc[p] = "rebuild" /\ Leave(p, "ready") /\ failures' = failures
          /\ UNCHANGED <<session, file, cursors>>
      BY <1>1 DEF RebuildWrite, source, history
    <2>2. SameEvents
      <3>1. DOMAIN runs' = DOMAIN runs /\ \A i \in DOMAIN runs : runs[i] \in Run
        BY <1>1, RunTypes DEF RebuildWrite, Inv
      <3>2. ASSUME NEW i \in DOMAIN runs
            PROVE  runs'[i].events = runs[i].events
        <4>1. \A x : [runs[i] EXCEPT !.index = x].events = runs[i].events
          BY <3>1 DEF Run
        <4> QED
          BY <1>1, <4>1 DEF RebuildWrite
      <3> QED
        BY <3>1, <3>2 DEF SameEvents
    <2> QED
      BY <1>0, <2>1, <2>2, LeaveSpacing
  <1>2. CASE RebuildRead(p) /\ MissingIndex = {}
    <2>1. /\ pc[p] = "closed" /\ Leave(p, "ready") /\ failures' = failures
          /\ UNCHANGED <<session, file, cursors, runs>>
      BY <1>2 DEF RebuildRead, source, store, history
    <2> QED
      BY <1>0, <2>1, SameRuns, LeaveSpacing
  <1>3. CASE RebuildRead(p) /\ MissingIndex # {}
    <2> DEFINE s == [op |-> "open", missing |-> MissingIndex]
    <2>1. /\ pc[p] = "closed" /\ Go(p, "rebuild") /\ pass' = [pass EXCEPT ![p] = s]
          /\ failures' = failures
          /\ UNCHANGED <<session, file, cursors, runs>>
      BY <1>3 DEF RebuildRead, source, store, history
    <2>2. "rebuild" \in Labels /\ s.op = "open"
      BY DEF Labels
    <2> HIDE DEF s
    <2>3. /\ pc'[p] = "rebuild" /\ pass'[p] = s
          /\ \A q \in Procs \ {p} : pc'[q] = pc[q] /\ pass'[q] = pass[q]
      BY <2>1, <2>2, SameFiles
    <2>4. Aligned(p)' /\ pass'[p].op # "pull"
      BY <2>2, <2>3, NotReading DEF Holding
    <2> QED
      BY <2>1, <2>3, <2>4, SameRuns, QuietStep
  <1> QED
    BY <1>1, <1>2, <1>3

LEMMA BeginSpacing ==
  ASSUME Inv, Spacing, NEW p \in Procs,
         SourceRun(p) \/ PullFile(p) \/ StartRun(p) \/ BindSourceRun(p)
  PROVE  Spacing'
  <1> DEFINE start(op, run) == [op |-> op, run |-> run, pos |-> 0, offset |-> 0,
                                line |-> <<>>, metadata |-> {}]
  <1>0. \A op, run : start(op, run).op = op
    OBVIOUS
  <1>1. CASE SourceRun(p)
    <2> DEFINE l == IF bound # 0 THEN "open" ELSE "start"
               s == start("sync", bound)
    <2>1. /\ pc[p] = "ready" /\ Go(p, l) /\ pass' = [pass EXCEPT ![p] = s]
          /\ UNCHANGED <<session, file, cursors, runs, failures>>
      BY <1>1 DEF SourceRun, Begin, source, store
    <2>2. l \in Labels /\ l \notin Holding \cup {"read"} /\ s.op = "sync"
      BY <1>0 DEF Labels, Holding
    <2> HIDE DEF l, s
    <2>3. /\ pc'[p] = l /\ pass'[p] = s
          /\ \A q \in Procs \ {p} : pc'[q] = pc[q] /\ pass'[q] = pass[q]
      BY <2>1, <2>2, SameFiles
    <2>4. Aligned(p)' /\ pass'[p].op # "pull"
      BY <2>2, <2>3, NotReading
    <2> QED
      BY <2>1, <2>3, <2>4, SameRuns, QuietStep
  <1>2. CASE PullFile(p)
    <2> DEFINE s == start("pull", PullRun)
    <2>1. /\ pc[p] = "ready" /\ Go(p, "open") /\ pass' = [pass EXCEPT ![p] = s]
          /\ \A q \in Procs : pass[q].op # "pull"
          /\ UNCHANGED <<session, file, cursors, runs, failures>>
      BY <1>2 DEF PullFile, Begin, source, store, history
    <2>2. "open" \in Labels
      BY DEF Labels
    <2> HIDE DEF s
    <2>3. /\ pc'[p] = "open" /\ pass'[p] = s
          /\ \A q \in Procs \ {p} : pc'[q] = pc[q] /\ pass'[q] = pass[q]
      BY <2>1, <2>2, SameFiles
    <2>4. Aligned(p)'
      BY <2>3, NotReading DEF Holding
    <2> QED
      BY <2>1, <2>3, <2>4, SameRuns, QuietStep
  <1>3. CASE StartRun(p)
    <2> DEFINE s == [pass[p] EXCEPT !.run = Len(runs) + 1]
    <2>1. /\ pc[p] = "start" /\ Go(p, "bind") /\ pass' = [pass EXCEPT ![p] = s]
          /\ runs' = Append(runs, NewRun)
          /\ UNCHANGED <<session, file, cursors, failures>>
      BY <1>3 DEF StartRun, source, history
    <2>2. "bind" \in Labels /\ s.op = pass[p].op
      <3>1. pass[p] \in Passes
        BY <2>1 DEF Inv, Settled, Stage, Outside
      <3> QED
        BY <3>1 DEF Labels, Passes
    <2> HIDE DEF s
    <2>3. /\ pc'[p] = "bind" /\ pass'[p] = s
          /\ \A q \in Procs \ {p} : pc'[q] = pc[q] /\ pass'[q] = pass[q]
      BY <2>1, <2>2, SameFiles
    <2>4. Aligned(p)' /\ pass'[p].op = pass[p].op
      BY <2>2, <2>3, NotReading DEF Holding
    <2>5. SameEvents
      <3>1. runs \in Seq(Run) /\ Len(runs) \in Nat /\ NewRun \in Run /\ NewRun.events = <<>>
        BY NewRunFacts DEF Inv, Tables
      <3> HIDE DEF NewRun
      <3>2. /\ \A i \in DOMAIN runs : i \in DOMAIN runs' /\ runs'[i] = runs[i]
            /\ \A i \in DOMAIN runs' : i \in DOMAIN runs \/ runs'[i] = NewRun
        BY <2>1, <3>1
      <3> QED
        BY <3>1, <3>2 DEF SameEvents
    <2> QED
      BY <2>1, <2>3, <2>4, <2>5, QuietStep
  <1>4. CASE BindSourceRun(p)
    <2>1. /\ pc[p] = "bind" /\ Go(p, "open") /\ pass' = pass
          /\ UNCHANGED <<session, file, cursors, runs, failures>>
      BY <1>4 DEF BindSourceRun, source, history
    <2>2. "open" \in Labels
      BY DEF Labels
    <2>3. /\ pc'[p] = "open" /\ pass'[p] = pass[p]
          /\ \A q \in Procs \ {p} : pc'[q] = pc[q] /\ pass'[q] = pass[q]
      BY <2>1, <2>2, KeepPass
    <2>4. Aligned(p)'
      BY <2>3, NotReading DEF Holding
    <2> QED
      BY <2>1, <2>3, <2>4, SameRuns, QuietStep
  <1> QED
    BY <1>1, <1>2, <1>3, <1>4

\* A cursor that counts k records stands between the heads of records k and k + 1.
LEMMA CursorSplits ==
  ASSUME Spaced, file \in Seq(Cells), NEW n \in Nat, Threefold(n)
  PROVE  \A i \in DOMAIN file : \A r \in Records :
            file[i] = Head1(r) => (i <= n <=> 3 * r <= n)
  <1>1. PICK k \in Nat : n = 3 * k
    BY DEF Threefold
  <1>2. ASSUME NEW i \in DOMAIN file, NEW r \in Records, file[i] = Head1(r)
        PROVE  i <= n <=> 3 * r <= n
    <2>1. 3 * r - 2 <= i /\ i <= 3 * r
      BY <1>2 DEF Spaced
    <2>2. i \in Nat /\ r \in Nat
      BY CellFacts
    <2> QED
      BY <1>1, <2>1, <2>2
  <1> QED
    BY <1>2

LEMMA OpenSpacing ==
  ASSUME Inv, Spacing, NEW p \in Procs, OpenFile(p)
  PROVE  Spacing'
  <1> DEFINE offset == cursors[pass[p].op]
             s == [pass[p] EXCEPT !.pos = offset, !.offset = offset]
  <1>1. /\ pc[p] = "open"
        /\ UNCHANGED <<session, file, runs, cursors, failures>>
    BY DEF OpenFile, source, store, history
  <1>2. pass[p] \in Passes /\ pass[p].op \in Ops
    <2>1. pass[p] \in Passes
      BY <1>1 DEF Inv, Settled, Stage, Outside
    <2> QED
      BY <2>1, PassFields
  <1>3. CASE Len(file) < offset
    <2>1. Leave(p, "ready") /\ "ready" \in Outside
      BY <1>3 DEF OpenFile, Outside
    <2> QED
      BY <1>1, <2>1, SameRuns, LeaveSpacing
  <1>4. CASE ~(Len(file) < offset)
    <2>1. pass' = [pass EXCEPT ![p] = s] /\ Go(p, "read") /\ "read" \in Labels
      BY <1>4 DEF OpenFile, Labels
    <2>2. s.op = pass[p].op /\ s.pos = offset /\ s.offset = offset
      BY <1>2 DEF Passes
    <2> HIDE DEF s
    <2>3. /\ pc'[p] = "read" /\ pass'[p] = s
          /\ \A q \in Procs \ {p} : pc'[q] = pc[q] /\ pass'[q] = pass[q]
      BY <2>1, SameFiles
    <2>4. offset \in Nat /\ Threefold(offset)
      BY <1>2 DEF Spacing, Inv, Tables
    <2>5. \A i \in DOMAIN file : \A r \in Records :
             file[i] = Head1(r) => (i <= offset <=> 3 * r <= offset)
      BY <2>4, CursorSplits DEF Spacing, Inv, Layout
    <2>6. Aligned(p)'
      <3>1. Records' = Records
        BY <1>1, SameSession
      <3>2. pass[p].op = "pull" => cursors'["pull"] = offset
        BY <1>1
      <3> HIDE DEF offset
      <3> QED
        BY <1>1, <2>2, <2>3, <2>4, <2>5, <3>1, <3>2 DEF Aligned, Threefold, Holding, Head1
    <2> QED
      BY <1>1, <2>2, <2>3, <2>6, SameRuns, QuietStep
  <1> QED
    BY <1>3, <1>4

LEMMA ReadBlankSpacing ==
  ASSUME Inv, Spacing, NEW p \in Procs, ReadBlankLine(p)
  PROVE  Spacing'
  <1> DEFINE line == Line(pass[p].pos)
             n == pass[p].pos + Len(line)
             s == [pass[p] EXCEPT !.pos = n]
             l == IF AtEOF(line) THEN "end" ELSE "read"
  <1>1. /\ pc[p] = "read" /\ IsBlank(line)
        /\ pass' = [pass EXCEPT ![p] = s]
        /\ Go(p, l)
        /\ UNCHANGED <<session, file, runs, cursors, failures>>
    BY DEF ReadBlankLine, source, store, history
  <1>2. /\ pass[p] \in Passes /\ pass[p].pos \in 0..Len(file)
        /\ Layout /\ Len(file) \in Nat
    BY <1>1, ReaderFacts DEF Inv, Layout
  <1>3. /\ n \in pass[p].pos..Len(file)
        /\ \A i \in DOMAIN file : \A r \in Records :
             file[i] = Head1(r) /\ i <= n => i <= pass[p].pos
    BY <1>1, <1>2, BlankLine
  <1> HIDE DEF n
  <1>4. s.op = pass[p].op /\ s.pos = n /\ s.offset = pass[p].offset
    BY <1>2 DEF Passes
  <1>5. l \in Labels /\ l \in {"end", "read"}
    BY DEF Labels
  <1> HIDE DEF s, l
  <1>6. /\ pc'[p] = l /\ pass'[p] = s
        /\ \A q \in Procs \ {p} : pc'[q] = pc[q] /\ pass'[q] = pass[q]
    BY <1>1, <1>5, SameFiles
  <1>7. \A i \in DOMAIN file : \A r \in Records :
           file[i] = Head1(r) => (i <= n <=> 3 * r <= pass[p].offset)
    <2>1. \A i \in DOMAIN file : \A r \in Records :
             file[i] = Head1(r) => (i <= pass[p].pos <=> 3 * r <= pass[p].offset)
      BY <1>1 DEF Spacing, Aligned
    <2>2. \A i \in DOMAIN file : i <= pass[p].pos => i <= n
      BY <1>2, <1>3
    <2> QED
      BY <1>3, <2>1, <2>2
  <1>8. Threefold(pass[p].offset)
        /\ (pass[p].op = "pull" => cursors["pull"] = pass[p].offset)
    BY <1>1 DEF Spacing, Aligned
  <1>9. Aligned(p)'
    <2>1. Records' = Records
      BY <1>1, SameSession
    <2> QED
      BY <1>1, <1>4, <1>5, <1>6, <1>7, <1>8, <2>1 DEF Aligned, Threefold, Holding, Head1
  <1> QED
    BY <1>1, <1>4, <1>6, <1>9, SameRuns, QuietStep

LEMMA EndSpacing ==
  ASSUME Inv, Spacing, NEW p \in Procs, ReadTornLine(p) \/ EndPass(p) \/ Fail(p)
  PROVE  Spacing'
  <1>1. /\ Leave(p, "ready") \/ Leave(p, "closed")
        /\ (failures' = failures /\ pc[p] # "cursor") \/ failures' = failures + 1
        /\ UNCHANGED <<session, file, runs, cursors>>
    BY DEF ReadTornLine, EndPass, Fail, source, store, history
  <1>2. "ready" \in Outside /\ "closed" \in Outside
    BY DEF Outside
  <1> QED
    BY <1>1, <1>2, SameRuns, LeaveSpacing

LEMMA ReadLineSpacing ==
  ASSUME Inv, Spacing, NEW p \in Procs, ReadLine(p)
  PROVE  Spacing'
  <1> DEFINE line == Line(pass[p].pos)
             n == pass[p].pos + Len(line)
             s == [pass[p] EXCEPT !.pos = n, !.line = line]
             l == Follow(p, line)
  <1>1. /\ pc[p] = "read"
        /\ pass' = [pass EXCEPT ![p] = s]
        /\ Go(p, l)
        /\ UNCHANGED <<session, file, runs, cursors, failures>>
    BY DEF ReadLine, Follow, source, store, history
  <1>2. PICK r \in Records : Parses(line, r)
    BY DEF ReadLine
  <1>3. /\ pass[p] \in Passes /\ pass[p].pos \in 0..Len(file) /\ pass[p].offset \in Nat
        /\ Layout /\ Len(file) \in Nat
    BY <1>1, ReaderFacts DEF Inv, Layout
  <1>4. /\ line[1][1] = r
        /\ pass[p].pos + 1 \in DOMAIN file
        /\ file[pass[p].pos + 1] = Head1(r)
    <2>1. pass[p].pos + 3 <= Len(file)
      BY <1>2, <1>3, ParsedLine
    <2> QED
      BY <1>2, <1>3, <2>1, ParsedLine DEF Layout
  <1>5. s.op = pass[p].op /\ s.offset = pass[p].offset /\ s.line = line
    <2> HIDE DEF line, n
    <2> QED
      BY <1>3 DEF Passes
  <1>6. l \in {"identity", "append", "cursor"}
    BY <1>1, <1>4, FollowFacts
  <1> HIDE DEF line, s, l
  <1>7. l \in Labels
    BY <1>6 DEF Labels
  <1>8. /\ pc'[p] = l /\ pass'[p] = s
        /\ \A q \in Procs \ {p} : pc'[q] = pc[q] /\ pass'[q] = pass[q]
    BY <1>1, <1>7, SameFiles
  <1>9. pass[p].offset = 3 * r - 3
    <2>1. /\ Threefold(pass[p].offset)
          /\ \A i \in DOMAIN file : \A q \in Records :
               file[i] = Head1(q) => (i <= pass[p].pos <=> 3 * q <= pass[p].offset)
      BY <1>1 DEF Spacing, Aligned
    <2>2. PICK k \in Nat : pass[p].offset = 3 * k
      BY <2>1 DEF Threefold
    <2>3. r \in Nat /\ r >= 1 /\ ~(3 * r <= pass[p].offset)
      BY <1>3, <1>4, <2>1, CellFacts
    <2>4. CASE r = 1
      BY <2>2, <2>3, <2>4
    <2>5. CASE r # 1
      <3>1. r - 1 \in Records /\ r - 1 < r
        BY <2>3, <2>5, CellFacts DEF Records
      <3>2. Begun(r)
        BY <1>4 DEF Begun
      <3>3. Begun(r - 1)
        BY <1>3, <3>1, <3>2 DEF Layout
      <3>4. PICK i \in DOMAIN file : file[i] = Head1(r - 1)
        BY <3>3 DEF Begun
      <3>5. i < pass[p].pos + 1
        BY <1>3, <1>4, <3>1, <3>4 DEF Layout
      <3>6. i <= pass[p].pos
        BY <1>3, <3>5 DEF Layout
      <3>7. 3 * (r - 1) <= pass[p].offset
        BY <2>1, <3>1, <3>4, <3>6
      <3> QED
        BY <2>2, <2>3, <3>7
    <2> QED
      BY <2>4, <2>5
  <1>10. Aligned(p)'
    <2>1. Rec(p)' = r
      BY <1>4, <1>5, <1>8 DEF Rec
    <2>2. pass[p].op = "pull" => cursors["pull"] = pass[p].offset
      BY <1>1 DEF Spacing, Aligned
    <2> QED
      BY <1>1, <1>5, <1>6, <1>8, <1>9, <2>1, <2>2 DEF Aligned, Holding
  <1> QED
    BY <1>1, <1>5, <1>8, <1>10, SameRuns, QuietStep

\* A line that is held stays aligned with the offset.
LEMMA HoldAligned ==
  ASSUME Spacing, NEW p \in Procs, pc[p] \in Holding, pc'[p] \in Holding,
         pass'[p].op = pass[p].op, pass'[p].offset = pass[p].offset,
         pass'[p].line = pass[p].line,
         UNCHANGED <<session, file, cursors>>
  PROVE  Aligned(p)'
  <1>1. /\ pass[p].offset = 3 * Rec(p) - 3
        /\ pass[p].op = "pull" => cursors["pull"] = pass[p].offset
    BY DEF Spacing, Aligned
  <1>2. Rec(p)' = Rec(p) /\ pc'[p] # "read"
    BY DEF Rec, Holding
  <1> QED
    BY <1>1, <1>2 DEF Aligned

LEMMA IdentitySpacing ==
  ASSUME Inv, Spacing, NEW p \in Procs,
         ReadIdentity(p) \/ RefuseMarker(p) \/ UpdateRunIdentity(p)
  PROVE  Spacing'
  <1> DEFINE s(m) == [pass[p] EXCEPT !.metadata = m]
  <1>1. pass[p] \in Passes /\ pass[p].run \in DOMAIN runs /\ pc[p] \in Holding
    <2>1. pc[p] \in {"identity", "update"}
      BY DEF ReadIdentity, RefuseMarker, UpdateRunIdentity
    <2> QED
      BY <2>1, ReaderFacts DEF Holding
  <1>2. \A m : /\ s(m).op = pass[p].op /\ s(m).offset = pass[p].offset
               /\ s(m).line = pass[p].line
    BY <1>1 DEF Passes
  <1> HIDE DEF s
  <1>3. CASE ReadIdentity(p) \/ RefuseMarker(p)
    <2>1. /\ pc[p] = "identity" /\ Go(p, "update")
          /\ \E m : pass' = [pass EXCEPT ![p] = s(m)]
          /\ UNCHANGED <<session, file, runs, cursors, failures>>
      BY <1>3 DEF ReadIdentity, RefuseMarker, source, store, history, s
    <2>2. "update" \in Labels /\ "update" \in Holding
      BY DEF Labels, Holding
    <2>3. PICK m : pass' = [pass EXCEPT ![p] = s(m)]
      BY <2>1
    <2>4. /\ pc'[p] = "update" /\ pass'[p] = s(m)
          /\ \A q \in Procs \ {p} : pc'[q] = pc[q] /\ pass'[q] = pass[q]
      BY <2>1, <2>2, <2>3, SameFiles
    <2>5. Aligned(p)'
      BY <1>1, <1>2, <2>1, <2>2, <2>4, HoldAligned
    <2> QED
      BY <1>2, <2>1, <2>4, <2>5, SameRuns, QuietStep
  <1>4. CASE UpdateRunIdentity(p)
    <2>1. /\ pc[p] = "update" /\ Go(p, "append")
          /\ pass' = [pass EXCEPT ![p] = s({})]
          /\ UNCHANGED <<session, file, cursors, failures>>
      BY <1>4 DEF UpdateRunIdentity, source, history, s
    <2>2. "append" \in Labels /\ "append" \in Holding
      BY DEF Labels, Holding
    <2>3. /\ pc'[p] = "append" /\ pass'[p] = s({})
          /\ \A q \in Procs \ {p} : pc'[q] = pc[q] /\ pass'[q] = pass[q]
      BY <2>1, <2>2, SameFiles
    <2>4. SameEvents
      <3>1. runs[pass[p].run] \in Run
        BY <1>1, RunTypes DEF Inv
      <3>2. \A m, l, x : [runs[pass[p].run] EXCEPT !.metadata = m, !.label = l, !.index = x].events
                         = runs[pass[p].run].events
        BY <3>1 DEF Run
      <3> DEFINE run == pass[p].run
                 m == pass[p].metadata
                 l == IF Kind(pass[p].line) = "meta" THEN Rec(p) ELSE runs[run].label
                 x == [k \in DOMAIN runs[run].index |->
                         IF runs[run].index[k] = Missing \/ Kind(pass[p].line) = "work"
                         THEN runs[run].index[k] ELSE l]
      <3>3. runs' = [runs EXCEPT ![run] =
                       [runs[run] EXCEPT !.metadata = m, !.label = l, !.index = x]]
        BY <1>4 DEF UpdateRunIdentity
      <3> HIDE DEF m, l, x
      <3> QED
        BY <1>1, <3>2, <3>3 DEF SameEvents
    <2>5. Aligned(p)'
      BY <1>1, <1>2, <2>1, <2>2, <2>3, HoldAligned
    <2> QED
      BY <1>2, <2>1, <2>3, <2>4, <2>5, QuietStep
  <1> QED
    BY <1>3, <1>4

LEMMA AppendFacts ==
  ASSUME Inv, NEW p \in Procs, pc[p] = "append",
         runs' = [runs EXCEPT ![pass[p].run] = AppendEvent(@, EventID(p))]
  PROVE  /\ pass[p].run \in DOMAIN runs /\ DOMAIN runs' = DOMAIN runs
         /\ \A i \in DOMAIN runs : \A k \in DOMAIN runs[i].events :
              k \in DOMAIN runs'[i].events /\ runs'[i].events[k] = runs[i].events[k]
         /\ \A i \in DOMAIN runs : \A k \in DOMAIN runs'[i].events :
              \/ /\ k \in DOMAIN runs[i].events
                 /\ runs'[i].events[k] = runs[i].events[k]
              \/ /\ i = pass[p].run
                 /\ k = Len(runs[i].events) + 1
                 /\ runs'[i].events[k] = EventID(p)
         /\ Len(runs[pass[p].run].events) + 1 \in DOMAIN runs'[pass[p].run].events
         /\ runs'[pass[p].run].events[Len(runs[pass[p].run].events) + 1] = EventID(p)
  <1> DEFINE run == pass[p].run
             e == EventID(p)
             old == runs[run].events
             new == Append(old, e)
             index == Append(runs[run].index, runs[run].label)
  <1>1. run \in DOMAIN runs
    BY ReaderFacts DEF Holding
  <1>2. /\ runs[run] \in Run /\ old \in Seq(Event) /\ Len(old) \in Nat
        /\ DOMAIN old = 1..Len(old)
    BY <1>1, RunTypes DEF Inv
  <1>3. e \in Event
    BY EventIDFacts
  <1>4. /\ DOMAIN runs' = DOMAIN runs
        /\ \A i \in DOMAIN runs \ {run} : runs'[i] = runs[i]
        /\ runs'[run] = [runs[run] EXCEPT !.events = new, !.index = index]
    BY <1>1 DEF AppendEvent
  <1>5. /\ DOMAIN new = 1..(Len(old) + 1)
        /\ \A k \in 1..Len(old) : new[k] = old[k]
        /\ new[Len(old) + 1] = e
    <2> HIDE DEF e, old
    <2> QED
      BY <1>2, <1>3
  <1> HIDE DEF new, index, e
  <1>6. runs'[run].events = new
    BY ZenonT(30), <1>2, <1>4 DEF Run
  <1> HIDE DEF run
  <1>7. ASSUME NEW i \in DOMAIN runs, NEW k \in DOMAIN runs[i].events
        PROVE  k \in DOMAIN runs'[i].events /\ runs'[i].events[k] = runs[i].events[k]
    <2>1. CASE i = run
      BY <1>2, <1>5, <1>6, <1>7, <2>1
    <2>2. CASE i # run
      BY <1>4, <1>7, <2>2
    <2> QED
      BY <2>1, <2>2
  <1>8. ASSUME NEW i \in DOMAIN runs, NEW k \in DOMAIN runs'[i].events
        PROVE  \/ k \in DOMAIN runs[i].events /\ runs'[i].events[k] = runs[i].events[k]
               \/ /\ i = run
                  /\ k = Len(runs[i].events) + 1
                  /\ runs'[i].events[k] = e
    <2>1. CASE i = run
      <3>1. k \in 1..Len(old) \/ k = Len(old) + 1
        BY <1>2, <1>5, <1>6, <1>8, <2>1
      <3> QED
        BY <1>2, <1>5, <1>6, <2>1, <3>1
    <2>2. CASE i # run
      BY <1>4, <1>8, <2>2
    <2> QED
      BY <2>1, <2>2
  <1>9. Len(old) + 1 \in DOMAIN runs'[run].events /\ runs'[run].events[Len(old) + 1] = e
    BY <1>2, <1>5, <1>6
  <1> QED
    BY <1>1, <1>4, <1>7, <1>8, <1>9 DEF e, run

\* stableID: a record of a discovered session that is in the ledger is there under
\* the identifier that its next append would get.
LEMMA NewRecord ==
  ASSUME Inv, Spacing, Discovered, NEW p \in Procs, pc[p] = "append",
         ~EventExists(EventID(p))
  PROVE  /\ ~Stored("sync", Rec(p))
         /\ \A q \in Records : q < Rec(p) /\ Importable(q) => Stored("sync", q)
  <1>1. /\ pass[p].op = "sync" /\ Held(p) /\ pass[p].pos \in 0..Len(file)
        /\ pass[p].pos - 3 \in Nat /\ Passed("sync", pass[p].pos - 3)
        /\ Layout /\ Len(file) \in Nat /\ file \in Seq(Cells)
    BY ReaderFacts DEF Channel, Holding, Inv, Layout
  <1>2. /\ EventID(p) \in Event
        /\ EventID(p).op = "sync"
        /\ EventID(p).rec = Rec(p)
        /\ EventID(p).at = 3 * Rec(p) - 3
    BY <1>1, EventIDFacts DEF Spacing, Aligned, Holding
  <1>3. ASSUME NEW i \in DOMAIN runs, NEW k \in DOMAIN runs[i].events,
               runs[i].events[k].rec = Rec(p)
        PROVE  FALSE
    <2>1. /\ runs[i].events[k].op = "sync"
          /\ runs[i].events[k].at = 3 * Rec(p) - 3
      BY <1>3 DEF Spacing, Events, Channel
    <2>2. runs[i].events[k] \in Event
      BY <1>3, RunTypes DEF Inv
    <2>3. runs[i].events[k] = EventID(p)
      BY <1>2, <1>3, <2>1, <2>2 DEF Event
    <2> QED
      BY <2>3 DEF EventExists, Imported
  <1>4. ASSUME NEW q \in Records, q < Rec(p), Importable(q)
        PROVE  Stored("sync", q)
    <2>1. Rec(p) \in Records /\ pass[p].pos - 2 \in DOMAIN file
          /\ file[pass[p].pos - 2] = Head1(Rec(p))
      BY <1>1 DEF Held
    <2>2. Begun(q)
      <3>1. Begun(Rec(p))
        BY <2>1 DEF Begun
      <3> QED
        BY <1>1, <1>4, <2>1, <3>1 DEF Layout
    <2>3. PICK i \in DOMAIN file : file[i] = Head1(q)
      BY <2>2 DEF Begun
    <2>4. i < pass[p].pos - 2
      BY <1>1, <1>4, <2>1, <2>3 DEF Layout
    <2>5. i <= pass[p].pos - 3
      BY <1>1, <2>4
    <2> QED
      BY <1>1, <1>4, <2>3, <2>5 DEF Passed
  <1> QED
    BY <1>3, <1>4 DEF Stored, Imported

LEMMA AppendEvents ==
  ASSUME Inv, Spacing, NEW p \in Procs, pc[p] = "append", ~EventExists(EventID(p)),
         session' = session,
         runs' = [runs EXCEPT ![pass[p].run] = AppendEvent(@, EventID(p))]
  PROVE  Events' /\ Unique' /\ Ordered' /\ Downward'
  <1> DEFINE run == pass[p].run
             e == EventID(p)
             len == Len(runs[run].events)
  <1>1. Discovered' = Discovered /\ Channel' = Channel /\ Records' = Records
    BY SameSession
  <1>2. /\ run \in DOMAIN runs /\ DOMAIN runs' = DOMAIN runs
        /\ \A i \in DOMAIN runs : \A k \in DOMAIN runs[i].events :
             k \in DOMAIN runs'[i].events /\ runs'[i].events[k] = runs[i].events[k]
        /\ \A i \in DOMAIN runs : \A k \in DOMAIN runs'[i].events :
             \/ k \in DOMAIN runs[i].events /\ runs'[i].events[k] = runs[i].events[k]
             \/ i = run /\ k = len + 1 /\ runs'[i].events[k] = e
    <2>1. /\ run \in DOMAIN runs /\ DOMAIN runs' = DOMAIN runs
          /\ \A i \in DOMAIN runs : \A k \in DOMAIN runs[i].events :
               k \in DOMAIN runs'[i].events /\ runs'[i].events[k] = runs[i].events[k]
      BY AppendFacts
    <2>2. \A i \in DOMAIN runs : \A k \in DOMAIN runs'[i].events :
             \/ /\ k \in DOMAIN runs[i].events
                /\ runs'[i].events[k] = runs[i].events[k]
             \/ /\ i = pass[p].run
                /\ k = Len(runs[i].events) + 1
                /\ runs'[i].events[k] = EventID(p)
      BY AppendFacts
    <2>3. ASSUME NEW i \in DOMAIN runs, NEW k \in DOMAIN runs'[i].events
          PROVE  \/ k \in DOMAIN runs[i].events /\ runs'[i].events[k] = runs[i].events[k]
                 \/ i = run /\ k = len + 1 /\ runs'[i].events[k] = e
      <3> HIDE DEF EventID
      <3> QED
        BY <2>2, <2>3
    <2> QED
      BY <2>1, <2>3
  <1>3. /\ e.op = pass[p].op /\ e.rec = Rec(p) /\ Rec(p) \in Records
        /\ pass[p].op = Channel
        /\ Discovered => pass[p].op = "sync" /\ e.at = 3 * Rec(p) - 3
    <2>1. pass[p].op = Channel /\ Rec(p) \in Records
      BY ReaderFacts, HeldLast DEF Holding
    <2>2. /\ e.op = pass[p].op /\ e.rec = Rec(p)
          /\ pass[p].op = "sync" => e.at = pass[p].offset
      BY EventIDFacts
    <2>3. pass[p].offset = 3 * Rec(p) - 3
      BY DEF Spacing, Aligned, Holding
    <2> QED
      BY <2>1, <2>2, <2>3 DEF Channel
  <1>4. Discovered => /\ ~Stored("sync", Rec(p))
                      /\ \A q \in Records : q < Rec(p) /\ Importable(q) => Stored("sync", q)
    BY NewRecord
  <1>5. ASSUME Discovered, NEW i \in DOMAIN runs, NEW k \in DOMAIN runs[i].events
        PROVE  /\ Stored("sync", runs[i].events[k].rec)
               /\ runs[i].events[k].rec \in Records
               /\ runs[i].events[k].rec # Rec(p)
    <2>1. runs[i].events[k].op = "sync" /\ runs[i].events[k].rec \in Records
      <3>1. runs[i].events[k] \in Event
        BY <1>5, RunTypes DEF Inv
      <3> QED
        BY <1>5, <3>1, EventFields DEF Spacing, Events, Channel
    <2>2. Stored("sync", runs[i].events[k].rec)
      BY <1>5, <2>1 DEF Stored, Imported
    <2> QED
      BY <1>4, <1>5, <2>1, <2>2
  <1> HIDE DEF e, run, len
  <1>6. Events'
    <2>1. ASSUME NEW i \in DOMAIN runs, NEW k \in DOMAIN runs'[i].events
          PROVE  /\ runs'[i].events[k].op = Channel
                 /\ Discovered => runs'[i].events[k].at = 3 * runs'[i].events[k].rec - 3
      <3>1. CASE k \in DOMAIN runs[i].events /\ runs'[i].events[k] = runs[i].events[k]
        BY <2>1, <3>1 DEF Spacing, Events
      <3>2. CASE runs'[i].events[k] = e
        BY <1>3, <3>2
      <3> QED
        BY <1>2, <2>1, <3>1, <3>2
    <2> QED
      BY <1>1, <1>2, <2>1 DEF Events
  <1>7. Unique'
    <2>1. ASSUME Discovered, NEW i \in DOMAIN runs, NEW k \in DOMAIN runs'[i].events,
                 NEW j \in DOMAIN runs, NEW n \in DOMAIN runs'[j].events,
                 runs'[i].events[k].rec = runs'[j].events[n].rec
          PROVE  i = j /\ k = n
      <3>1. \/ k \in DOMAIN runs[i].events /\ runs'[i].events[k] = runs[i].events[k]
            \/ i = run /\ k = len + 1 /\ runs'[i].events[k].rec = Rec(p)
        BY SMTT(20), <1>2, <1>3, <2>1
      <3>2. \/ n \in DOMAIN runs[j].events /\ runs'[j].events[n] = runs[j].events[n]
            \/ j = run /\ n = len + 1 /\ runs'[j].events[n].rec = Rec(p)
        BY SMTT(20), <1>2, <1>3, <2>1
      <3>3. CASE /\ k \in DOMAIN runs[i].events /\ runs'[i].events[k] = runs[i].events[k]
                 /\ n \in DOMAIN runs[j].events /\ runs'[j].events[n] = runs[j].events[n]
        BY <2>1, <3>3 DEF Spacing, Unique
      <3>4. CASE /\ k \in DOMAIN runs[i].events /\ runs'[i].events[k] = runs[i].events[k]
                 /\ runs'[j].events[n].rec = Rec(p)
        BY <1>5, <2>1, <3>4
      <3>5. CASE /\ n \in DOMAIN runs[j].events /\ runs'[j].events[n] = runs[j].events[n]
                 /\ runs'[i].events[k].rec = Rec(p)
        BY <1>5, <2>1, <3>5
      <3> QED
        BY <3>1, <3>2, <3>3, <3>4, <3>5
    <2>2. \A i, j \in DOMAIN runs' :
             \A k \in DOMAIN runs'[i].events, n \in DOMAIN runs'[j].events :
                Discovered' /\ runs'[i].events[k].rec = runs'[j].events[n].rec
                   => i = j /\ k = n
      BY SMTT(60), <1>1, <1>2, <2>1
    <2> QED
      BY <2>2 DEF Unique
  <1>8. Ordered'
    <2>1. ASSUME Discovered, NEW i \in DOMAIN runs, NEW j \in DOMAIN runs'[i].events,
                 NEW k \in DOMAIN runs'[i].events, j < k
          PROVE  runs'[i].events[j].rec < runs'[i].events[k].rec
      <3>1. \A n \in DOMAIN runs[i].events : n \in 1..Len(runs[i].events)
            /\ Len(runs[i].events) \in Nat
        BY <2>1, RunTypes DEF Inv
      <3>2. \/ k \in DOMAIN runs[i].events /\ runs'[i].events[k] = runs[i].events[k]
            \/ i = run /\ k = len + 1 /\ runs'[i].events[k].rec = Rec(p)
        BY <1>2, <1>3, <2>1
      <3>3. \/ j \in DOMAIN runs[i].events /\ runs'[i].events[j] = runs[i].events[j]
            \/ i = run /\ j = len + 1
        BY <1>2, <2>1
      <3>4. CASE /\ j \in DOMAIN runs[i].events /\ runs'[i].events[j] = runs[i].events[j]
                 /\ k \in DOMAIN runs[i].events /\ runs'[i].events[k] = runs[i].events[k]
        BY <2>1, <3>4 DEF Spacing, Ordered
      <3>5. CASE /\ j \in DOMAIN runs[i].events /\ runs'[i].events[j] = runs[i].events[j]
                 /\ runs'[i].events[k].rec = Rec(p)
        <4> DEFINE q == runs[i].events[j].rec
        <4>1. Stored("sync", q) /\ q \in Records /\ q # Rec(p)
          BY <1>5, <2>1, <3>5
        <4>2. Importable(Rec(p))
          BY <1>3, <2>1 DEF Inv, Settled, Stage
        <4>3. ~(Rec(p) < q)
          BY <1>3, <1>4, <2>1, <4>1, <4>2 DEF Spacing, Downward
        <4> HIDE DEF q
        <4>4. q < Rec(p)
          BY <1>3, <4>1, <4>3, CellFacts
        <4> QED
          BY <3>5, <4>4 DEF q
      <3>6. CASE i = run /\ j = len + 1
        <4>1. k \in DOMAIN runs[i].events \/ k = len + 1
          BY <3>2
        <4>2. len = Len(runs[i].events)
          BY <3>6 DEF len
        <4> QED
          BY <2>1, <3>1, <3>6, <4>1, <4>2
      <3> QED
        BY <3>2, <3>3, <3>4, <3>5, <3>6
    <2> QED
      BY <1>1, <1>2, <2>1 DEF Ordered
  <1>9. Downward'
    <2>1. ASSUME NEW r, Stored("sync", r)
          PROVE  Stored("sync", r)'
      <3>1. PICK i \in DOMAIN runs : \E k \in DOMAIN runs[i].events :
                   runs[i].events[k].op = "sync" /\ runs[i].events[k].rec = r
        BY <2>1 DEF Stored, Imported
      <3>2. \E k \in DOMAIN runs'[i].events :
               runs'[i].events[k].op = "sync" /\ runs'[i].events[k].rec = r
        BY <1>2, <3>1
      <3> QED
        BY <1>2, <3>1, <3>2 DEF Stored, Imported
    <2>2. ASSUME NEW r, Stored("sync", r)'
          PROVE  Stored("sync", r) \/ r = Rec(p)
      <3>1. PICK i \in DOMAIN runs' : \E k \in DOMAIN runs'[i].events :
                   runs'[i].events[k].op = "sync" /\ runs'[i].events[k].rec = r
        BY <2>2 DEF Stored, Imported
      <3>2. PICK k \in DOMAIN runs'[i].events :
                   runs'[i].events[k].op = "sync" /\ runs'[i].events[k].rec = r
        BY <3>1
      <3>3. CASE k \in DOMAIN runs[i].events /\ runs'[i].events[k] = runs[i].events[k]
        BY <1>2, <3>2, <3>3 DEF Stored, Imported
      <3>4. CASE runs'[i].events[k] = e
        BY <1>3, <3>2, <3>4
      <3> QED
        BY <1>2, <3>2, <3>3, <3>4
    <2>3. ASSUME Discovered, NEW r \in Records, NEW q \in Records, q < r, Importable(q),
                 Stored("sync", r)'
          PROVE  Stored("sync", q)'
      <3>1. CASE Stored("sync", r)
        <4>1. Stored("sync", q)
          BY <2>3, <3>1 DEF Spacing, Downward
        <4> QED
          BY <2>1, <4>1
      <3>2. CASE r = Rec(p)
        <4>1. Stored("sync", q)
          BY <1>4, <2>3, <3>2
        <4> QED
          BY <2>1, <4>1
      <3> QED
        BY <2>2, <2>3, <3>1, <3>2
    <2> QED
      BY <1>1, <2>3 DEF Downward, Importable
  <1> QED
    BY <1>6, <1>7, <1>8, <1>9

\* A pull adds one copy, of the record it passes with its next step.
LEMMA AppendPulls ==
  ASSUME Inv, Spacing, NEW p \in Procs, pc[p] = "append", pc'[p] = "cursor",
         pass' = pass, \A q \in Procs \ {p} : pc'[q] = pc[q],
         UNCHANGED <<session, cursors, failures>>,
         runs' = [runs EXCEPT ![pass[p].run] = AppendEvent(@, EventID(p))]
  PROVE  Pulls'
  <1> DEFINE run == pass[p].run
             e == EventID(p)
             new == <<run, Len(runs[run].events) + 1>>
  <1>1. Records' = Records
    BY SameSession
  <1>2. /\ run \in DOMAIN runs /\ DOMAIN runs' = DOMAIN runs
        /\ \A i \in DOMAIN runs : \A k \in DOMAIN runs[i].events :
             k \in DOMAIN runs'[i].events /\ runs'[i].events[k] = runs[i].events[k]
        /\ \A i \in DOMAIN runs : \A k \in DOMAIN runs'[i].events :
             \/ k \in DOMAIN runs[i].events /\ runs'[i].events[k] = runs[i].events[k]
             \/ <<i, k>> = new /\ runs'[i].events[k] = e
    <2>1. /\ run \in DOMAIN runs /\ DOMAIN runs' = DOMAIN runs
          /\ \A i \in DOMAIN runs : \A k \in DOMAIN runs[i].events :
               k \in DOMAIN runs'[i].events /\ runs'[i].events[k] = runs[i].events[k]
      BY AppendFacts
    <2>2. \A i \in DOMAIN runs : \A k \in DOMAIN runs'[i].events :
             \/ /\ k \in DOMAIN runs[i].events
                /\ runs'[i].events[k] = runs[i].events[k]
             \/ /\ i = pass[p].run
                /\ k = Len(runs[i].events) + 1
                /\ runs'[i].events[k] = EventID(p)
      BY AppendFacts
    <2>3. ASSUME NEW i \in DOMAIN runs, NEW k \in DOMAIN runs'[i].events
          PROVE  \/ k \in DOMAIN runs[i].events /\ runs'[i].events[k] = runs[i].events[k]
                 \/ <<i, k>> = new /\ runs'[i].events[k] = e
      <3> HIDE DEF EventID
      <3> QED
        BY <2>2, <2>3
    <2> QED
      BY <2>1, <2>3
  <1>3. e.op = pass[p].op /\ e.rec = Rec(p) /\ Rec(p) \in Records
    BY EventIDFacts, HeldLast DEF Holding
  <1>4. pass[p].op = "pull" => cursors["pull"] = 3 * Rec(p) - 3
    BY DEF Spacing, Aligned, Holding
  <1>5. failures \in Nat
    BY BoundsAssumption DEF Inv, Tables
  <1> HIDE DEF run, e, new
  <1>6. ASSUME NEW r \in Records
        PROVE  /\ CopySet("pull", r)' \subseteq CopySet("pull", r) \cup {new}
               /\ ~(pass[p].op = "pull" /\ r = Rec(p)) =>
                     CopySet("pull", r)' \subseteq CopySet("pull", r)
               /\ CopySet("pull", r) \subseteq CopySet("pull", r)'
    <2>1. ASSUME NEW x \in CopySet("pull", r)'
          PROVE  x \in CopySet("pull", r) \/ (x = new /\ pass[p].op = "pull" /\ r = Rec(p))
      <3>1. PICK i \in DOMAIN runs' : \E k \in DOMAIN runs'[i].events :
                   /\ runs'[i].events[k].op = "pull"
                   /\ runs'[i].events[k].rec = r
                   /\ x = <<i, k>>
        BY <2>1, CopyMemberLater
      <3>2. PICK k \in DOMAIN runs'[i].events :
                   /\ runs'[i].events[k].op = "pull"
                   /\ runs'[i].events[k].rec = r
                   /\ x = <<i, k>>
        BY <3>1
      <3>3. CASE k \in DOMAIN runs[i].events /\ runs'[i].events[k] = runs[i].events[k]
        BY <1>2, <3>2, <3>3, CopyMember
      <3>4. CASE <<i, k>> = new /\ runs'[i].events[k] = e
        BY <1>3, <3>2, <3>4
      <3> QED
        BY <1>2, <3>2, <3>3, <3>4
    <2>2. ASSUME NEW x \in CopySet("pull", r)
          PROVE  x \in CopySet("pull", r)'
      <3>1. PICK i \in DOMAIN runs : \E k \in DOMAIN runs[i].events :
                   /\ runs[i].events[k].op = "pull"
                   /\ runs[i].events[k].rec = r
                   /\ x = <<i, k>>
        BY <2>2, CopyMember
      <3>2. \E k \in DOMAIN runs'[i].events :
                   /\ runs'[i].events[k].op = "pull"
                   /\ runs'[i].events[k].rec = r
                   /\ x = <<i, k>>
        BY <1>2, <3>1
      <3> QED
        BY <1>2, <3>1, <3>2, CopyMemberLater
    <2> QED
      BY <2>1, <2>2
  <1>7. ASSUME NEW r \in Records
        PROVE  /\ IsFiniteSet(CopySet("pull", r)')
               /\ Copies("pull", r)' <= failures + (IF Pulled(r)' THEN 1 ELSE 0)
    <2> DEFINE S == CopySet("pull", r)
               T == CopySet("pull", r)'
    <2>1. /\ IsFiniteSet(S)
          /\ Cardinality(S) <= failures + (IF Pulled(r) THEN 1 ELSE 0)
      <3>1. Copies("pull", r) = Cardinality(S)
        BY DEF Copies, CopySet
      <3> QED
        BY <1>7, <3>1 DEF Spacing, Pulls
    <2>2. Copies("pull", r)' = Cardinality(T)
      BY DEF Copies, CopySet
    <2>3. Pulled(r) => Pulled(r)'
      <3>1. CASE 3 * r <= cursors["pull"]
        BY <3>1 DEF Pulled
      <3>2. CASE \E q \in Procs : pc[q] = "cursor" /\ pass[q].op = "pull" /\ Rec(q) = r
        <4>1. PICK q \in Procs : pc[q] = "cursor" /\ pass[q].op = "pull" /\ Rec(q) = r
          BY <3>2
        <4>2. pc'[q] = "cursor" /\ pass'[q].op = "pull" /\ Rec(q)' = r
          BY <4>1 DEF Rec
        <4> QED
          BY <4>2 DEF Pulled
      <3> QED
        BY <3>1, <3>2 DEF Pulled
    <2>4. CASE pass[p].op = "pull" /\ r = Rec(p)
      <3>1. ~Pulled(r)
        <4>1. ~(3 * r <= cursors["pull"])
          BY <1>3, <1>4, <2>4, CellFacts
        <4>2. ASSUME NEW q \in Procs, pc[q] = "cursor", pass[q].op = "pull"
              PROVE  FALSE
          <5>1. q = p
            BY <2>4, <4>2 DEF Spacing, SolePull
          <5> QED
            BY <4>2, <5>1
        <4> QED
          BY <4>1, <4>2 DEF Pulled
      <3>2. Pulled(r)'
        <4>1. pc'[p] = "cursor" /\ pass'[p].op = "pull" /\ Rec(p)' = r
          BY <2>4 DEF Rec
        <4> QED
          BY <4>1 DEF Pulled
      <3>3. T = S \/ T = S \cup {new}
        BY <1>6
      <3> HIDE DEF S, T
      <3>4. /\ IsFiniteSet(S \cup {new}) /\ Cardinality(S) \in Nat
            /\ Cardinality(S \cup {new}) = Cardinality(S)
               \/ Cardinality(S \cup {new}) = Cardinality(S) + 1
        BY <2>1, FS_AddElement, FS_CardinalityType
      <3>5. IsFiniteSet(T) /\ Cardinality(T) <= failures + 1
        BY <1>5, <2>1, <3>1, <3>3, <3>4
      <3> QED
        BY <2>2, <3>2, <3>5 DEF T
    <2>5. CASE ~(pass[p].op = "pull" /\ r = Rec(p))
      <3>1. T = S
        BY <1>6, <2>5
      <3> HIDE DEF S, T
      <3>2. Cardinality(S) \in Nat
        BY <2>1, FS_CardinalityType
      <3>3. IsFiniteSet(T) /\ Cardinality(T) <= failures + (IF Pulled(r)' THEN 1 ELSE 0)
        BY <1>5, <2>1, <2>3, <3>1, <3>2
      <3> QED
        BY <2>2, <3>3 DEF T
    <2> QED
      BY <2>4, <2>5
  <1> QED
    BY <1>1, <1>7 DEF Pulls

LEMMA AppendSpacing ==
  ASSUME Inv, Spacing, NEW p \in Procs, AppendRecord(p)
  PROVE  Spacing'
  <1>1. /\ pc[p] = "append"
        /\ UNCHANGED <<session, file, cursors, failures>>
    BY DEF AppendRecord, source, history
  <1>2. "cursor" \in Labels /\ "cursor" \in Holding /\ "ready" \in Outside
    BY DEF Labels, Holding, Outside
  <1>3. ASSUME Go(p, "cursor"), pass' = pass
        PROVE  /\ pc'[p] = "cursor" /\ pass'[p] = pass[p]
               /\ \A q \in Procs \ {p} : pc'[q] = pc[q] /\ pass'[q] = pass[q]
               /\ Aligned(p)'
    <2>1. /\ pc'[p] = "cursor" /\ pass'[p] = pass[p]
          /\ \A q \in Procs \ {p} : pc'[q] = pc[q] /\ pass'[q] = pass[q]
      BY <1>2, <1>3, KeepPass
    <2>2. Aligned(p)'
      BY <1>1, <1>2, <2>1, HoldAligned DEF Holding
    <2> QED
      BY <2>1, <2>2
  <1>4. CASE EventExists(EventID(p)) /\ pass[p].op = "sync"
    <2>1. runs' = runs /\ Go(p, "cursor") /\ pass' = pass
      BY <1>4 DEF AppendRecord, Refused
    <2> QED
      BY <1>1, <1>3, <2>1, SameRuns, QuietStep
  <1>5. CASE Refused(p) /\ ~(pass[p].op = "sync" /\ EventExists(EventID(p)))
    <2>1. runs' = runs /\ Leave(p, "ready")
      BY <1>5 DEF AppendRecord
    <2> QED
      BY <1>1, <1>2, <2>1, SameRuns, LeaveSpacing
  <1>6. CASE ~Refused(p)
    <2>1. /\ Go(p, "cursor") /\ pass' = pass
          /\ runs' = [runs EXCEPT ![pass[p].run] = AppendEvent(@, EventID(p))]
          /\ ~EventExists(EventID(p))
      BY <1>6 DEF AppendRecord, Refused
    <2>2. Counted' /\ Spaced' /\ Blanks' \in Nat
      BY <1>1, SpacesStay DEF Spacing
    <2>3. \A op \in Ops : Threefold(cursors'[op])
      BY <1>1 DEF Spacing
    <2>4. Events' /\ Unique' /\ Ordered' /\ Downward'
      BY <1>1, <1>6, <2>1, AppendEvents
    <2>5. SolePull'
      BY <2>1 DEF Spacing, SolePull
    <2>6. Pulls'
      BY <1>1, <1>3, <2>1, AppendPulls
    <2>7. ASSUME NEW q \in Procs
          PROVE  Aligned(q)'
      <3>1. CASE q = p
        BY <1>3, <2>1, <3>1
      <3>2. CASE q # p
        BY <1>1, <1>3, <2>1, <3>2, AlignedStays DEF Spacing
      <3> QED
        BY <3>1, <3>2
    <2> QED
      BY <2>2, <2>3, <2>4, <2>5, <2>6, <2>7 DEF Spacing
  <1> QED
    BY <1>4, <1>5, <1>6

LEMMA SetCursorSpacing ==
  ASSUME Inv, Spacing, NEW p \in Procs, SetCursor(p)
  PROVE  Spacing'
  <1> DEFINE op == pass[p].op
             offset == pass[p].offset + Len(pass[p].line)
             s == [pass[p] EXCEPT !.offset = offset, !.line = <<>>]
             l == IF AtEOF(pass[p].line) THEN "end" ELSE "read"
  <1>1. /\ pc[p] = "cursor" /\ Go(p, l) /\ pass' = [pass EXCEPT ![p] = s]
        /\ cursors' = [cursors EXCEPT ![op] = offset]
        /\ UNCHANGED <<session, file, runs, failures>>
    BY DEF SetCursor, source, history
  <1>2. /\ pass[p] \in Passes /\ op \in Ops /\ pass[p].pos \in 0..Len(file)
        /\ pass[p].pos - 3 \in Nat
        /\ Len(pass[p].line) = 3 /\ pass[p].offset \in Nat
        /\ Rec(p) \in Records /\ Rec(p) \in Nat /\ Rec(p) >= 1
        /\ file[pass[p].pos - 2] = Head1(Rec(p))
        /\ Layout /\ Len(file) \in Nat /\ file \in Seq(Cells)
    <2>1. /\ pass[p] \in Passes /\ op \in Ops /\ pass[p].pos \in 0..Len(file)
          /\ pass[p].offset \in Nat /\ Held(p) /\ pass[p].pos - 3 \in Nat
      BY <1>1, ReaderFacts DEF Holding
    <2> QED
      BY <2>1, CellFacts DEF Held, Inv, Layout
  <1>3. /\ pass[p].offset = 3 * Rec(p) - 3
        /\ op = "pull" => cursors["pull"] = pass[p].offset
    BY <1>1 DEF Spacing, Aligned, Holding
  <1>4. offset = 3 * Rec(p) /\ offset \in Nat
    BY <1>2, <1>3
  <1> HIDE DEF offset
  <1>5. s.op = op /\ s.pos = pass[p].pos /\ s.offset = offset
    BY <1>2 DEF Passes
  <1>6. l \in Labels /\ l \in {"end", "read"}
    BY DEF Labels
  <1> HIDE DEF s, l
  <1>7. /\ pc'[p] = l /\ pass'[p] = s
        /\ \A q \in Procs \ {p} : pc'[q] = pc[q] /\ pass'[q] = pass[q]
    BY <1>1, <1>6, SameFiles
  <1>8. cursors \in [Ops -> Nat] /\ "pull" \in Ops
    BY DEF Inv, Tables, Ops
  <1>9. Counted' /\ Spaced' /\ Blanks' \in Nat
    BY <1>1, SpacesStay DEF Spacing
  <1>10. ASSUME NEW x \in Ops
         PROVE  Threefold(cursors'[x])
    <2>1. Threefold(cursors[x]) /\ Threefold(offset)
      BY <1>2, <1>4 DEF Spacing, Threefold
    <2> QED
      BY <1>1, <1>8, <2>1
  <1>11. Events' /\ Unique' /\ Ordered' /\ Downward'
    BY <1>1, SameRuns, EventsStay DEF Spacing
  <1>12. SolePull'
    <2>1. \A q \in Procs : pass'[q].op = "pull" => pass[q].op = "pull"
      BY <1>5, <1>7
    <2> QED
      BY <2>1 DEF Spacing, SolePull
  <1>13. Pulls'
    <2>1. ASSUME NEW r \in Records, Pulled(r)
          PROVE  Pulled(r)'
      <3>0. r \in Nat /\ cursors["pull"] \in Nat
        BY <1>8, CellFacts
      <3>1. CASE 3 * r <= cursors["pull"]
        <4>1. 3 * r <= cursors'["pull"]
          <5>1. CASE op = "pull"
            BY <1>1, <1>2, <1>3, <1>4, <1>8, <3>0, <3>1, <5>1
          <5>2. CASE op # "pull"
            BY <1>1, <1>8, <3>1, <5>2
          <5> QED
            BY <5>1, <5>2
        <4> QED
          BY <4>1 DEF Pulled
      <3>2. CASE \E q \in Procs : pc[q] = "cursor" /\ pass[q].op = "pull" /\ Rec(q) = r
        <4>1. PICK q \in Procs : pc[q] = "cursor" /\ pass[q].op = "pull" /\ Rec(q) = r
          BY <3>2
        <4>2. CASE q = p
          <5>1. cursors'["pull"] = 3 * r
            BY <1>1, <1>4, <1>8, <4>1, <4>2
          <5> QED
            BY <3>0, <5>1 DEF Pulled
        <4>3. CASE q # p
          <5>1. pc'[q] = "cursor" /\ pass'[q].op = "pull" /\ Rec(q)' = r
            BY <1>7, <4>1, <4>3 DEF Rec
          <5> QED
            BY <5>1 DEF Pulled
        <4> QED
          BY <4>2, <4>3
      <3> QED
        BY <2>1, <3>1, <3>2 DEF Pulled
    <2>2. failures \in Nat
      BY BoundsAssumption DEF Inv, Tables
    <2> QED
      BY <1>1, <2>1, <2>2, SameRuns, PullsStay DEF Spacing
  <1>14. \A i \in DOMAIN file : \A q \in Records :
            file[i] = Head1(q) => (i <= pass[p].pos <=> 3 * q <= offset)
    <2>1. ASSUME NEW i \in DOMAIN file, NEW q \in Records, file[i] = Head1(q)
          PROVE  i <= pass[p].pos <=> 3 * q <= offset
      <3> DEFINE j == pass[p].pos - 2
      <3>0. i \in Nat /\ q \in Nat
        BY <1>2, <2>1, CellFacts DEF Layout
      <3>1. j \in DOMAIN file /\ j \in Nat /\ file[j] = Head1(Rec(p))
        <4>1. pass[p].pos \in Nat /\ Len(file) \in Nat /\ DOMAIN file = 1..Len(file)
          BY <1>2 DEF Layout
        <4>2. pass[p].pos >= 3 /\ pass[p].pos <= Len(file)
          BY <1>2
        <4> QED
          BY SMTT(20), <1>2, <4>1, <4>2
      <3>2. (i < j <=> q < Rec(p)) /\ (j < i <=> Rec(p) < q)
        BY SMTT(20), <1>2, <2>1, <3>1 DEF Layout
      <3>3. i <= pass[p].pos => i < j \/ q = Rec(p)
        <4>1. i <= pass[p].pos => i <= pass[p].pos - 3 \/ q = Rec(p)
          BY <1>1, <2>1, HeldLast DEF Holding
        <4> QED
          BY SMTT(20), <1>2, <3>1, <4>1
      <3>4. i <= j => i <= pass[p].pos
        BY <1>2, <3>1
      <3>5. 3 * q <= offset <=> q <= Rec(p)
        BY <1>2, <1>4, <3>0
      <3> HIDE DEF j
      <3> QED
        BY <1>2, <3>0, <3>1, <3>2, <3>3, <3>4, <3>5
    <2> QED
      BY <2>1
  <1>15. Aligned(p)'
    <2>1. Records' = Records
      BY <1>1, SameSession
    <2>2. Threefold(offset) /\ (op = "pull" => cursors'["pull"] = offset)
      BY <1>1, <1>2, <1>4, <1>8 DEF Threefold
    <2> QED
      BY <1>1, <1>5, <1>6, <1>7, <1>14, <2>1, <2>2 DEF Aligned, Threefold, Holding, Head1
  <1>16. ASSUME NEW q \in Procs, q # p
         PROVE  Aligned(q)'
    <2>1. pass[q].op = "pull" => cursors'["pull"] = cursors["pull"]
      <3>1. pass[q].op = "pull" => op # "pull"
        BY <1>16 DEF Spacing, SolePull
      <3> QED
        BY <1>1, <1>8, <3>1
    <2> QED
      BY <1>1, <1>7, <1>16, <2>1, AlignedStays DEF Spacing
  <1> QED
    BY <1>9, <1>10, <1>11, <1>12, <1>13, <1>15, <1>16 DEF Spacing

LEMMA SwitchSpacing ==
  ASSUME Inv, Spacing, NEW i \in DOMAIN runs, CloseRun(i) \/ ReopenRun(i)
  PROVE  Spacing'
  <1>1. /\ UNCHANGED <<session, file, cursors, pc, pass, failures>>
        /\ SameEvents
    BY SwitchFacts DEF SameEvents
  <1>2. Counted' /\ Spaced' /\ Blanks' \in Nat
    BY <1>1, SpacesStay DEF Spacing
  <1>3. \A op \in Ops : Threefold(cursors'[op])
    BY <1>1 DEF Spacing
  <1>4. Events' /\ Unique' /\ Ordered' /\ Downward'
    BY <1>1, EventsStay DEF Spacing
  <1>5. SolePull'
    BY <1>1 DEF Spacing, SolePull
  <1>6. Pulls'
    <2>1. \A r \in Records : Pulled(r) => Pulled(r)'
      BY <1>1 DEF Pulled, Rec
    <2>2. failures \in Nat
      BY BoundsAssumption DEF Inv, Tables
    <2> QED
      BY <1>1, <2>1, <2>2, PullsStay DEF Spacing
  <1>7. \A q \in Procs : Aligned(q)'
    BY <1>1, AlignedStays DEF Spacing
  <1> QED
    BY <1>2, <1>3, <1>4, <1>5, <1>6, <1>7 DEF Spacing

-----------------------------------------------------------------------------
(* Every record once: the harness *)

LEMMA CellsFinite ==
  ASSUME Inv
  PROVE  IsFiniteSet(Newlines) /\ IsFiniteSet(Completed)
  <1>1. Len(file) \in Nat /\ DOMAIN file = 1..Len(file)
    BY DEF Inv, Layout
  <1>2. Len(session) \in Nat
    BY SessionsAssumption DEF Inv, Tables
  <1>3. IsFiniteSet(1..Len(file)) /\ IsFiniteSet(1..Len(session))
    BY <1>1, <1>2, FS_Interval
  <1>4. Newlines \subseteq 1..Len(file) /\ Completed \subseteq 1..Len(session)
    BY <1>1 DEF Newlines, Completed, Records
  <1> QED
    BY <1>3, <1>4, FS_Subset

LEMMA SameBlanks ==
  ASSUME UNCHANGED <<session, file>>
  PROVE  Blanks' = Blanks
  <1>1. Records' = Records
    BY SameSession
  <1>2. \A r : Complete(r)' <=> Complete(r)
    BY DEF Complete, Tail1
  <1>3. Newlines' = Newlines /\ Completed' = Completed
    BY <1>1, <1>2 DEF Newlines, Completed, NL
  <1>4. Blanks' = Cardinality(Newlines') - Cardinality(Completed')
    BY DEF Blanks, Newlines, Completed
  <1> QED
    BY <1>3, <1>4, BlanksCounted

\* What the harness adds lies before every reader; a record that it begins is not
\* counted by an offset yet.
LEMMA WriteSpacing ==
  ASSUME Inv, Spacing, Len(file') >= Len(file), Layout',
         \A i \in DOMAIN file : file'[i] = file[i],
         UNCHANGED <<session, runs, cursors, pc, pass, failures>>,
         Counted', Spaced', Blanks' \in Nat,
         \A i \in DOMAIN file' \ DOMAIN file : \A r \in Records :
            file'[i] = Head1(r) => 3 * r > Len(file)
  PROVE  Spacing'
  <1>1. /\ Len(file) \in Nat /\ DOMAIN file = 1..Len(file)
        /\ Len(file') \in Nat /\ DOMAIN file' = 1..Len(file')
    BY DEF Inv, Layout
  <1>2. Records' = Records /\ SameEvents
    BY SameSession, SameRuns
  <1>3. \A op \in Ops : Threefold(cursors'[op])
    BY DEF Spacing
  <1>4. Events' /\ Unique' /\ Ordered' /\ Downward'
    BY <1>2, EventsStay DEF Spacing
  <1>5. SolePull'
    BY DEF Spacing, SolePull
  <1>6. Pulls'
    <2>1. \A r \in Records : Pulled(r) => Pulled(r)'
      BY DEF Pulled, Rec
    <2>2. failures \in Nat
      BY BoundsAssumption DEF Inv, Tables
    <2> QED
      BY <1>2, <2>1, <2>2, PullsStay DEF Spacing
  <1>7. ASSUME NEW q \in Procs
        PROVE  Aligned(q)'
    <2>1. Aligned(q) /\ Rec(q)' = Rec(q)
      BY DEF Spacing, Rec
    <2>2. ASSUME pc[q] = "read", NEW i \in DOMAIN file', NEW r \in Records, file'[i] = Head1(r)
          PROVE  i <= pass[q].pos <=> 3 * r <= pass[q].offset
      <3>1. CASE i \in DOMAIN file
        BY <2>1, <2>2, <3>1 DEF Aligned
      <3>2. CASE i \notin DOMAIN file
        <4>1. 3 * r > Len(file) /\ r \in Nat
          BY <2>2, <3>2, CellFacts
        <4>2. i \in Nat /\ i > Len(file)
          BY <1>1, <3>2
        <4>3. /\ pass[q].pos \in Nat /\ pass[q].offset \in Nat
              /\ pass[q].offset <= pass[q].pos /\ pass[q].pos <= Len(file)
          <5>1. pass[q] \in Passes
            BY <2>2 DEF Inv, Settled, Stage, Outside
          <5>2. pass[q].offset <= pass[q].pos /\ pass[q].pos <= Len(file)
            BY <2>2 DEF Inv, Settled, Stage
          <5> QED
            BY <5>1, <5>2 DEF Passes
        <4> QED
          BY <1>1, <4>1, <4>2, <4>3
      <3> QED
        BY <3>1, <3>2
    <2> QED
      BY <1>2, <2>1, <2>2 DEF Aligned, Threefold, Head1
  <1> QED
    BY <1>3, <1>4, <1>5, <1>6, <1>7 DEF Spacing

LEMMA WriteRecordFacts ==
  ASSUME Inv, WriteRecord
  PROVE  /\ \A r \in Records : Begun(r)' <=> Begun(r) \/ r = NextRecord
         /\ \A r \in Records : Complete(r)' <=> Complete(r)
         /\ ~Complete(NextRecord)
         /\ Blanks' = Blanks
  <1> DEFINE x == NextRecord
             m == Len(file)
  <1>1. /\ ~Torn /\ file' = file \o <<Head1(x)>>
        /\ UNCHANGED <<session, runs, cursors, pc, pass, failures>>
    BY DEF WriteRecord, Write, store, history
  <1>2. Layout /\ file \in Seq(Cells) /\ m \in Nat /\ DOMAIN file = 1..m
    BY DEF Inv, Layout
  <1>3. /\ x \in Records /\ ~Begun(x) /\ x \in Nat
        /\ \A q \in Records : q < x <=> Begun(q)
    BY <1>2, NextRecordFacts, CellFacts DEF WriteRecord
  <1> HIDE DEF x
  <1>4. /\ Len(file') = m + 1 /\ DOMAIN file' = 1..(m + 1)
        /\ \A i \in 1..m : file'[i] = file[i]
        /\ file'[m + 1] = Head1(x)
    <2>1. Head1(x) \in Cells
      BY <1>3, CellFacts
    <2> HIDE DEF Head1
    <2> QED
      BY <1>1, <1>2, <2>1
  <1>5. \A i \in 1..(m + 1) : i \in 1..m \/ i = m + 1
    BY <1>2
  <1>6. Records' = Records
    BY <1>1, SameSession
  <1>11. \A r \in Records : Begun(r)' <=> Begun(r) \/ r = x
    BY SMTT(20), <1>2, <1>3, <1>4, <1>5, CellFacts DEF Begun, Head1
  <1>12. \A r \in Records : Complete(r)' <=> Complete(r)
    <2>1. \A r \in Records : file'[m + 1] # Tail1(r)
      BY <1>3, <1>4, CellFacts
    <2>2. 1..m \subseteq 1..(m + 1)
      BY <1>2
    <2>3. \A r \in Records : Complete(r)' <=> \E i \in 1..(m + 1) : file'[i] = Tail1(r)
      BY <1>4 DEF Complete, Tail1
    <2>4. \A r \in Records : Complete(r) <=> \E i \in 1..m : file[i] = Tail1(r)
      BY <1>2 DEF Complete
    <2> HIDE DEF m
    <2> QED
      BY <1>4, <1>5, <2>1, <2>2, <2>3, <2>4
  <1>13. ~Complete(x)
    BY <1>2, <1>3 DEF Complete, Begun, Layout
  <1>14. Newlines' = Newlines /\ Completed' = Completed
    <2>1. file'[m + 1] # NL
      BY <1>3, <1>4, CellFacts
    <2>2. 1..m \subseteq 1..(m + 1)
      BY <1>2
    <2>3. \A i : i \in Newlines' <=> i \in 1..(m + 1) /\ file'[i] = NL
      BY <1>4 DEF Newlines, NL
    <2>4. \A i : i \in Newlines <=> i \in 1..m /\ file[i] = NL
      BY <1>2 DEF Newlines
    <2>5. Newlines' = Newlines
      <3> HIDE DEF m
      <3> QED
        BY <1>4, <1>5, <2>1, <2>2, <2>3, <2>4
    <2>6. Completed' = Completed
      BY <1>6, <1>12 DEF Completed
    <2> QED
      BY <2>5, <2>6
  <1>15. Blanks' = Blanks
    <2>1. Blanks' = Cardinality(Newlines') - Cardinality(Completed')
      BY DEF Blanks, Newlines, Completed
    <2> QED
      BY <1>14, <2>1, BlanksCounted
  <1> QED
    BY <1>11, <1>12, <1>13, <1>15 DEF x

LEMMA WriteRecordSpacing ==
  ASSUME Inv, Spacing, WriteRecord, Blanks <= 2
  PROVE  Spacing'
  <1> DEFINE x == NextRecord
             m == Len(file)
  <1>1. /\ ~Torn /\ file' = file \o <<Head1(x)>>
        /\ UNCHANGED <<session, runs, cursors, pc, pass, failures>>
    BY DEF WriteRecord, Write, store, history
  <1>2. Layout /\ file \in Seq(Cells) /\ m \in Nat /\ DOMAIN file = 1..m
    BY DEF Inv, Layout
  <1>3. /\ x \in Records /\ ~Begun(x) /\ x \in Nat
        /\ \A q \in Records : q < x <=> Begun(q)
    BY <1>2, NextRecordFacts, CellFacts DEF WriteRecord
  <1> HIDE DEF x
  <1>4. /\ Len(file') = m + 1 /\ DOMAIN file' = 1..(m + 1)
        /\ \A i \in 1..m : file'[i] = file[i]
        /\ file'[m + 1] = Head1(x)
    <2>1. Head1(x) \in Cells
      BY <1>3, CellFacts
    <2> HIDE DEF Head1
    <2> QED
      BY <1>1, <1>2, <2>1
  <1>5. \A i \in 1..(m + 1) : i \in 1..m \/ i = m + 1
    BY <1>2
  <1>6. Records' = Records
    BY <1>1, SameSession
  <1>7. PICK n \in Nat : /\ \A r \in Records : Begun(r) <=> r <= n
                         /\ m = Blanks + 3 * n
    BY <1>1 DEF Spacing, Counted
  <1>8. x = n + 1
    <2>1. n < x
      BY <1>3, <1>7
    <2>2. n + 1 \in Records \/ ~(n + 1 < x)
      BY <1>3, <1>7, CellFacts DEF Records
    <2>3. ~(n + 1 < x)
      <3>1. n + 1 \in Records => ~Begun(n + 1)
        BY <1>7
      <3> QED
        BY <1>3, <2>2, <3>1
    <2> QED
      BY <1>3, <1>7, <2>1, <2>3
  <1>9. Blanks \in Nat /\ Blanks <= 2
    BY DEF Spacing
  <1>10. Inv'
    BY WriteRecordStep
  <1>11. /\ \A r \in Records : Begun(r)' <=> Begun(r) \/ r = x
         /\ \A r \in Records : Complete(r)' <=> Complete(r)
         /\ ~Complete(x)
         /\ Blanks' = Blanks
    BY WriteRecordFacts DEF x
  <1>16. Counted'
    <2>1. Torn'
      BY <1>3, <1>6, <1>11 DEF Torn
    <2>2. \A r \in Records : Begun(r)' <=> r <= n + 1
      BY <1>7, <1>8, <1>11, CellFacts
    <2>3. Len(file') + 2 = Blanks' + 3 * (n + 1)
      BY <1>4, <1>7, <1>9, <1>11
    <2>4. n + 1 \in Nat
      BY <1>7
    <2> QED
      BY <1>6, <2>1, <2>2, <2>3, <2>4 DEF Counted
  <1>17. 3 * x - 2 <= m + 1 /\ m + 1 <= 3 * x /\ 3 * x > m
    BY <1>7, <1>8, <1>9
  <1>18. Spaced'
    <2>1. ASSUME NEW i \in DOMAIN file', NEW r \in Records, file'[i] = Head1(r)
          PROVE  3 * r - 2 <= i /\ i <= 3 * r
      <3>1. CASE i = m + 1
        <4>1. r = x
          BY <1>3, <1>4, <2>1, <3>1, CellFacts
        <4> QED
          BY <1>17, <3>1, <4>1
      <3>2. CASE i \in 1..m
        BY <1>2, <1>4, <2>1, <3>2 DEF Spacing, Spaced
      <3> QED
        BY <1>4, <1>5, <3>1, <3>2
    <2> QED
      BY <1>6, <2>1 DEF Spaced, Head1
  <1>19. \A i \in DOMAIN file' \ DOMAIN file : \A r \in Records :
            file'[i] = Head1(r) => 3 * r > Len(file)
    BY <1>2, <1>3, <1>4, <1>5, <1>17, CellFacts
  <1>20. Blanks' \in Nat /\ Len(file') >= Len(file) /\ Layout'
    BY <1>2, <1>4, <1>10, <1>11 DEF Spacing, Inv
  <1> HIDE DEF m
  <1> QED
    BY <1>1, <1>2, <1>4, <1>16, <1>18, <1>19, <1>20, WriteSpacing

LEMMA WriteRestFacts ==
  ASSUME Inv, WriteRest
  PROVE  Blanks' = Blanks
  <1> DEFINE m == Len(file)
  <1>1. PICK x \in Records : Begun(x) /\ ~Complete(x) /\ Write(<<Tail1(x), NL>>)
    BY DEF WriteRest
  <1>2. /\ file' = file \o <<Tail1(x), NL>>
        /\ UNCHANGED <<session, runs, cursors, pc, pass, failures>>
    BY <1>1 DEF Write, store, history
  <1>3. Layout /\ file \in Seq(Cells) /\ m \in Nat /\ DOMAIN file = 1..m
    BY DEF Inv, Layout
  <1>4. /\ Len(file') = m + 2 /\ DOMAIN file' = 1..(m + 2)
        /\ \A i \in 1..m : file'[i] = file[i]
        /\ file'[m + 1] = Tail1(x) /\ file'[m + 2] = NL
    <2>1. Tail1(x) \in Cells /\ NL \in Cells
      BY CellFacts DEF Cells
    <2> HIDE DEF Tail1, NL
    <2> QED
      BY <1>2, <1>3, <2>1
  <1>5. \A i \in 1..(m + 2) : i \in 1..m \/ i = m + 1 \/ i = m + 2
    BY <1>3
  <1>6. Records' = Records /\ Inv'
    BY <1>2, SameSession, WriteRestStep
  <1>9. \A r \in Records : Complete(r)' <=> Complete(r) \/ r = x
    <2>1. \A r \in Records : file'[m + 1] = Tail1(r) <=> r = x
      BY <1>4, CellFacts
    <2>2. \A r \in Records : file'[m + 2] # Tail1(r)
      BY <1>4, CellFacts
    <2>3. m + 1 \in 1..(m + 2) /\ 1..m \subseteq 1..(m + 2)
      BY <1>3
    <2>4. \A r \in Records : Complete(r)' <=> \E i \in 1..(m + 2) : file'[i] = Tail1(r)
      BY <1>4 DEF Complete, Tail1
    <2>5. \A r \in Records : Complete(r) <=> \E i \in 1..m : file[i] = Tail1(r)
      BY <1>3 DEF Complete
    <2> HIDE DEF m
    <2> QED
      BY <1>4, <1>5, <2>1, <2>2, <2>3, <2>4, <2>5
  <1>10. Newlines' = Newlines \cup {m + 2} /\ m + 2 \notin Newlines
    <2>1. file'[m + 1] # NL /\ m + 2 \in 1..(m + 2) /\ m + 2 \notin 1..m
      BY <1>3, <1>4, CellFacts
    <2>2. \A i : i \in Newlines' <=> i \in 1..(m + 2) /\ file'[i] = NL
      BY <1>4 DEF Newlines, NL
    <2>3. \A i : i \in Newlines <=> i \in 1..m /\ file[i] = NL
      BY <1>3 DEF Newlines
    <2>4. 1..m \subseteq 1..(m + 2)
      BY <1>3
    <2> QED
      BY <1>4, <1>5, <2>1, <2>2, <2>3, <2>4
  <1>11. Completed' = Completed \cup {x} /\ x \notin Completed
    BY <1>1, <1>6, <1>9 DEF Completed
  <1>12. Blanks' = Blanks
    <2>1. Blanks' = Cardinality(Newlines') - Cardinality(Completed')
      BY DEF Blanks, Newlines, Completed
    <2>2. /\ Cardinality(Newlines') = Cardinality(Newlines) + 1
          /\ Cardinality(Newlines) \in Nat
      BY <1>10, CellsFinite, FS_AddElement, FS_CardinalityType
    <2>3. /\ Cardinality(Completed') = Cardinality(Completed) + 1
          /\ Cardinality(Completed) \in Nat
      BY <1>11, CellsFinite, FS_AddElement, FS_CardinalityType
    <2> QED
      BY <2>1, <2>2, <2>3, BlanksCounted
  <1> QED
    BY <1>12

LEMMA WriteRestSpacing ==
  ASSUME Inv, Spacing, WriteRest
  PROVE  Spacing'
  <1> DEFINE m == Len(file)
  <1>1. PICK x \in Records : Begun(x) /\ ~Complete(x) /\ Write(<<Tail1(x), NL>>)
    BY DEF WriteRest
  <1>2. /\ file' = file \o <<Tail1(x), NL>>
        /\ UNCHANGED <<session, runs, cursors, pc, pass, failures>>
    BY <1>1 DEF Write, store, history
  <1>3. Layout /\ file \in Seq(Cells) /\ m \in Nat /\ DOMAIN file = 1..m
    BY DEF Inv, Layout
  <1>4. /\ Len(file') = m + 2 /\ DOMAIN file' = 1..(m + 2)
        /\ \A i \in 1..m : file'[i] = file[i]
        /\ file'[m + 1] = Tail1(x) /\ file'[m + 2] = NL
    <2>1. Tail1(x) \in Cells /\ NL \in Cells
      BY CellFacts DEF Cells
    <2> HIDE DEF Tail1, NL
    <2> QED
      BY <1>2, <1>3, <2>1
  <1>5. \A i \in 1..(m + 2) : i \in 1..m \/ i = m + 1 \/ i = m + 2
    BY <1>3
  <1>6. Records' = Records /\ Inv'
    BY <1>2, SameSession, WriteRestStep
  <1>7. \A i \in 1..(m + 2) : \A r \in Records :
           file'[i] = Head1(r) => i \in 1..m /\ file[i] = Head1(r)
    BY <1>4, <1>5, CellFacts
  <1>8. \A r \in Records : Begun(r)' <=> Begun(r)
    BY SMTT(20), <1>3, <1>4, <1>7 DEF Begun, Head1
  <1>9. \A r \in Records : Complete(r)' <=> Complete(r) \/ r = x
    <2>1. \A r \in Records : file'[m + 1] = Tail1(r) <=> r = x
      BY <1>4, CellFacts
    <2>2. \A r \in Records : file'[m + 2] # Tail1(r)
      BY <1>4, CellFacts
    <2>3. m + 1 \in 1..(m + 2) /\ 1..m \subseteq 1..(m + 2)
      BY <1>3
    <2>4. \A r \in Records : Complete(r)' <=> \E i \in 1..(m + 2) : file'[i] = Tail1(r)
      BY <1>4 DEF Complete, Tail1
    <2>5. \A r \in Records : Complete(r) <=> \E i \in 1..m : file[i] = Tail1(r)
      BY <1>3 DEF Complete
    <2> HIDE DEF m
    <2> QED
      BY <1>4, <1>5, <2>1, <2>2, <2>3, <2>4, <2>5
  <1>12. Blanks' = Blanks
    BY WriteRestFacts
  <1>13. Counted'
    <2>1. Torn
      BY <1>1 DEF Torn
    <2>2. PICK n \in Nat : /\ \A r \in Records : Begun(r) <=> r <= n
                           /\ m + 2 = Blanks + 3 * n
      BY <2>1 DEF Spacing, Counted
    <2>3. ~Torn'
      <3>1. ASSUME NEW r \in Records, Begun(r), ~Complete(r)
            PROVE  r = x
        BY <1>1, <1>3, <3>1, TornLast, CellFacts
      <3> QED
        BY <1>6, <1>8, <1>9, <3>1 DEF Torn
    <2> HIDE DEF m
    <2> QED
      BY <1>4, <1>6, <1>8, <1>12, <2>2, <2>3 DEF Counted
  <1>14. Spaced'
    <2>1. ASSUME NEW i \in DOMAIN file', NEW r \in Records, file'[i] = Head1(r)
          PROVE  3 * r - 2 <= i /\ i <= 3 * r
      BY <1>3, <1>4, <1>7, <2>1 DEF Spacing, Spaced
    <2> QED
      BY <1>6, <2>1 DEF Spaced, Head1
  <1>15. \A i \in DOMAIN file' \ DOMAIN file : \A r \in Records :
            file'[i] = Head1(r) => 3 * r > Len(file)
    BY <1>3, <1>4, <1>7
  <1>16. Blanks' \in Nat /\ Len(file') >= Len(file) /\ Layout'
    BY <1>3, <1>4, <1>6, <1>12 DEF Spacing, Inv
  <1> HIDE DEF m
  <1> QED
    BY <1>2, <1>3, <1>4, <1>13, <1>14, <1>15, <1>16, WriteSpacing

LEMMA WriteBlankFacts ==
  ASSUME Inv, WriteBlankLine
  PROVE  Blanks' = Blanks + 1
  <1> DEFINE m == Len(file)
  <1>1. /\ ~Torn /\ file' = file \o <<NL>>
        /\ UNCHANGED <<session, runs, cursors, pc, pass, failures>>
    BY DEF WriteBlankLine, Write, store, history
  <1>2. Layout /\ file \in Seq(Cells) /\ m \in Nat /\ DOMAIN file = 1..m
    BY DEF Inv, Layout
  <1>3. /\ Len(file') = m + 1 /\ DOMAIN file' = 1..(m + 1)
        /\ \A i \in 1..m : file'[i] = file[i]
        /\ file'[m + 1] = NL
    <2>1. NL \in Cells
      BY DEF Cells
    <2> HIDE DEF NL
    <2> QED
      BY <1>1, <1>2, <2>1
  <1>4. \A i \in 1..(m + 1) : i \in 1..m \/ i = m + 1
    BY <1>2
  <1>5. Records' = Records /\ Inv'
    BY <1>1, SameSession, WriteBlankLineStep
  <1>6. \A i \in 1..(m + 1) : \A r \in Records :
           /\ file'[i] = Head1(r) => i \in 1..m /\ file[i] = Head1(r)
           /\ file'[i] = Tail1(r) => i \in 1..m /\ file[i] = Tail1(r)
    BY <1>3, <1>4, CellFacts
  <1>7. \A r \in Records : (Begun(r)' <=> Begun(r)) /\ (Complete(r)' <=> Complete(r))
    <2>1. 1..m \subseteq 1..(m + 1)
      BY <1>2
    <2>2. \A r \in Records : Begun(r)' <=> Begun(r)
      BY <1>2, <1>3, <1>6, <2>1 DEF Begun, Head1
    <2>3. \A r \in Records : Complete(r)' <=> Complete(r)
      BY <1>2, <1>3, <1>6, <2>1 DEF Complete, Tail1
    <2> QED
      BY <2>2, <2>3
  <1>8. Newlines' = Newlines \cup {m + 1} /\ m + 1 \notin Newlines
    <2>1. m + 1 \in 1..(m + 1) /\ m + 1 \notin 1..m /\ 1..m \subseteq 1..(m + 1)
      BY <1>2
    <2>2. \A i : i \in Newlines' <=> i \in 1..(m + 1) /\ file'[i] = NL
      BY <1>3 DEF Newlines, NL
    <2>3. \A i : i \in Newlines <=> i \in 1..m /\ file[i] = NL
      BY <1>2 DEF Newlines
    <2> QED
      BY <1>3, <1>4, <2>1, <2>2, <2>3
  <1>9. Completed' = Completed
    BY <1>5, <1>7 DEF Completed
  <1>10. Blanks' = Blanks + 1
    <2>1. Blanks' = Cardinality(Newlines') - Cardinality(Completed')
      BY DEF Blanks, Newlines, Completed
    <2>2. /\ Cardinality(Newlines') = Cardinality(Newlines) + 1
          /\ Cardinality(Newlines) \in Nat
      BY <1>8, CellsFinite, FS_AddElement, FS_CardinalityType
    <2>3. Cardinality(Completed) \in Nat
      BY CellsFinite, FS_CardinalityType
    <2> QED
      BY <1>9, <2>1, <2>2, <2>3, BlanksCounted
  <1> QED
    BY <1>10

LEMMA WriteBlankSpacing ==
  ASSUME Inv, Spacing, WriteBlankLine
  PROVE  Spacing'
  <1> DEFINE m == Len(file)
  <1>1. /\ ~Torn /\ file' = file \o <<NL>>
        /\ UNCHANGED <<session, runs, cursors, pc, pass, failures>>
    BY DEF WriteBlankLine, Write, store, history
  <1>2. Layout /\ file \in Seq(Cells) /\ m \in Nat /\ DOMAIN file = 1..m
    BY DEF Inv, Layout
  <1>3. /\ Len(file') = m + 1 /\ DOMAIN file' = 1..(m + 1)
        /\ \A i \in 1..m : file'[i] = file[i]
        /\ file'[m + 1] = NL
    <2>1. NL \in Cells
      BY DEF Cells
    <2> HIDE DEF NL
    <2> QED
      BY <1>1, <1>2, <2>1
  <1>4. \A i \in 1..(m + 1) : i \in 1..m \/ i = m + 1
    BY <1>2
  <1>5. Records' = Records /\ Inv'
    BY <1>1, SameSession, WriteBlankLineStep
  <1>6. \A i \in 1..(m + 1) : \A r \in Records :
           /\ file'[i] = Head1(r) => i \in 1..m /\ file[i] = Head1(r)
           /\ file'[i] = Tail1(r) => i \in 1..m /\ file[i] = Tail1(r)
    BY <1>3, <1>4, CellFacts
  <1>7. \A r \in Records : (Begun(r)' <=> Begun(r)) /\ (Complete(r)' <=> Complete(r))
    <2>1. 1..m \subseteq 1..(m + 1)
      BY <1>2
    <2>2. \A r \in Records : Begun(r)' <=> Begun(r)
      BY <1>2, <1>3, <1>6, <2>1 DEF Begun, Head1
    <2>3. \A r \in Records : Complete(r)' <=> Complete(r)
      BY <1>2, <1>3, <1>6, <2>1 DEF Complete, Tail1
    <2> QED
      BY <2>2, <2>3
  <1>10. Blanks' = Blanks + 1
    BY WriteBlankFacts
  <1>11. Counted'
    <2>1. PICK n \in Nat : /\ \A r \in Records : Begun(r) <=> r <= n
                           /\ m = Blanks + 3 * n
      BY <1>1 DEF Spacing, Counted
    <2>2. ~Torn'
      BY <1>1, <1>5, <1>7 DEF Torn
    <2>3. Len(file') = Blanks' + 3 * n
      BY <1>2, <1>3, <1>10, <2>1 DEF Spacing
    <2> QED
      BY <1>5, <1>7, <2>1, <2>2, <2>3 DEF Counted
  <1>12. Spaced'
    <2>1. ASSUME NEW i \in DOMAIN file', NEW r \in Records, file'[i] = Head1(r)
          PROVE  3 * r - 2 <= i /\ i <= 3 * r
      BY <1>2, <1>3, <1>6, <2>1 DEF Spacing, Spaced
    <2> QED
      BY <1>5, <2>1 DEF Spaced, Head1
  <1>13. \A i \in DOMAIN file' \ DOMAIN file : \A r \in Records :
            file'[i] = Head1(r) => 3 * r > Len(file)
    BY <1>2, <1>3, <1>6
  <1>14. Blanks' \in Nat /\ Len(file') >= Len(file) /\ Layout'
    BY <1>1, <1>2, <1>3, <1>5, <1>10 DEF Spacing, Inv
  <1> HIDE DEF m
  <1> QED
    BY <1>1, <1>2, <1>3, <1>11, <1>12, <1>13, <1>14, WriteSpacing

-----------------------------------------------------------------------------
(* Every record once: the theorem *)

\* A file with no cell, and the file of an older ledger, with one record.
LEMMA SpacingEmpty ==
  ASSUME Init, file = <<>>, runs = <<NewRun>>, cursors = [op \in Ops |-> 0]
  PROVE  Spacing
  <1>1. /\ pc = [q \in Procs |-> "closed"] /\ pass = [q \in Procs |-> Idle]
        /\ failures = 0
    BY DEF Init, Idle
  <1>2. DOMAIN runs = {1} /\ DOMAIN runs[1].events = {}
    BY NewRunFacts
  <1>3. DOMAIN file = {} /\ Len(file) = 0
    OBVIOUS
  <1>4. ~Torn /\ \A r \in Records : ~Begun(r) /\ ~Complete(r)
    BY <1>3 DEF Torn, Begun, Complete
  <1>5. Blanks = 0
    <2>1. Newlines = {} /\ Completed = {}
      BY <1>3, <1>4 DEF Newlines, Completed
    <2> QED
      BY <2>1, BlanksCounted, FS_EmptySet
  <1>6. Counted
    <2>1. \A r \in Records : Begun(r) <=> r <= 0
      BY <1>4, CellFacts
    <2> QED
      BY <1>3, <1>4, <1>5, <2>1 DEF Counted
  <1>7. Spaced
    BY <1>3 DEF Spaced
  <1>8. \A op \in Ops : Threefold(cursors[op])
    <2>1. \A op \in Ops : cursors[op] = 3 * 0
      OBVIOUS
    <2> QED
      BY <2>1 DEF Threefold
  <1>9. Events /\ Unique /\ Ordered
    BY <1>2 DEF Events, Unique, Ordered
  <1>10. \A op, r : ~Stored(op, r) /\ CopySet(op, r) = {}
    BY <1>2, CopyMember DEF Stored, Imported
  <1>11. Downward
    BY <1>10 DEF Downward
  <1>12. ASSUME NEW q \in Procs
         PROVE  pc[q] = "closed" /\ pass[q].op # "pull"
    BY <1>1, NotIdle
  <1>13. SolePull /\ \A q \in Procs : Aligned(q)
    BY <1>12 DEF SolePull, Aligned, Holding
  <1>14. Pulls
    <2>1. ASSUME NEW r \in Records
          PROVE  /\ IsFiniteSet(CopySet("pull", r))
                 /\ Copies("pull", r) <= failures + (IF Pulled(r) THEN 1 ELSE 0)
      <3>1. CopySet("pull", r) = {}
        BY <1>10
      <3>2. Copies("pull", r) = Cardinality(CopySet("pull", r))
        BY DEF Copies, CopySet
      <3>3. IsFiniteSet(CopySet("pull", r)) /\ Copies("pull", r) = 0
        BY <3>1, <3>2, FS_EmptySet
      <3>4. failures = 0
        BY <1>1
      <3> QED
        BY <3>3, <3>4
    <2> QED
      BY <2>1 DEF Pulls
  <1> QED
    BY <1>5, <1>6, <1>7, <1>8, <1>9, <1>11, <1>13, <1>14 DEF Spacing

LEMMA SpacingLegacy ==
  ASSUME Init, Discovered, 1 \in Records, file = <<Head1(1), Tail1(1), NL>>,
         runs = <<NewRun, Legacy>>, cursors = [sync |-> 3, pull |-> 0]
  PROVE  Spacing
  <1>1. /\ pc = [q \in Procs |-> "closed"] /\ pass = [q \in Procs |-> Idle]
        /\ failures = 0
    BY DEF Init, Idle
  <1>2. /\ DOMAIN runs = {1, 2} /\ DOMAIN runs[1].events = {} /\ DOMAIN runs[2].events = {1}
        /\ runs[2].events[1].op = "sync" /\ runs[2].events[1].rec = 1
        /\ runs[2].events[1].at = 0
    BY NewRunFacts, LegacyFacts
  <1>3. /\ DOMAIN file = {1, 2, 3} /\ Len(file) = 3
        /\ file[1] = Head1(1) /\ file[2] = Tail1(1) /\ file[3] = NL
    OBVIOUS
  <1>4. \A i \in DOMAIN file : \A r \in Records :
           /\ file[i] = Head1(r) => i = 1 /\ r = 1
           /\ file[i] = Tail1(r) => i = 2 /\ r = 1
           /\ file[i] = NL <=> i = 3
    BY <1>3, CellFacts
  <1>5. \A r \in Records : (Begun(r) <=> r = 1) /\ (Complete(r) <=> r = 1)
    BY <1>3, <1>4 DEF Begun, Complete
  <1>6. Blanks = 0
    <2>1. Newlines = {3}
      BY <1>3, <1>4 DEF Newlines
    <2>2. Completed = {1}
      BY <1>5 DEF Completed
    <2> QED
      BY <2>1, <2>2, BlanksCounted, FS_Singleton
  <1>7. Counted
    <2>1. ~Torn
      BY <1>5 DEF Torn
    <2>2. \A r \in Records : Begun(r) <=> r <= 1
      BY <1>5, CellFacts
    <2>3. Len(file) = Blanks + 3 * 1
      BY <1>3, <1>6
    <2> QED
      BY <2>1, <2>2, <2>3 DEF Counted
  <1>8. Spaced
    BY <1>4 DEF Spaced
  <1>9. \A op \in Ops : Threefold(cursors[op])
    <2>1. cursors["sync"] = 3 * 1 /\ cursors["pull"] = 3 * 0
      OBVIOUS
    <2> QED
      BY <2>1 DEF Threefold, Ops
  <1>10. Channel = "sync"
    BY DEF Channel
  <1>11. Events /\ Unique /\ Ordered
    BY <1>2, <1>10 DEF Events, Unique, Ordered
  <1>12. Downward
    <2>1. \A r \in Records : Stored("sync", r) => r = 1
      BY <1>2 DEF Stored, Imported
    <2> QED
      BY <2>1, CellFacts DEF Downward
  <1>13. ASSUME NEW q \in Procs
         PROVE  pc[q] = "closed" /\ pass[q].op # "pull"
    BY <1>1, NotIdle
  <1>14. SolePull /\ \A q \in Procs : Aligned(q)
    BY <1>13 DEF SolePull, Aligned, Holding
  <1>15. Pulls
    <2>1. ASSUME NEW r \in Records
          PROVE  /\ IsFiniteSet(CopySet("pull", r))
                 /\ Copies("pull", r) <= failures + (IF Pulled(r) THEN 1 ELSE 0)
      <3>1. CopySet("pull", r) = {}
        BY <1>2, CopyMember
      <3>2. Copies("pull", r) = Cardinality(CopySet("pull", r))
        BY DEF Copies, CopySet
      <3> QED
        BY <1>1, <3>1, <3>2, FS_EmptySet
    <2> QED
      BY <2>1 DEF Pulls
  <1> QED
    BY <1>6, <1>7, <1>8, <1>9, <1>11, <1>12, <1>14, <1>15 DEF Spacing

LEMMA SpacingInit == Init => Spacing
  BY SpacingEmpty, SpacingLegacy DEF Init

LEMMA SpacingUnchanged ==
  ASSUME Inv, Spacing, UNCHANGED vars
  PROVE  Spacing'
  <1>1. UNCHANGED <<session, file, runs, cursors, pc, pass, failures>>
    BY DEF vars, source, store, history
  <1>2. Layout' /\ Len(file) \in Nat
    BY InvUnchanged DEF Inv, Layout
  <1>3. Counted' /\ Spaced' /\ Blanks' \in Nat
    BY <1>1, SpacesStay DEF Spacing
  <1> QED
    BY <1>1, <1>2, <1>3, WriteSpacing

\* Nobody takes a blank line away.
LEMMA BlanksGrow ==
  ASSUME Inv, [Next]_vars
  PROVE  Blanks \in Int /\ Blanks' \in Int /\ Blanks <= Blanks'
  <1>1. Blanks \in Int
    <2>1. Cardinality(Newlines) \in Nat /\ Cardinality(Completed) \in Nat
      BY CellsFinite, FS_CardinalityType
    <2> QED
      BY <2>1, BlanksCounted
  <1>2. CASE WriteRecord \/ WriteRest
    BY <1>1, <1>2, WriteRecordFacts, WriteRestFacts
  <1>3. CASE WriteBlankLine
    BY <1>1, <1>3, WriteBlankFacts
  <1>4. CASE ~(WriteRecord \/ WriteRest \/ WriteBlankLine)
    <2>1. UNCHANGED <<session, file>>
      <3>1. CASE UNCHANGED vars
        BY <3>1 DEF vars, source
      <3>2. ASSUME NEW i \in DOMAIN runs, CloseRun(i) \/ ReopenRun(i)
            PROVE  UNCHANGED <<session, file>>
        BY <3>2 DEF CloseRun, ReopenRun, source
      <3>3. ASSUME NEW p \in Procs, Proceed(p) \/ PullFile(p) \/ Fail(p)
            PROVE  UNCHANGED <<session, file>>
        BY <3>3 DEF Proceed, PullFile, Fail, RebuildRead, RebuildWrite, SourceRun, StartRun,
                    BindSourceRun, OpenFile, ReadBlankLine, ReadTornLine, ReadLine,
                    ReadIdentity, RefuseMarker, UpdateRunIdentity, AppendRecord, SetCursor,
                    EndPass, source
      <3> QED
        BY <1>4, <3>1, <3>2, <3>3 DEF Next
    <2> QED
      BY <1>1, <2>1, SameBlanks
  <1> QED
    BY <1>2, <1>3, <1>4

LEMMA SpacingNext ==
  ASSUME Inv, Spacing, Next, Blanks <= 2
  PROVE  Spacing'
  <1>1. CASE WriteRecord
    BY <1>1, WriteRecordSpacing
  <1>2. CASE WriteRest
    BY <1>2, WriteRestSpacing
  <1>3. CASE WriteBlankLine
    BY <1>3, WriteBlankSpacing
  <1>4. ASSUME NEW p \in Procs, Proceed(p)
        PROVE  Spacing'
    <2>1. CASE RebuildRead(p) \/ RebuildWrite(p)
      BY <2>1, RebuildSpacing
    <2>2. CASE SourceRun(p) \/ StartRun(p) \/ BindSourceRun(p)
      BY <2>2, BeginSpacing
    <2>3. CASE OpenFile(p)
      BY <2>3, OpenSpacing
    <2>4. CASE ReadBlankLine(p)
      BY <2>4, ReadBlankSpacing
    <2>5. CASE ReadTornLine(p) \/ EndPass(p)
      BY <2>5, EndSpacing
    <2>6. CASE ReadLine(p)
      BY <2>6, ReadLineSpacing
    <2>7. CASE ReadIdentity(p) \/ RefuseMarker(p) \/ UpdateRunIdentity(p)
      BY <2>7, IdentitySpacing
    <2>8. CASE AppendRecord(p)
      BY <2>8, AppendSpacing
    <2>9. CASE SetCursor(p)
      BY <2>9, SetCursorSpacing
    <2> QED
      BY <1>4, <2>1, <2>2, <2>3, <2>4, <2>5, <2>6, <2>7, <2>8, <2>9 DEF Proceed
  <1>5. ASSUME NEW p \in Procs, PullFile(p) \/ Fail(p)
        PROVE  Spacing'
    BY <1>5, BeginSpacing, EndSpacing
  <1>6. ASSUME NEW i \in DOMAIN runs, CloseRun(i) \/ ReopenRun(i)
        PROVE  Spacing'
    BY <1>6, SwitchSpacing
  <1> QED
    BY <1>1, <1>2, <1>3, <1>4, <1>5, <1>6 DEF Next

LEMMA OnceImplied ==
  ASSUME Inv, Spacing
  PROVE  ImportedOnce
  <1>1. ASSUME NEW op \in Ops, op # Channel, NEW r
        PROVE  CopySet(op, r) = {}
    BY <1>1, CopyMember DEF Spacing, Events
  <1>2. ASSUME NEW r \in Records
        PROVE  Copies("sync", r) <= 1
    <2>1. Copies("sync", r) = Cardinality(CopySet("sync", r))
      BY DEF Copies, CopySet
    <2>2. CASE CopySet("sync", r) = {}
      BY <2>1, <2>2, FS_EmptySet
    <2>3. CASE CopySet("sync", r) # {}
      <3>1. Discovered
        BY <1>1, <2>3 DEF Channel, Ops
      <3>2. PICK x : x \in CopySet("sync", r)
        BY <2>3
      <3>3. ASSUME NEW y, y \in CopySet("sync", r)
            PROVE  y = x
        <4>1. PICK i \in DOMAIN runs : \E k \in DOMAIN runs[i].events :
                     runs[i].events[k].rec = r /\ x = <<i, k>>
          BY <3>2, CopyMember
        <4>2. PICK k \in DOMAIN runs[i].events : runs[i].events[k].rec = r /\ x = <<i, k>>
          BY <4>1
        <4>3. PICK j \in DOMAIN runs : \E n \in DOMAIN runs[j].events :
                     runs[j].events[n].rec = r /\ y = <<j, n>>
          BY <3>3, CopyMember
        <4>4. PICK n \in DOMAIN runs[j].events : runs[j].events[n].rec = r /\ y = <<j, n>>
          BY <4>3
        <4>5. i = j /\ k = n
          BY <3>1, <4>2, <4>4 DEF Spacing, Unique
        <4> QED
          BY <4>2, <4>4, <4>5
      <3>4. CopySet("sync", r) = {x}
        BY <3>2, <3>3
      <3>5. Cardinality({x}) = 1
        BY FS_Singleton
      <3> QED
        BY <2>1, <3>4, <3>5
    <2> QED
      BY <2>2, <2>3
  <1>3. ASSUME NEW r \in Records
        PROVE  Copies("pull", r) <= 1 + failures
    <2>1. /\ IsFiniteSet(CopySet("pull", r))
          /\ Copies("pull", r) <= failures + (IF Pulled(r) THEN 1 ELSE 0)
      BY <1>3 DEF Spacing, Pulls
    <2>2. Copies("pull", r) = Cardinality(CopySet("pull", r))
      BY DEF Copies, CopySet
    <2>3. Copies("pull", r) \in Nat /\ failures \in Nat
      BY <2>1, <2>2, FS_CardinalityType, BoundsAssumption DEF Inv, Tables
    <2> QED
      BY <2>1, <2>3
  <1>4. ASSUME NEW i \in DOMAIN runs, NEW j \in DOMAIN runs[i].events,
               NEW k \in DOMAIN runs[i].events, j < k, runs[i].events[j].op = "sync"
        PROVE  runs[i].events[j].rec < runs[i].events[k].rec
    <2>1. Discovered
      BY <1>4 DEF Spacing, Events, Channel
    <2> QED
      BY <1>4, <2>1 DEF Spacing, Ordered
  <1> QED
    BY <1>2, <1>3, <1>4 DEF ImportedOnce

\* However often a session is imported, by many processes and across failures, no
\* record becomes two events (EventExists and the cursor of AppendRecord and
\* SetCursor) and the events keep the order of the file, whatever the bounds of an
\* instance, until the file has as many blank lines as a record has cells: Spacing
\* is kept as long as there are fewer, and no blank line is ever taken away.
THEOREM OnceImported == Spec => []ImportedOnce
  <1> DEFINE J == Blanks <= 2 => Spacing
  <1>1. Inv /\ J /\ [Next]_vars => J'
    BY BlanksGrow, SpacingNext, SpacingUnchanged
  <1>2. Inv /\ J => ImportedOnce
    <2>1. CASE Blanks <= 2
      BY <2>1, OnceImplied
    <2>2. CASE ~(Blanks <= 2)
      BY <2>2 DEF ImportedOnce
    <2> QED
      BY <2>1, <2>2
  <1>3. Init => J
    BY SpacingInit
  <1> QED
    BY <1>1, <1>2, <1>3, InvHolds, PTL DEF Spec
=============================================================================
