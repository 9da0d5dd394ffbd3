--------------------------- MODULE MCSessionImport ---------------------------
(***************************************************************************)
(* Short sessions: two records that change the labels, a marker, evidence  *)
(* among more blank lines than a record has cells, and a record that the   *)
(* collector passes over before evidence.                                  *)
(***************************************************************************)
EXTENDS SessionImport

MCSessions == {<<"meta", "meta">>, <<"meta", "work">>, <<"item">>, <<"other", "item">>}
MCTranscripts == {<<"event", "named">>, <<"event", "event">>}
MCBlanks == [s \in MCSessions \cup MCTranscripts |->
                CASE s = <<"item">> -> 3
                  [] s \in {<<"meta", "meta">>, <<"meta", "work">>} -> 0
                  [] OTHER -> 1]
MCClosable == [s \in MCSessions \cup MCTranscripts |->
                 CASE s \in MCTranscripts -> {PullRun}
                   [] s = <<"other", "item">> -> {PullRun + 1}
                   [] OTHER -> {}]

\* A session with its next turn: three records that change the metadata.
MCNextTurn == {<<"meta", "work", "meta">>}
MCNone == {}
MCNoBlanks == [s \in MCNextTurn |-> 0]
MCNoClosable == [s \in MCNextTurn |-> {}]
=============================================================================
