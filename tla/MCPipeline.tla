----------------------------- MODULE MCPipeline ------------------------------
(* Instances of Pipeline: replay files of one to four frames, and the ways    *)
(* to start a run.                                                           *)
EXTENDS Pipeline

Frame(id, fits) == [id |-> id, decodes |-> TRUE, fits |-> fits]

\* Two sources, a row that counts to two, and a record that integrate refuses.
FourFrames == <<Frame(0, TRUE), Frame(1, TRUE), Frame(0, FALSE), Frame(0, TRUE)>>
TwoFrames == <<Frame(0, TRUE), Frame(0, TRUE)>>
OneFrame == <<Frame(0, TRUE)>>
NoFrames == <<>>

Scenario(m, c, f, r) == [mode |-> m, crash |-> c, failures |-> f, reruns |-> r]

Clean == {Scenario("plain", "none", 0, 0)}
Stalling == {Scenario("plain", "none", 1, 0)}
Held == {Scenario("hold", "none", 1, 1)}

\* A failure in a run that exits by itself, with and without an observer and
\* after a crash; a held run that a signal ends; a rerun after a clean, a
\* restarted and a failed pipeline.
Disturbed ==
  {Scenario("plain", c, 1, 0) : c \in {"none", "once", "always"}}
    \cup {Scenario("observe", "none", 1, 0), Scenario("hold", "none", 1, 0)}
    \cup {Scenario("hold", c, 0, 1) : c \in {"none", "once"}}
    \cup {Scenario("hold", "always", 1, 1)}
==============================================================================
