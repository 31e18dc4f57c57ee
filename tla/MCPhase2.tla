------------------------------ MODULE MCPhase2 ------------------------------
(***************************************************************************)
(* Small instances of Phase2 for TLC.                                      *)
(***************************************************************************)
EXTENDS Phase2

CONSTANTS t1, t2, a1, e1, e2

\* Two taps on the button of one alert (a double tap).
OneAlert   == {a1}
TwoTaps    == {t1, t2}
SameAlert  == [t \in TwoTaps |-> a1]

\* One tap, where the other processes are the subject.
OneTap     == {t1}
ItsAlert   == [t \in OneTap |-> a1]

OneEntry   == {e1}
TwoEntries == {e1, e2}
AboutE1    == [a \in OneAlert |-> e1]
==============================================================================
