------------------------------- MODULE MCLive -------------------------------
(***************************************************************************)
(* Small instances for liveness: the buy flow of Phase 2, and the scenes   *)
(* of MCSurroundings beside it - one of them moves, the others rest.       *)
(***************************************************************************)
EXTENDS Phase2, MCSurroundings

CONSTANTS t1, a1, e1

\* One tap on the button of one alert.
OneAlert == {a1}
OneTap   == {t1}
ItsAlert == [t \in OneTap |-> a1]
OneEntry == {e1}
AboutE1  == [a \in OneAlert |-> e1]

LiveInit ==
  /\ Init /\ SceneInit
  /\ scene # "phase2" => row.smoke = "never" /\ \A e \in Entries : ~enabled[e]

Phase2Scene == scene = "phase2" /\ Next /\ UNCHANGED sceneVars

OtherScenes == SceneNext /\ UNCHANGED vars

LiveSpec == LiveInit /\ [][Phase2Scene \/ OtherScenes]_<<vars, sceneVars>>

\* The fairness of Phase2's FairSpec, and of the other scenes.
FairLive ==
  /\ LiveSpec
  /\ \A t \in Taps : WF_vars(scene = "phase2" /\ BuyTask(t))
  /\ WF_vars(scene = "phase2" /\ SmokeTask)
  /\ SceneFairness
=============================================================================
