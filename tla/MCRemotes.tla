------------------------------ MODULE MCRemotes ------------------------------
(* Small instances of Remotes for TLC. *)
EXTENDS Remotes

CONSTANTS r1, w1

OneRoom == {r1}
OneWorker == {w1}
OneWorkerTasks == OneWorker \union {"automation", "circadian", "mqtt"}
FourLevels == {"low", "circadian", "external", "high"}
\* a touch by hand is brighter than circadian, and neither is at an end
FourSteps == <<"low", "circadian", "external", "high">>
=============================================================================
