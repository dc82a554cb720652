--------------------------- MODULE MCLightControl ---------------------------
(* Small instances of LightControl for TLC. *)
EXTENDS LightControl

CONSTANTS r1, r2, q1

OneRoom == {r1}
TwoRooms == {r1, r2}
OneRequest == {q1}
OneRequestTasks == OneRequest \union {"circadian", "mqtt"}
\* whose values a light shows
ThreeLevels == {"circadian", "user", "external"}
=============================================================================
