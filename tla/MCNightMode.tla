---------------------------- MODULE MCNightMode ----------------------------
(* Small instances of NightMode for TLC. *)
EXTENDS NightMode

CONSTANTS r1, p1

OneRoom == {r1}
OnePress == {p1}
OnePressTasks == OnePress \union {"night", "circadian", "mqtt"}
\* whose values a light shows
FourLevels == {"circadian", "user", "external", "night"}
=============================================================================
