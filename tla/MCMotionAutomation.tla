------------------------- MODULE MCMotionAutomation -------------------------
(* Small instances of MotionAutomation for TLC. *)
EXTENDS MotionAutomation, TLC

CONSTANTS r1, r2, w1, w2, w3

OneRoom == {r1}
TwoRooms == {r1, r2}
TwoWorkers == {w1, w2}
ThreeWorkers == {w1, w2, w3}
TwoWorkerTasks == TwoWorkers \union {"automation", "mqtt"}
ThreeWorkerTasks == ThreeWorkers \union {"automation", "mqtt"}
\* whose values a light shows
FourLevels == {"circadian", "user", "external", "night"}

Household == [lived |-> {r1}, starts |-> {"dark"}, builtin |-> TRUE, scheduled |-> FALSE,
              gated |-> FALSE, automations |-> {}, prompt |-> FALSE, resends |-> 0, outages |-> 0]

\* the lights follow who comes in, and go off a while later; who leaves at night
\* leaves them at a level of their own
Comes == [rooms |-> {r1}, trigger |-> "MotionDetected", scheduled |-> FALSE,
          conditions |-> {[of |-> "lightsOn", room |-> r1, is |-> FALSE]},
          actions |-> << [do |-> "on", level |-> "circadian", source |-> "Automation"],
                         [do |-> "off", delay |-> 1] >>]
Leaves == [rooms |-> {r1}, trigger |-> "MotionCleared", scheduled |-> TRUE,
           conditions |-> {[of |-> "nightMode", room |-> r1, is |-> TRUE]},
           actions |-> << [do |-> "on", level |-> "user", source |-> "Manual"],
                          [do |-> "off", delay |-> 1] >>]
\* a gate and a chatty sensor; a schedule; a lost connection; an automation
GatedOrScheduled ==
  {[Household EXCEPT !.starts = {"dark", "lit", "night"}, !.gated = TRUE, !.resends = 1],
   [Household EXCEPT !.lived = TwoRooms, !.starts = {"dark", "lit"}, !.scheduled = TRUE,
                     !.prompt = TRUE],
   [Household EXCEPT !.lived = TwoRooms, !.starts = {"dark", "lit"}, !.prompt = TRUE,
                     !.outages = 1],
   [Household EXCEPT !.starts = {"dark", "override"}, !.prompt = TRUE, !.outages = 2],
   [Household EXCEPT !.starts = {"dark", "night"}, !.builtin = FALSE,
                     !.automations = {Comes}, !.prompt = TRUE, !.outages = 1],
   [Household EXCEPT !.starts = {"dark"}, !.gated = TRUE, !.automations = {Comes},
                     !.prompt = TRUE]}
Prompt ==
  {[Household EXCEPT !.starts = {"dark", "night", "override"}, !.prompt = TRUE],
   [Household EXCEPT !.starts = {"dark", "night"}, !.builtin = FALSE,
                     !.automations = {Comes, Leaves}, !.prompt = TRUE]}
Plain == {Household}
WorkerSymmetry == Permutations(ThreeWorkers)
=============================================================================
