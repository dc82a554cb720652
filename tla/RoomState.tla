------------------------------ MODULE RoomState ------------------------------
(***************************************************************************)
(* The state of one room and the updates the StateManager actor applies to *)
(* it (state/mod.rs).  Pure operators: every component that reads or       *)
(* changes a room is built on them.                                        *)
(*                                                                         *)
(* Brightness and colour temperature are one abstract "level": what the    *)
(* properties tell apart is whose values they are.  An Instant is a        *)
(* natural number, an Option is a value or None.  last_motion and          *)
(* last_illuminance are left out: no decision reads them back.             *)
(***************************************************************************)
EXTENDS Naturals

CONSTANTS
  None,    \* the absent Option
  Levels   \* light levels: brightness and colour temperature together

ASSUME NoneIsNoLevel == None \notin Levels /\ None \notin Nat

Sources      == {"Circadian", "Manual", "Automation"}
MaybeLevel   == Levels \union {None}
MaybeInstant == Nat \union {None}

Room ==
  [lightsOn      : BOOLEAN,
   current       : MaybeLevel,     \* current_brightness, current_color_temp_mired
   intended      : MaybeLevel,     \* intended_brightness, intended_color_temp_mired
   occupancy     : BOOLEAN,
   nightMode     : BOOLEAN,        \* night_mode_active
   nightSince    : MaybeInstant,   \* night_mode_since
   source        : Sources,        \* update_source
   paused        : BOOLEAN,        \* circadian_paused
   pausedUntil   : MaybeInstant,   \* circadian_paused_until
   overrideUntil : MaybeInstant,   \* manual_override_until
   lastPush      : MaybeInstant,   \* last_jeha_push
   alarm         : BOOLEAN]        \* alarm_active

DefaultRoom ==
  [lightsOn |-> FALSE, current |-> None, intended |-> None, occupancy |-> FALSE,
   nightMode |-> FALSE, nightSince |-> None, source |-> "Circadian",
   paused |-> FALSE, pausedUntil |-> None, overrideUntil |-> None,
   lastPush |-> None, alarm |-> FALSE]

-----------------------------------------------------------------------------
(* RoomStateUpdate: constructors, so that a handler reads like its code.    *)

LightsOn(level, source) ==
  [update |-> "LightsOn", level |-> level, source |-> source]
LightsOff               == [update |-> "LightsOff"]
Occupancy(occupied)     == [update |-> "Occupancy", occupied |-> occupied]
NightMode(active)       == [update |-> "NightMode", active |-> active]
CircadianPause(paused, until) ==
  [update |-> "CircadianPause", paused |-> paused, until |-> until]
ManualOverrideTtl(until) == [update |-> "ManualOverrideTtl", until |-> until]
JehaPush(level)          == [update |-> "JehaPush", level |-> level]
LightsOnWithPush(level, source) ==
  [update |-> "LightsOnWithPush", level |-> level, source |-> source]
ExternalChange(ttl)      == [update |-> "ExternalChange", ttl |-> ttl]
Alarm(active)            == [update |-> "Alarm", active |-> active]
RestoreLights(snapshot)  == [update |-> "RestoreLights", snapshot |-> snapshot]

Updates ==
  [update : {"LightsOn", "LightsOnWithPush"}, level : MaybeLevel, source : Sources]
    \union {LightsOff}
    \union [update : {"Occupancy"}, occupied : BOOLEAN]
    \union [update : {"NightMode", "Alarm"}, active : BOOLEAN]
    \union [update : {"CircadianPause"}, paused : BOOLEAN, until : MaybeInstant]
    \union [update : {"ManualOverrideTtl"}, until : MaybeInstant]
    \union [update : {"JehaPush"}, level : MaybeLevel]
    \union [update : {"ExternalChange"}, ttl : Nat]
    \union [update : {"RestoreLights"}, snapshot : Room]

-----------------------------------------------------------------------------
(* The arms of the match on RoomStateUpdate in StateManager::run.           *)

\* `if value.is_some() { field = value }`
Or(level, old) == IF level = None THEN old ELSE level

ApplyLightsOn(room, u) ==
  [room EXCEPT !.lightsOn = TRUE, !.current = Or(u.level, @), !.source = u.source]

\* manual_override_until and update_source stay, so that the next lights-on
\* can restore the user's values until the TTL expires
ApplyLightsOff(room) ==
  [room EXCEPT !.lightsOn = FALSE, !.paused = FALSE, !.pausedUntil = None]

ApplyNightMode(room, u, now) ==
  [room EXCEPT !.nightMode = u.active,
               !.nightSince = IF ~u.active THEN None
                              ELSE IF @ = None THEN now ELSE @]

ApplyJehaPush(room, u, now) ==
  [room EXCEPT !.lastPush = now, !.intended = Or(u.level, @)]

ApplyLightsOnWithPush(room, u, now) ==
  [room EXCEPT !.lightsOn = TRUE, !.current = Or(u.level, @),
               !.intended = Or(u.level, @), !.source = u.source, !.lastPush = now]

ApplyExternalChange(room, u, now) ==
  [room EXCEPT !.source = "Manual", !.overrideUntil = now + u.ttl]

\* a changed manual_override_until means that an override landed during the
\* failed publish: its source is kept
ApplyRestoreLights(room, s) ==
  [room EXCEPT !.lightsOn = s.lightsOn,
               !.current = s.current,
               !.source = IF room.overrideUntil = s.overrideUntil THEN s.source ELSE @,
               !.intended = s.intended,
               !.lastPush = s.lastPush,
               !.paused = s.paused,
               !.pausedUntil = s.pausedUntil]

ApplyUpdate(room, u, now) ==
  CASE u.update = "LightsOn"          -> ApplyLightsOn(room, u)
    [] u.update = "LightsOff"         -> ApplyLightsOff(room)
    [] u.update = "Occupancy"         -> [room EXCEPT !.occupancy = u.occupied]
    [] u.update = "NightMode"         -> ApplyNightMode(room, u, now)
    [] u.update = "CircadianPause"    -> [room EXCEPT !.paused = u.paused,
                                                      !.pausedUntil = u.until]
    [] u.update = "ManualOverrideTtl" -> [room EXCEPT !.overrideUntil = u.until]
    [] u.update = "JehaPush"          -> ApplyJehaPush(room, u, now)
    [] u.update = "LightsOnWithPush"  -> ApplyLightsOnWithPush(room, u, now)
    [] u.update = "ExternalChange"    -> ApplyExternalChange(room, u, now)
    [] u.update = "Alarm"             -> [room EXCEPT !.alarm = u.active]
    [] u.update = "RestoreLights"     -> ApplyRestoreLights(room, u.snapshot)

-----------------------------------------------------------------------------
(* Queries on a room.                                                       *)

\* is_circadian_paused: a pause without deadline lasts
IsCircadianPaused(room, now) ==
  room.paused /\ (room.pausedUntil = None \/ now < room.pausedUntil)

\* is_manual_override_active: an override without TTL lasts
IsManualOverrideActive(room, now) ==
  room.source = "Manual" /\ (room.overrideUntil = None \/ now < room.overrideUntil)

=============================================================================
