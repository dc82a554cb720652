---------------------------- MODULE Calibration -----------------------------
(***************************************************************************)
(* How a brightness and a colour temperature become what each light gets   *)
(* (calibration.rs).  A light has offsets, its own or the defaults of its  *)
(* type, and a range of colour temperatures.  A group command carries a    *)
(* value only if every member that understands it would get the same.      *)
(* Pure operators; colour temperatures are in mired.                       *)
(***************************************************************************)
EXTENDS Integers

CONSTANT None

Fields == {"brightness", "colorTemp"}

\* u8::MAX and u16::MAX
MaxU8  == 255
MaxU16 == 65535

\* Z2mDeviceInfo: what the light supports, and its range of colour temperatures
Device(ranges) ==
  [brightness : BOOLEAN, colorTemp : BOOLEAN, color : BOOLEAN, min : ranges, max : ranges]

Or(value, default) == IF value = None THEN default ELSE value
Clamp(n, lo, hi)   == IF n < lo THEN lo ELSE IF n > hi THEN hi ELSE n

Neutral      == [f \in Fields |-> 0]
Rgbw(device) == device.colorTemp /\ device.color

\* resolve: the light's own offsets, then those of its type, then none
Resolve(i, settings, device) ==
  LET auto == IF settings.auto /\ Rgbw(device) THEN settings.rgbw ELSE Neutral
  IN  IF i \in DOMAIN settings.overrides
      THEN [f \in Fields |-> Or(settings.overrides[i][f], auto[f])]
      ELSE auto

ApplyBrightness(offsets, brightness) == Clamp(brightness + offsets.brightness, 1, 254)

ApplyColorTemp(offsets, mired, device) ==
  Clamp(mired + offsets.colorTemp, Or(device.min, 1), Or(device.max, MaxU16))

\* the range comes before the offset, as clamp_color_temp_for_device
InRange(mired, device) ==
  LET lo == Or(device.min, 0)
      hi == Or(device.max, MaxU16)
  IN  IF lo <= hi THEN Clamp(mired, lo, hi) ELSE mired

\* what the light gets for a target, field by field
Own(i, f, target, settings, device) ==
  LET offsets == Resolve(i, settings, device)
  IN  IF f = "brightness" THEN ApplyBrightness(offsets, target.brightness)
      ELSE ApplyColorTemp(offsets, InRange(target.colorTemp, device), device)

\* the known members that understand a field
Supporting(members, devices, f) ==
  {i \in members \cap DOMAIN devices : devices[i][f]}

Values(members, settings, devices, target, f) ==
  {Own(i, f, target, settings, devices[i]) : i \in Supporting(members, devices, f)}

\* uniform, field by field: the value as given if no known member understands
\* the field, None if members disagree
Carried(members, settings, devices, target, f) ==
  LET values == Values(members, settings, devices, target, f)
  IN  CASE values = {}                                    -> target[f]
        [] values # {} /\ \A v, w \in values : v = w     -> CHOOSE v \in values : TRUE
        [] OTHER                                          -> None

\* what the group command carries
GroupCommand(members, settings, devices, target) ==
  [f \in Fields |-> Carried(members, settings, devices, target, f)]

\* the fields left out of the group command, for each member that needs one
MemberCommands(members, settings, devices, target, group) ==
  LET left(i) == [f \in Fields |->
                   IF group[f] = None /\ i \in Supporting(members, devices, f)
                   THEN Own(i, f, target, settings, devices[i]) ELSE None]
  IN  [i \in {j \in members : \E f \in Fields : left(j)[f] # None} |-> left(i)]

\* mutant of PlanGroupPublish: the group command carries the values as given,
\* and the members that differ are corrected afterwards
PlanGroupPublishFirst(members, settings, devices, target) ==
  LET group == GroupCommand(members, settings, devices, target)
  IN  [group   |-> target,
       members |-> MemberCommands(members, settings, devices, target, group)]

\* plan_group_publish.  A command maps each field to a value or to None.
PlanGroupPublish(members, settings, devices, target) ==
  LET group == GroupCommand(members, settings, devices, target)
  IN  [group   |-> group,
       members |-> MemberCommands(members, settings, devices, target, group)]

=============================================================================
