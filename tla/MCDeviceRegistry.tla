-------------------------- MODULE MCDeviceRegistry --------------------------
(* Small instances of DeviceRegistry for TLC. *)
EXTENDS DeviceRegistry, TLC

CONSTANTS d1, d2, a, b, c

Devices == {d1, d2}
ThreeNames == {a, b, c}
=============================================================================
