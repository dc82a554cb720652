--------------------------- MODULE DeviceRegistry ---------------------------
(***************************************************************************)
(* The device side of the StateManager actor (state/mod.rs): the map of    *)
(* devices Zigbee2MQTT (Z2M) announces, the index from friendly names to   *)
(* IEEE addresses, the availability of each device, the bounded buffer of  *)
(* availability reports whose name is not known yet, and the events the    *)
(* actor publishes after each store.                                       *)
(*                                                                         *)
(* Z2M itself is external.  It owns the real device list and the real      *)
(* availability, as retained MQTT topics: a change makes a topic "unsent", *)
(* and the broker delivers an unsent topic, at its current value, in any   *)
(* order relative to the others.  A reconnection makes every topic unsent. *)
(***************************************************************************)
EXTENDS Naturals, Sequences, FiniteSets

CONSTANTS
  Ieee,        \* IEEE addresses, the identity of a device
  Name,        \* Z2M friendly names
  NoName,      \* the friendly name of an address that is not a device
  NoIeee,      \* what the index holds for a name no device has
  DeviceList,  \* the sentinel of the retained bridge/devices topic
  PendingCap,  \* PENDING_AVAILABILITY_CAP
  QueueCap,    \* capacity of the actor's command channel
  NameReuse,   \* may a device get a name the last announcement gave another
  MaxChanges   \* bound: changes of the Z2M network in one behaviour

ASSUME RegistryAssumption ==
  /\ IsFiniteSet(Name)
  /\ NoName \notin Name
  /\ NoIeee \notin Ieee
  /\ DeviceList \notin Ieee
  /\ PendingCap \in Nat
  /\ QueueCap \in Nat \ {0}
  /\ NameReuse \in BOOLEAN
  /\ MaxChanges \in Nat

VARIABLES
  deviceMap,       \* SystemState.device_map: address -> friendly name
  friendlyToIeee,  \* SystemState.friendly_to_ieee
  availability,    \* SystemState.availability
  pending,         \* StateManager.pending_availability: name -> report
  outbox,          \* events of the command just stored, not published yet
  heard,           \* what a subscriber has heard last about each address
  rx,              \* the actor's command channel
  network,         \* external: the friendly name each address really has
  online,          \* external: the status Z2M last decided for each address
  announced,       \* external: the device list the broker delivered last
  unsent,          \* external: retained topics with an undelivered value
  dropped,         \* history: names whose last report the full buffer refused
  changes          \* bound: changes of the network so far

actor   == <<deviceMap, friendlyToIeee, availability, pending, outbox, heard, dropped>>
z2m     == <<network, online, announced, unsent, changes>>
vars    == <<actor, rx, z2m>>

Status  == {"online", "offline"}
Absent  == "absent"
Reports == Status \union {Absent}

\* A device list: Z2M keeps friendly names unique.
UniqueNames(list) ==
  \A c, d \in Ieee : list[c] = list[d] /\ list[c] # NoName => c = d
DeviceMaps == {list \in [Ieee -> Name \union {NoName}] : UniqueNames(list)}

Commands ==
  [type : {"UpdateDevices"}, devices : DeviceMaps]
    \union [type : {"SetDeviceAvailability"}, name : Name, available : Status]

Event == [ieee : Ieee, available : Status]

TypeOK ==
  /\ deviceMap \in DeviceMaps
  /\ friendlyToIeee \in [Name -> Ieee \union {NoIeee}]
  /\ availability \in [Ieee -> Reports]
  /\ pending \in [Name -> Reports]
  /\ outbox \in SUBSET Event
  /\ heard \in [Ieee -> Reports]
  /\ rx \in Seq(Commands)
  /\ network \in DeviceMaps
  /\ online \in [Ieee -> Status]
  /\ announced \in DeviceMaps
  /\ unsent \in SUBSET (Ieee \union {DeviceList})
  /\ dropped \in SUBSET Name
  /\ changes \in Nat

Init ==
  /\ deviceMap = [d \in Ieee |-> NoName]
  /\ friendlyToIeee = [n \in Name |-> NoIeee]
  /\ availability = [d \in Ieee |-> Absent]
  /\ pending = [n \in Name |-> Absent]
  /\ outbox = {}
  /\ heard = [d \in Ieee |-> Absent]
  /\ rx = <<>>
  /\ network \in DeviceMaps
  /\ online \in [Ieee -> Status]
  /\ announced = [d \in Ieee |-> NoName]
  /\ unsent = {d \in Ieee : network[d] # NoName} \union {DeviceList}
  /\ dropped = {}
  /\ changes = 0

-----------------------------------------------------------------------------
(* The actor: one iteration of the loop of StateManager::run.  The command  *)
(* is applied to a copy, the copy is stored, and only then are the events   *)
(* of that command published; the next command waits for all of that.      *)

Buffered == {n \in Name : pending[n] # Absent}

\* mutant of IndexOf: the new names are added to the old index
IndexOfKeepsOldNames(list) ==
  [n \in Name |-> IF \E d \in Ieee : list[d] = n
                  THEN CHOOSE d \in Ieee : list[d] = n
                  ELSE friendlyToIeee[n]]

\* friendly_to_ieee, rebuilt from the devices of an announcement
IndexOf(list) ==
  [n \in Name |-> IF \E d \in Ieee : list[d] = n
                  THEN CHOOSE d \in Ieee : list[d] = n
                  ELSE NoIeee]

\* the buffered report the announcement resolves for an address, if any
ReportFor(d, list) ==
  IF list[d] = NoName THEN Absent ELSE pending[list[d]]

\* the availability map after an announcement: forget the addresses that
\* left, take the buffered reports that now resolve
AvailabilityAfter(list) ==
  [d \in Ieee |-> IF list[d] = NoName THEN Absent
                  ELSE IF ReportFor(d, list) # Absent THEN ReportFor(d, list)
                  ELSE availability[d]]

\* mutant of ResolvedEvents: no event for a buffered report
ResolvedEventsForgotten(list) == {}

ResolvedEvents(list) ==
  {e \in Event : e.available = ReportFor(e.ieee, list)}

\* mutant of PendingAfter: a report that resolves is applied but not drained
PendingAfterNotDrained(list) == pending

\* the buffer after an announcement: what still does not resolve stays
PendingAfter(list) ==
  [n \in Name |-> IF \E d \in Ieee : list[d] = n THEN Absent ELSE pending[n]]

UpdateDevices(list) ==
  /\ deviceMap' = list
  /\ friendlyToIeee' = IndexOf(list)
  /\ availability' = AvailabilityAfter(list)
  /\ outbox' = ResolvedEvents(list)
  /\ pending' = PendingAfter(list)
  /\ UNCHANGED dropped

\* a report for a known name: stored, and an event only when it is a change
ResolvedReport(n, status) ==
  LET d == friendlyToIeee[n] IN
  /\ d # NoIeee
  /\ availability' = [availability EXCEPT ![d] = status]
  /\ outbox' = IF availability[d] = status THEN {}
               ELSE {[ieee |-> d, available |-> status]}
  /\ dropped' = dropped \ {n}
  /\ UNCHANGED <<deviceMap, friendlyToIeee, pending>>

\* mutant of BufferedReport: the first report of a name wins
BufferedReportKeepsFirst(n, status) ==
  /\ friendlyToIeee[n] = NoIeee
  /\ n \in Buffered \/ Cardinality(Buffered) < PendingCap
  /\ pending' = [pending EXCEPT ![n] = IF @ = Absent THEN status ELSE @]
  /\ dropped' = dropped \ {n}
  /\ UNCHANGED <<deviceMap, friendlyToIeee, availability, outbox>>

\* a report for an unknown name: buffered while there is room
BufferedReport(n, status) ==
  /\ friendlyToIeee[n] = NoIeee
  /\ n \in Buffered \/ Cardinality(Buffered) < PendingCap
  /\ pending' = [pending EXCEPT ![n] = status]
  /\ dropped' = dropped \ {n}
  /\ UNCHANGED <<deviceMap, friendlyToIeee, availability, outbox>>

\* mutant of DroppedReport: the actor waits for room instead of dropping
DroppedReportWaits(n) ==
  /\ FALSE
  /\ n \in dropped'

\* the buffer is full: the report is dropped
DroppedReport(n) ==
  /\ friendlyToIeee[n] = NoIeee
  /\ n \notin Buffered
  /\ Cardinality(Buffered) >= PendingCap
  /\ dropped' = dropped \union {n}
  /\ UNCHANGED <<deviceMap, friendlyToIeee, availability, pending, outbox>>

SetDeviceAvailability(n, status) ==
  \/ ResolvedReport(n, status)
  \/ BufferedReport(n, status)
  \/ DroppedReport(n)

ApplyUpdateDevices ==
  /\ outbox = {}
  /\ rx # <<>>
  /\ Head(rx).type = "UpdateDevices"
  /\ rx' = Tail(rx)
  /\ UpdateDevices(Head(rx).devices)
  /\ UNCHANGED <<heard, z2m>>

ApplySetDeviceAvailability ==
  /\ outbox = {}
  /\ rx # <<>>
  /\ Head(rx).type = "SetDeviceAvailability"
  /\ rx' = Tail(rx)
  /\ SetDeviceAvailability(Head(rx).name, Head(rx).available)
  /\ UNCHANGED <<heard, z2m>>

\* availability_events are published one by one, after the store; those of
\* one announcement come in the order of a hash map
PublishEvent(e) ==
  /\ e \in outbox
  /\ outbox' = outbox \ {e}
  /\ heard' = [heard EXCEPT ![e.ieee] = e.available]
  /\ UNCHANGED <<deviceMap, friendlyToIeee, availability, pending, dropped, rx, z2m>>

-----------------------------------------------------------------------------
(* The MQTT loop: it handles one message at a time and awaits the send, so  *)
(* the order of delivery is the order of the commands.                      *)

Enqueue(cmd) ==
  /\ Len(rx) < QueueCap
  /\ rx' = Append(rx, cmd)

HandleBridgeDevices ==
  /\ DeviceList \in unsent
  /\ Enqueue([type |-> "UpdateDevices", devices |-> network])
  /\ unsent' = unsent \ {DeviceList}
  /\ announced' = network
  /\ UNCHANGED <<actor, network, online, changes>>

HandleAvailability(d) ==
  /\ d \in unsent
  /\ network[d] # NoName
  /\ Enqueue([type |-> "SetDeviceAvailability",
              name |-> network[d], available |-> online[d]])
  /\ unsent' = unsent \ {d}
  /\ UNCHANGED <<actor, network, online, announced, changes>>

\* A message on <name>/availability for a name no device has now: the empty
\* payload that clears the topic of an old name reads as "offline", and the
\* subscription is a wildcard.
HandleForeignAvailability(n) ==
  /\ \A d \in Ieee : network[d] # n
  /\ changes < MaxChanges
  /\ changes' = changes + 1
  /\ Enqueue([type |-> "SetDeviceAvailability", name |-> n, available |-> "offline"])
  /\ UNCHANGED <<actor, network, online, announced, unsent>>

-----------------------------------------------------------------------------
(* Z2M and the broker (external).                                           *)

Change ==
  /\ changes < MaxChanges
  /\ changes' = changes + 1

\* a device joins, or is renamed: its list and its status are published anew
JoinOrRename(d, n) ==
  /\ Change
  /\ \A c \in Ieee : network[c] # n
  /\ NameReuse \/ \A c \in Ieee \ {d} : announced[c] # n
  /\ network' = [network EXCEPT ![d] = n]
  /\ unsent' = unsent \union {d, DeviceList}
  /\ UNCHANGED <<actor, rx, online, announced>>

Leave(d) ==
  /\ Change
  /\ network[d] # NoName
  /\ network' = [network EXCEPT ![d] = NoName]
  /\ unsent' = (unsent \ {d}) \union {DeviceList}
  /\ UNCHANGED <<actor, rx, online, announced>>

Flip(d) ==
  /\ Change
  /\ network[d] # NoName
  /\ online' = [online EXCEPT ![d] = IF @ = "online" THEN "offline" ELSE "online"]
  /\ unsent' = unsent \union {d}
  /\ UNCHANGED <<actor, rx, network, announced>>

\* after a reconnection the broker sends every retained topic again; Z2M also
\* republishes availability periodically
Republish ==
  /\ Change
  /\ unsent' = {d \in Ieee : network[d] # NoName} \union {DeviceList}
  /\ UNCHANGED <<actor, rx, network, online, announced>>

Next ==
  \/ ApplyUpdateDevices
  \/ ApplySetDeviceAvailability
  \/ \E e \in outbox : PublishEvent(e)
  \/ HandleBridgeDevices
  \/ \E d \in Ieee : HandleAvailability(d) \/ Leave(d) \/ Flip(d)
  \/ \E d \in Ieee, n \in Name : JoinOrRename(d, n)
  \/ \E n \in Name : HandleForeignAvailability(n)
  \/ Republish

\* The actor and the MQTT loop are tokio tasks that run until shutdown, and
\* the broker delivers what is retained; what the network does is free.
Fairness ==
  /\ WF_vars(ApplyUpdateDevices)
  /\ WF_vars(ApplySetDeviceAvailability)
  /\ WF_vars(\E e \in outbox : PublishEvent(e))
  /\ WF_vars(HandleBridgeDevices)
  /\ \A d \in Ieee : WF_vars(HandleAvailability(d))

Spec == Init /\ [][Next]_vars
FairSpec == Spec /\ Fairness

-----------------------------------------------------------------------------
(* Properties.                                                              *)

\* The index and the device map always describe the same devices: a name
\* resolves to an address exactly when that address carries the name, so a
\* report never reaches another device than the one it names.
IndexMatchesDevices ==
  \A n \in Name, d \in Ieee : friendlyToIeee[n] = d <=> deviceMap[d] = n

\* Availability is kept for announced devices alone: a device that left is
\* forgotten, and is_device_available answers "available" when it comes back.
AvailabilityOnlyOfDevices ==
  \A d \in Ieee : availability[d] # Absent => deviceMap[d] # NoName

\* A buffered report waits for a name that does not resolve: no report stays
\* in the buffer once its device is known, where it could be applied later
\* over a newer one.
PendingUnresolved ==
  \A n \in Buffered : friendlyToIeee[n] = NoIeee

\* The buffer of reports for unknown names never outgrows its cap, whatever
\* the wildcard subscription delivers.
PendingBounded == Cardinality(Buffered) <= PendingCap

\* Events follow the store: between two commands every subscriber that kept
\* up has heard the stored status of every device, and an event still to be
\* published carries the value that is already visible in shared state.
EventsFollowStore ==
  \A d \in Ieee :
    /\ \A e \in outbox : e.ieee = d => availability[d] = e.available
    /\ availability[d] # Absent /\ (\A e \in outbox : e.ieee # d)
         => heard[d] = availability[d]

\* What makes these inductive: the registry is sound between any two steps of the
\* actor, whatever the order of lists, renames, departures and reports.
IInv ==
  /\ TypeOK
  /\ IndexMatchesDevices
  /\ AvailabilityOnlyOfDevices
  /\ PendingUnresolved
  /\ PendingBounded
  /\ EventsFollowStore

\* When everything Z2M retains has been delivered and applied, the registry
\* holds the real devices and the real status of each one, whatever the order
\* of announcements, reports, renames and stale topics was; only a name whose
\* report the full buffer refused may be missing.
Settled == unsent = {} /\ rx = <<>> /\ outbox = {}
ConvergesToNetwork ==
  Settled =>
    /\ deviceMap = network
    /\ \A d \in Ieee :
         network[d] # NoName /\ network[d] \notin dropped
           => availability[d] = online[d]

\* Once the network is quiet (its changes are bounded here) every topic is
\* eventually delivered, applied and announced, and stays so: a full buffer
\* drops a report rather than block the actor and all its other commands.
EventuallySettled == <>[]Settled

=============================================================================
