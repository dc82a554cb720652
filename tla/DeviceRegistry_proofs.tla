------------------------ MODULE DeviceRegistry_proofs ------------------------
(***************************************************************************)
(* Proofs about DeviceRegistry, for every set of devices and names, every  *)
(* cap and every channel capacity.                                         *)
(*                                                                         *)
(* The safety invariants are inductive together, on top of TypeOK (which   *)
(* carries the uniqueness of names through the command channel):           *)
(*   - IndexMatchesDevices tells PendingUnresolved which names resolve;    *)
(*   - EventsFollowStore needs that the actor takes no command while an    *)
(*     event of the last one is unpublished, so its outbox is empty there. *)
(* That the registry converges needs more (ConvInv): for every device,     *)
(* what Z2M last said of it is still to be delivered, in the channel, in   *)
(* the buffer or stored, and no command behind it takes it back.           *)
(***************************************************************************)
EXTENDS DeviceRegistry, FiniteSetTheorems, TLAPS

-----------------------------------------------------------------------------
(* Lemmas about the operators the actor is built from.                      *)

\* The sentinel of "no report" is not a status.
LEMMA AbsentIsNoStatus == Absent \notin Status
  BY DEF Absent, Status

\* The index built from an announcement has the type of the index and
\* resolves a name exactly to the address that carries it.
LEMMA IndexOfCorrect ==
  ASSUME NEW list \in DeviceMaps
  PROVE  /\ IndexOf(list) \in [Name -> Ieee \union {NoIeee}]
         /\ \A n \in Name, d \in Ieee : IndexOf(list)[n] = d <=> list[d] = n
<1>1. ASSUME NEW n \in Name, NEW d \in Ieee
      PROVE  IndexOf(list)[n] = d <=> list[d] = n
  <2>1. IndexOf(list)[n] = IF \E x \in Ieee : list[x] = n
                           THEN CHOOSE x \in Ieee : list[x] = n
                           ELSE NoIeee
    BY DEF IndexOf
  <2>2. CASE \E x \in Ieee : list[x] = n
    <3>1. /\ IndexOf(list)[n] \in Ieee
          /\ list[IndexOf(list)[n]] = n
      BY <2>1, <2>2
    <3>2. n # NoName
      BY RegistryAssumption DEF RegistryAssumption
    <3> QED
      BY <3>1, <3>2 DEF DeviceMaps, UniqueNames
  <2>3. CASE ~ \E x \in Ieee : list[x] = n
    BY <2>1, <2>3, RegistryAssumption DEF RegistryAssumption
  <2> QED
    BY <2>2, <2>3
<1>2. IndexOf(list) \in [Name -> Ieee \union {NoIeee}]
  BY DEF IndexOf
<1> QED
  BY <1>1, <1>2

\* What an announcement resolves for an address is a report, and Absent for an
\* address that is no device.
LEMMA ReportForType ==
  ASSUME TypeOK, NEW list \in DeviceMaps, NEW d \in Ieee
  PROVE  /\ ReportFor(d, list) \in Reports
         /\ list[d] = NoName => ReportFor(d, list) = Absent
<1>1. list[d] \in Name \union {NoName}
  BY DEF DeviceMaps
<1> QED
  BY <1>1 DEF ReportFor, TypeOK, Reports

-----------------------------------------------------------------------------
(* Type correctness.                                                        *)

\* Names stay unique in Z2M's own list under a join or a rename.
LEMMA RenameKeepsUnique ==
  ASSUME NEW list \in DeviceMaps, NEW d \in Ieee, NEW n \in Name,
         \A c \in Ieee : list[c] # n
  PROVE  [list EXCEPT ![d] = n] \in DeviceMaps
  BY DEF DeviceMaps, UniqueNames

\* A device that leaves keeps the other names unique.
LEMMA LeaveKeepsUnique ==
  ASSUME NEW list \in DeviceMaps, NEW d \in Ieee
  PROVE  [list EXCEPT ![d] = NoName] \in DeviceMaps
  BY DEF DeviceMaps, UniqueNames

LEMMA InitTypeOK == Init => TypeOK
<1> SUFFICES ASSUME Init PROVE TypeOK
  OBVIOUS
<1>1. [d \in Ieee |-> NoName] \in DeviceMaps
  BY DEF DeviceMaps, UniqueNames
<1>2. <<>> \in Seq(Commands)
  OBVIOUS
<1> QED
  BY <1>1, <1>2 DEF Init, TypeOK, Reports

LEMMA StepTypeOK == TypeOK /\ [Next]_vars => TypeOK'
<1> SUFFICES ASSUME TypeOK, [Next]_vars PROVE TypeOK'
  OBVIOUS
<1>1. CASE ApplyUpdateDevices
  <2> DEFINE list == Head(rx).devices
  <2>1. /\ list \in DeviceMaps
        /\ rx' \in Seq(Commands)
    <3>1. Head(rx) \in Commands
      BY <1>1 DEF ApplyUpdateDevices, TypeOK
    <3>2. Head(rx).type = "UpdateDevices"
      BY <1>1 DEF ApplyUpdateDevices
    <3>3. list \in DeviceMaps
      BY <3>1, <3>2 DEF Commands
    <3> QED
      BY <1>1, <3>3 DEF ApplyUpdateDevices, TypeOK
  <2>2. friendlyToIeee' \in [Name -> Ieee \union {NoIeee}]
    BY <1>1, <2>1, IndexOfCorrect DEF ApplyUpdateDevices, UpdateDevices
  <2>3. availability' \in [Ieee -> Reports]
    <3>1. \A d \in Ieee : /\ ReportFor(d, list) \in Reports
                          /\ availability[d] \in Reports
                          /\ Absent \in Reports
      BY <2>1, ReportForType DEF TypeOK, Reports
    <3>2. AvailabilityAfter(list) \in [Ieee -> Reports]
      BY <3>1 DEF AvailabilityAfter
    <3> QED
      BY <1>1, <3>2 DEF ApplyUpdateDevices, UpdateDevices
  <2>4. pending' \in [Name -> Reports]
    BY <1>1 DEF ApplyUpdateDevices, UpdateDevices, PendingAfter, TypeOK, Reports
  <2>5. outbox' \in SUBSET Event
    BY <1>1 DEF ApplyUpdateDevices, UpdateDevices, ResolvedEvents
  <2> QED
    BY <1>1, <2>1, <2>2, <2>3, <2>4, <2>5
    DEF ApplyUpdateDevices, UpdateDevices, TypeOK, z2m
<1>2. CASE ApplySetDeviceAvailability
  <2> DEFINE n == Head(rx).name
             status == Head(rx).available
  <2>1. /\ n \in Name
        /\ status \in Status
        /\ rx' \in Seq(Commands)
    <3>1. Head(rx) \in Commands
      BY <1>2 DEF ApplySetDeviceAvailability, TypeOK
    <3>2. Head(rx).type = "SetDeviceAvailability"
      BY <1>2 DEF ApplySetDeviceAvailability
    <3>3. n \in Name /\ status \in Status
      BY <3>1, <3>2 DEF Commands
    <3> QED
      BY <1>2, <3>3 DEF ApplySetDeviceAvailability, TypeOK
  <2>2. SetDeviceAvailability(n, status) /\ UNCHANGED <<heard, z2m>>
    BY <1>2 DEF ApplySetDeviceAvailability
  <2>3. CASE ResolvedReport(n, status)
    <3>1. friendlyToIeee[n] \in Ieee
      BY <2>1, <2>3 DEF ResolvedReport, TypeOK
    <3>2. [ieee |-> friendlyToIeee[n], available |-> status] \in Event
      BY <2>1, <3>1 DEF Event
    <3> QED
      BY <2>1, <2>2, <2>3, <3>1, <3>2 DEF ResolvedReport, TypeOK, Reports, z2m
  <2>4. CASE BufferedReport(n, status)
    BY <2>1, <2>2, <2>4 DEF BufferedReport, TypeOK, Reports, z2m
  <2>5. CASE DroppedReport(n)
    BY <2>1, <2>2, <2>5 DEF DroppedReport, TypeOK, z2m
  <2> QED
    BY <2>2, <2>3, <2>4, <2>5 DEF SetDeviceAvailability
<1>3. ASSUME NEW e \in outbox, PublishEvent(e)
      PROVE  TypeOK'
  <2>1. e \in Event
    BY <1>3 DEF TypeOK
  <2> QED
    BY <1>3, <2>1 DEF PublishEvent, TypeOK, Event, Reports, z2m
<1>4. CASE HandleBridgeDevices
  <2>1. [type |-> "UpdateDevices", devices |-> network] \in Commands
    BY DEF TypeOK, Commands
  <2> QED
    BY <1>4, <2>1 DEF HandleBridgeDevices, Enqueue, TypeOK, actor
<1>5. ASSUME NEW d \in Ieee, HandleAvailability(d)
      PROVE  TypeOK'
  <2>1. network[d] \in Name
    BY <1>5 DEF HandleAvailability, TypeOK, DeviceMaps
  <2>2. [type |-> "SetDeviceAvailability",
         name |-> network[d], available |-> online[d]] \in Commands
    BY <2>1 DEF TypeOK, Commands
  <2> QED
    BY <1>5, <2>2 DEF HandleAvailability, Enqueue, TypeOK, actor
<1>6. ASSUME NEW d \in Ieee, Leave(d) \/ Flip(d)
      PROVE  TypeOK'
  <2>1. CASE Leave(d)
    <3>1. network' \in DeviceMaps
      BY <2>1, LeaveKeepsUnique DEF Leave, TypeOK
    <3> QED
      BY <2>1, <3>1 DEF Leave, Change, TypeOK, actor
  <2>2. CASE Flip(d)
    BY <2>2 DEF Flip, Change, TypeOK, Status, actor
  <2> QED
    BY <1>6, <2>1, <2>2
<1>7. ASSUME NEW d \in Ieee, NEW n \in Name, JoinOrRename(d, n)
      PROVE  TypeOK'
  <2>1. network' \in DeviceMaps
    BY <1>7, RenameKeepsUnique DEF JoinOrRename, TypeOK
  <2> QED
    BY <1>7, <2>1 DEF JoinOrRename, Change, TypeOK, actor
<1>8. ASSUME NEW n \in Name, HandleForeignAvailability(n)
      PROVE  TypeOK'
  <2>1. [type |-> "SetDeviceAvailability", name |-> n, available |-> "offline"]
          \in Commands
    BY DEF Commands, Status
  <2> QED
    BY <1>8, <2>1 DEF HandleForeignAvailability, Enqueue, TypeOK, actor
<1>9. CASE Republish
  BY <1>9 DEF Republish, Change, TypeOK, actor
<1>10. CASE UNCHANGED vars
  BY <1>10 DEF vars, actor, z2m, TypeOK
<1> QED
  BY <1>1, <1>2, <1>3, <1>4, <1>5, <1>6, <1>7, <1>8, <1>9, <1>10 DEF Next

\* The state of the registry, the channel and the events always have their
\* types; in particular every announcement on its way has unique names.
THEOREM TypeCorrect == Spec => []TypeOK
<1>1. QED
  BY InitTypeOK, StepTypeOK, PTL DEF Spec

-----------------------------------------------------------------------------
(* The safety invariants.                                                   *)

LEMMA InitIInv == Init => IInv
<1> SUFFICES ASSUME Init PROVE IInv
  OBVIOUS
<1>1. TypeOK
  BY InitTypeOK
<1>2. IndexMatchesDevices
  BY RegistryAssumption DEF RegistryAssumption, Init, IndexMatchesDevices
<1>3. AvailabilityOnlyOfDevices /\ EventsFollowStore
  BY DEF Init, AvailabilityOnlyOfDevices, EventsFollowStore
<1>4. Buffered = {}
  BY DEF Init, Buffered
<1>5. PendingUnresolved /\ PendingBounded
  BY <1>4, FS_EmptySet, RegistryAssumption
  DEF RegistryAssumption, PendingUnresolved, PendingBounded
<1> QED
  BY <1>1, <1>2, <1>3, <1>5 DEF IInv

\* An announcement keeps the invariants: the index and the devices are
\* replaced together, and the buffer only shrinks.
LEMMA AnnouncementKeepsIInv ==
  ASSUME IInv, ApplyUpdateDevices
  PROVE  /\ IndexMatchesDevices' /\ AvailabilityOnlyOfDevices'
         /\ PendingUnresolved' /\ PendingBounded' /\ EventsFollowStore'
<1> DEFINE list == Head(rx).devices
<1>1. list \in DeviceMaps
  <2>1. Head(rx) \in Commands
    BY DEF ApplyUpdateDevices, IInv, TypeOK
  <2>2. Head(rx).type = "UpdateDevices"
    BY DEF ApplyUpdateDevices
  <2> QED
    BY <2>1, <2>2 DEF Commands
<1>2. /\ UpdateDevices(list)
      /\ outbox = {}
      /\ heard' = heard
  BY DEF ApplyUpdateDevices
<1> HIDE DEF list
<1>3. IndexMatchesDevices'
  BY <1>1, <1>2, IndexOfCorrect DEF UpdateDevices, IndexMatchesDevices
<1>4. AvailabilityOnlyOfDevices'
  BY <1>2 DEF UpdateDevices, AvailabilityAfter, AvailabilityOnlyOfDevices
<1>5. PendingUnresolved'
  <2> SUFFICES ASSUME NEW n \in Name, pending'[n] # Absent
               PROVE  friendlyToIeee'[n] = NoIeee
    BY DEF PendingUnresolved, Buffered
  <2>1. ~ \E d \in Ieee : list[d] = n
    BY <1>2 DEF UpdateDevices, PendingAfter
  <2> QED
    BY <1>2, <2>1 DEF UpdateDevices, IndexOf
<1>6. PendingBounded'
  <2>1. Buffered' \subseteq Buffered
    BY <1>2 DEF UpdateDevices, PendingAfter, Buffered
  <2>2. IsFiniteSet(Buffered)
    BY FS_Subset, RegistryAssumption DEF RegistryAssumption, Buffered
  <2>3. /\ Cardinality(Buffered') <= Cardinality(Buffered)
        /\ Cardinality(Buffered') \in Nat
        /\ Cardinality(Buffered) \in Nat
    BY <2>1, <2>2, FS_Subset, FS_CardinalityType
  <2> QED
    BY <2>3, RegistryAssumption DEF RegistryAssumption, IInv, PendingBounded
<1>7. EventsFollowStore'
  <2> SUFFICES ASSUME NEW d \in Ieee
               PROVE  /\ \A e \in outbox' : e.ieee = d => availability'[d] = e.available
                      /\ availability'[d] # Absent /\ (\A e \in outbox' : e.ieee # d)
                           => heard'[d] = availability'[d]
    BY DEF EventsFollowStore
  <2>1. /\ ReportFor(d, list) \in Reports
        /\ list[d] = NoName => ReportFor(d, list) = Absent
    BY <1>1, ReportForType DEF IInv
  <2>2. availability'[d] = IF list[d] = NoName THEN Absent
                           ELSE IF ReportFor(d, list) # Absent THEN ReportFor(d, list)
                           ELSE availability[d]
    BY <1>2 DEF UpdateDevices, AvailabilityAfter
  <2>3. outbox' = {e \in Event : e.available = ReportFor(e.ieee, list)}
    BY <1>2 DEF UpdateDevices, ResolvedEvents
  <2>4. ASSUME NEW e \in outbox', e.ieee = d
        PROVE  availability'[d] = e.available
    BY <2>1, <2>2, <2>3, <2>4, AbsentIsNoStatus DEF Event
  <2>5. ASSUME availability'[d] # Absent, \A e \in outbox' : e.ieee # d
        PROVE  heard'[d] = availability'[d]
    <3>1. ReportFor(d, list) = Absent
      <4> SUFFICES ASSUME ReportFor(d, list) # Absent PROVE FALSE
        OBVIOUS
      <4> DEFINE e == [ieee |-> d, available |-> ReportFor(d, list)]
      <4>1. e \in Event /\ e.ieee = d /\ e.available = ReportFor(d, list)
        BY <2>1 DEF Event, Reports
      <4> QED
        BY <2>3, <2>5, <4>1
    <3>2. availability'[d] = availability[d]
      BY <2>2, <2>5, <3>1
    <3> QED
      BY <1>2, <2>5, <3>2 DEF IInv, EventsFollowStore
  <2> QED
    BY <2>4, <2>5
<1> QED
  BY <1>3, <1>4, <1>5, <1>6, <1>7

\* A report keeps the invariants: a resolved one touches the device of its
\* name, a buffered one a name that does not resolve, within the cap.
LEMMA ReportKeepsIInv ==
  ASSUME IInv, ApplySetDeviceAvailability
  PROVE  /\ IndexMatchesDevices' /\ AvailabilityOnlyOfDevices'
         /\ PendingUnresolved' /\ PendingBounded' /\ EventsFollowStore'
<1> DEFINE n == Head(rx).name
           status == Head(rx).available
<1>1. n \in Name /\ status \in Status
  <2>1. Head(rx) \in Commands
    BY DEF ApplySetDeviceAvailability, IInv, TypeOK
  <2>2. Head(rx).type = "SetDeviceAvailability"
    BY DEF ApplySetDeviceAvailability
  <2> QED
    BY <2>1, <2>2 DEF Commands
<1>2. /\ SetDeviceAvailability(n, status)
      /\ outbox = {}
      /\ heard' = heard
  BY DEF ApplySetDeviceAvailability
<1> HIDE DEF n, status
<1> USE DEF IInv
<1>3. CASE ResolvedReport(n, status)
  <2> DEFINE d == friendlyToIeee[n]
  <2>1. d \in Ieee /\ deviceMap[d] = n
    BY <1>1, <1>3 DEF ResolvedReport, TypeOK, IndexMatchesDevices
  <2>2. /\ UNCHANGED <<deviceMap, friendlyToIeee, pending>>
        /\ availability' = [availability EXCEPT ![d] = status]
        /\ outbox' = IF availability[d] = status THEN {}
                     ELSE {[ieee |-> d, available |-> status]}
    BY <1>3 DEF ResolvedReport
  <2> HIDE DEF d
  <2>3. IndexMatchesDevices' /\ PendingUnresolved' /\ PendingBounded'
    BY <2>2 DEF IndexMatchesDevices, PendingUnresolved, PendingBounded, Buffered
  <2>4. AvailabilityOnlyOfDevices'
    <3>1. deviceMap[d] # NoName
      BY <1>1, <2>1, RegistryAssumption DEF RegistryAssumption
    <3> QED
      BY <2>2, <3>1 DEF AvailabilityOnlyOfDevices, TypeOK
  <2>5. EventsFollowStore'
    <3> SUFFICES ASSUME NEW x \in Ieee
                 PROVE  /\ \A e \in outbox' : e.ieee = x => availability'[x] = e.available
                        /\ availability'[x] # Absent /\ (\A e \in outbox' : e.ieee # x)
                             => heard'[x] = availability'[x]
      BY DEF EventsFollowStore
    <3>1. availability'[x] = IF x = d THEN status ELSE availability[x]
      BY <2>1, <2>2 DEF TypeOK
    <3>2. availability[x] # Absent => heard[x] = availability[x]
      BY <1>2 DEF EventsFollowStore
    <3>3. CASE availability[d] = status
      BY <1>2, <2>2, <3>1, <3>2, <3>3
    <3>4. CASE availability[d] # status
      <4>1. outbox' = {[ieee |-> d, available |-> status]}
        BY <2>2, <3>4
      <4>2. CASE x = d
        BY <3>1, <4>1, <4>2
      <4>3. CASE x # d
        BY <1>2, <3>1, <3>2, <4>1, <4>3
      <4> QED
        BY <4>2, <4>3
    <3> QED
      BY <3>3, <3>4
  <2> QED
    BY <2>3, <2>4, <2>5
<1>4. CASE BufferedReport(n, status)
  <2>1. /\ UNCHANGED <<deviceMap, friendlyToIeee, availability, outbox>>
        /\ pending' = [pending EXCEPT ![n] = status]
        /\ friendlyToIeee[n] = NoIeee
        /\ n \in Buffered \/ Cardinality(Buffered) < PendingCap
    BY <1>4 DEF BufferedReport
  <2>2. Buffered' = Buffered \union {n}
    BY <1>1, <2>1, AbsentIsNoStatus DEF Buffered, TypeOK
  <2>3. PendingUnresolved'
    BY <2>1, <2>2 DEF PendingUnresolved
  <2>4. PendingBounded'
    <3>1. CASE n \in Buffered
      <4>1. Buffered' = Buffered
        BY <2>2, <3>1
      <4> QED
        BY <4>1 DEF PendingBounded
    <3>2. CASE n \notin Buffered
      <4>1. IsFiniteSet(Buffered)
        BY FS_Subset, RegistryAssumption DEF RegistryAssumption, Buffered
      <4>2. Cardinality(Buffered') = Cardinality(Buffered) + 1
        BY <2>2, <3>2, <4>1, FS_AddElement
      <4>3. Cardinality(Buffered) \in Nat
        BY <4>1, FS_CardinalityType
      <4> QED
        BY <2>1, <3>2, <4>2, <4>3, RegistryAssumption
        DEF RegistryAssumption, PendingBounded
    <3> QED
      BY <3>1, <3>2
  <2>5. IndexMatchesDevices' /\ AvailabilityOnlyOfDevices' /\ EventsFollowStore'
    BY <1>2, <2>1
    DEF IndexMatchesDevices, AvailabilityOnlyOfDevices, EventsFollowStore
  <2> QED
    BY <2>3, <2>4, <2>5
<1>5. CASE DroppedReport(n)
  BY <1>2, <1>5
  DEF DroppedReport, IndexMatchesDevices, AvailabilityOnlyOfDevices,
      PendingUnresolved, PendingBounded, Buffered, EventsFollowStore
<1> QED
  BY <1>2, <1>3, <1>4, <1>5 DEF SetDeviceAvailability

LEMMA StepIInv == IInv /\ [Next]_vars => IInv'
<1> SUFFICES ASSUME IInv, [Next]_vars PROVE IInv'
  OBVIOUS
<1>1. TypeOK'
  BY StepTypeOK DEF IInv
<1>2. CASE ApplyUpdateDevices
  BY <1>1, <1>2, AnnouncementKeepsIInv DEF IInv
<1>3. CASE ApplySetDeviceAvailability
  BY <1>1, <1>3, ReportKeepsIInv DEF IInv
<1>4. ASSUME NEW e \in outbox, PublishEvent(e)
      PROVE  IInv'
  <2>1. e \in Event /\ e.ieee \in Ieee
    BY DEF IInv, TypeOK, Event
  <2>2. EventsFollowStore'
    BY <1>4, <2>1 DEF PublishEvent, IInv, EventsFollowStore, TypeOK
  <2> QED
    BY <1>1, <1>4, <2>2
    DEF PublishEvent, IInv, IndexMatchesDevices, AvailabilityOnlyOfDevices,
        PendingUnresolved, PendingBounded, Buffered
<1>5. CASE UNCHANGED actor
  <2>1. UNCHANGED <<deviceMap, friendlyToIeee, availability, pending, outbox, heard>>
    BY <1>5 DEF actor
  <2> QED
    BY <1>1, <2>1
    DEF IInv, IndexMatchesDevices, AvailabilityOnlyOfDevices,
        PendingUnresolved, PendingBounded, Buffered, EventsFollowStore
<1>6. \/ ApplyUpdateDevices
      \/ ApplySetDeviceAvailability
      \/ \E e \in outbox : PublishEvent(e)
      \/ UNCHANGED actor
  BY DEF Next, vars, HandleBridgeDevices, HandleAvailability, Leave, Flip,
         JoinOrRename, HandleForeignAvailability, Republish
<1> QED
  BY <1>2, <1>3, <1>4, <1>5, <1>6

\* The strengthening is an invariant of the registry.
THEOREM RegistryInvariant == Spec => []IInv
<1>1. QED
  BY InitIInv, StepIInv, PTL DEF Spec

\* For every set of devices and names: the index always resolves a name to
\* the device that carries it, so no report reaches another device.
THEOREM IndexCorrect == Spec => []IndexMatchesDevices
<1>1. IInv => IndexMatchesDevices
  BY DEF IInv
<1> QED
  BY <1>1, RegistryInvariant, PTL

\* A report is buffered only while its name does not resolve, and the buffer
\* never outgrows the cap: unknown names cannot exhaust the actor's memory.
THEOREM BufferCorrect == Spec => [](PendingUnresolved /\ PendingBounded)
<1>1. IInv => PendingUnresolved /\ PendingBounded
  BY DEF IInv
<1> QED
  BY <1>1, RegistryInvariant, PTL

\* Subscribers never hear a status that shared state does not show yet, and
\* between commands they have heard the status of every device.
THEOREM EventsCorrect == Spec => [](EventsFollowStore /\ AvailabilityOnlyOfDevices)
<1>1. IInv => EventsFollowStore /\ AvailabilityOnlyOfDevices
  BY DEF IInv
<1> QED
  BY <1>1, RegistryInvariant, PTL

-----------------------------------------------------------------------------
(* The registry converges, as long as a device never gets a name that the   *)
(* last announcement gave another: the command that will bring the registry *)
(* up to date is on its way, and nothing behind it will spoil it again.     *)

IsList(cmd)      == cmd.type = "UpdateDevices"
IsReport(cmd, n) == cmd.type = "SetDeviceAvailability" /\ cmd.name = n

NoListIn(a, b) == \A i \in a..b : ~IsList(rx[i])

\* once the actor has caught up it has the device list announced last
ListOnItsWay ==
  \/ \E k \in 1..Len(rx) :
       IsList(rx[k]) /\ rx[k].devices = announced /\ NoListIn(k + 1, Len(rx))
  \/ deviceMap = announced /\ NoListIn(1, Len(rx))

\* a list in which nobody but d has the name n
LeavesTo(list, d, n) == \A c \in Ieee : list[c] = n => c = d

\* so is the list by which the actor will apply its command number i
LeftTo(i, d, n) ==
  \/ \E k \in 1..(i - 1) :
       IsList(rx[k]) /\ LeavesTo(rx[k].devices, d, n) /\ NoListIn(k + 1, i - 1)
  \/ LeavesTo(deviceMap, d, n) /\ NoListIn(1, i - 1)

\* the command takes neither the name nor the status of d away
Spares(cmd, d, n) ==
  /\ IsList(cmd) => cmd.devices[d] = n
  /\ ~IsReport(cmd, n)

SparesFrom(i, d, n) == \A j \in i..Len(rx) : Spares(rx[j], d, n)

\* the report of the status of d, which its name will not take elsewhere
ReportOnItsWay(d, n) ==
  \E i \in 1..Len(rx) :
    /\ IsReport(rx[i], n) /\ rx[i].available = online[d]
    /\ LeftTo(i, d, n)
    /\ SparesFrom(i + 1, d, n)

\* the actor has the status, in the buffer if it does not have the name
Knows(d, n) ==
  \/ n \in dropped
  \/ IF deviceMap[d] = n THEN availability[d] = online[d] ELSE pending[n] = online[d]

Informed(d, n) == ReportOnItsWay(d, n) \/ (Knows(d, n) /\ SparesFrom(1, d, n))

ConvInv ==
  /\ DeviceList \notin unsent => announced = network
  /\ ListOnItsWay
  /\ \A d \in Ieee, n \in Name : network[d] = n =>
       LeavesTo(announced, d, n) /\ (d \notin unsent => Informed(d, n))

LEMMA CommandKinds ==
  ASSUME TypeOK, NEW i \in 1..Len(rx)
  PROVE  /\ IsList(rx[i]) => rx[i].devices \in DeviceMaps
         /\ ~IsList(rx[i]) => /\ rx[i].type = "SetDeviceAvailability"
                              /\ rx[i].name \in Name /\ rx[i].available \in Status
<1>1. rx[i] \in Commands
  BY DEF TypeOK
<1> QED BY <1>1 DEF Commands, IsList

\* Whoever has the name leaves it to nobody else.
LEMMA OwnerLeaves ==
  ASSUME NEW list \in DeviceMaps, NEW d \in Ieee, list[d] # NoName
  PROVE  LeavesTo(list, d, list[d])
BY DEF DeviceMaps, UniqueNames, LeavesTo

-----------------------------------------------------------------------------
(* A command that is sent comes behind the others.                          *)

LEMMA Appended ==
  ASSUME TypeOK, NEW cmd, rx' = Append(rx, cmd)
  PROVE  /\ Len(rx) \in Nat /\ Len(rx') = Len(rx) + 1
         /\ \A i \in 1..Len(rx) : rx'[i] = rx[i]
         /\ rx'[Len(rx) + 1] = cmd
BY DEF TypeOK

LEMMA AppendSpares ==
  ASSUME TypeOK, NEW cmd, rx' = Append(rx, cmd), NEW i \in Nat \ {0}, NEW d, NEW n,
         SparesFrom(i, d, n), Spares(cmd, d, n)
  PROVE  SparesFrom(i, d, n)'
<1>1. ASSUME NEW j \in i..Len(rx')
      PROVE  Spares(rx'[j], d, n)
  <2>1. CASE j = Len(rx) + 1
    BY <2>1, Appended
  <2>2. CASE j # Len(rx) + 1
    <3>1. j \in i..Len(rx) /\ rx'[j] = rx[j]
      BY <2>2, Appended
    <3> QED BY <3>1 DEF SparesFrom
  <2> QED BY <2>1, <2>2
<1> QED BY <1>1 DEF SparesFrom, Spares, IsList, IsReport

LEMMA AppendLeft ==
  ASSUME TypeOK, NEW cmd, rx' = Append(rx, cmd), deviceMap' = deviceMap,
         NEW i \in 1..(Len(rx) + 1), NEW d, NEW n, LeftTo(i, d, n)
  PROVE  LeftTo(i, d, n)'
<1>1. \A j \in 1..(i - 1) : j \in 1..Len(rx) /\ rx'[j] = rx[j]
  BY Appended
<1>2. CASE LeavesTo(deviceMap, d, n) /\ NoListIn(1, i - 1)
  BY <1>1, <1>2 DEF LeftTo, NoListIn, LeavesTo, IsList
<1>3. CASE \E k \in 1..(i - 1) :
             IsList(rx[k]) /\ LeavesTo(rx[k].devices, d, n) /\ NoListIn(k + 1, i - 1)
  <2>1. PICK k \in 1..(i - 1) :
               IsList(rx[k]) /\ LeavesTo(rx[k].devices, d, n) /\ NoListIn(k + 1, i - 1)
    BY <1>3
  <2>2. rx'[k] = rx[k] /\ \A j \in (k + 1)..(i - 1) : rx'[j] = rx[j]
    BY <1>1
  <2>3. IsList(rx'[k]) /\ LeavesTo(rx'[k].devices, d, n)
        /\ \A j \in (k + 1)..(i - 1) : ~IsList(rx'[j])
    BY <2>1, <2>2 DEF NoListIn
  <2> QED BY <2>3 DEF LeftTo, NoListIn, IsList, LeavesTo
<1> QED BY <1>2, <1>3 DEF LeftTo

LEMMA AppendReport ==
  ASSUME TypeOK, NEW cmd, rx' = Append(rx, cmd), deviceMap' = deviceMap,
         NEW d, NEW n, online'[d] = online[d], ReportOnItsWay(d, n), Spares(cmd, d, n)
  PROVE  ReportOnItsWay(d, n)'
<1>1. PICK i \in 1..Len(rx) : /\ IsReport(rx[i], n) /\ rx[i].available = online[d]
                              /\ LeftTo(i, d, n)
                              /\ SparesFrom(i + 1, d, n)
  BY DEF ReportOnItsWay
<1>2. i \in 1..Len(rx') /\ rx'[i] = rx[i] /\ i \in 1..(Len(rx) + 1) /\ i + 1 \in Nat \ {0}
  BY Appended
<1>3. LeftTo(i, d, n)'
  BY <1>1, <1>2, AppendLeft
<1>4. SparesFrom(i + 1, d, n)'
  <2> DEFINE j == i + 1
  <2>1. j \in Nat \ {0} /\ SparesFrom(j, d, n)
    BY <1>1, <1>2
  <2> HIDE DEF j
  <2>2. SparesFrom(j, d, n)'
    BY <2>1, AppendSpares
  <2> QED BY <2>2 DEF j
<1>5. IsReport(rx[i], n)' /\ rx'[i].available = online'[d]
  BY <1>1, <1>2 DEF IsReport
<1> QED BY <1>2, <1>3, <1>4, <1>5 DEF ReportOnItsWay

LEMMA AppendInforms ==
  ASSUME TypeOK, NEW cmd, rx' = Append(rx, cmd),
         UNCHANGED <<deviceMap, availability, pending, dropped>>,
         NEW d, NEW n, online'[d] = online[d], Informed(d, n), Spares(cmd, d, n)
  PROVE  Informed(d, n)'
<1>1. CASE ReportOnItsWay(d, n)
  <2>1. ReportOnItsWay(d, n)'
    BY <1>1, AppendReport
  <2> QED BY <2>1 DEF Informed
<1>2. CASE Knows(d, n) /\ SparesFrom(1, d, n)
  <2>1. SparesFrom(1, d, n)'
    BY <1>2, AppendSpares
  <2>2. Knows(d, n)'
    BY <1>2 DEF Knows
  <2> QED BY <2>1, <2>2 DEF Informed
<1> QED BY <1>1, <1>2 DEF Informed

\* The list that will be the last one applied leaves its names alone.
LEMMA LastLeaves ==
  ASSUME TypeOK, ListOnItsWay, NEW d, NEW n, LeavesTo(announced, d, n)
  PROVE  LeftTo(Len(rx) + 1, d, n)
<1>1. Len(rx) \in Nat
  BY DEF TypeOK
<1>2. Len(rx) + 1 - 1 = Len(rx)
  BY <1>1
<1> QED BY <1>2 DEF ListOnItsWay, LeftTo

-----------------------------------------------------------------------------
(* What the MQTT loop sends.                                                *)

LEMMA AnnouncementSent ==
  ASSUME TypeOK, ConvInv, HandleBridgeDevices
  PROVE  ConvInv'
<1> DEFINE cmd == [type |-> "UpdateDevices", devices |-> network]
<1>1. /\ rx' = Append(rx, cmd) /\ announced' = network /\ unsent' = unsent \ {DeviceList}
      /\ UNCHANGED <<deviceMap, availability, pending, dropped, network, online>>
  BY DEF HandleBridgeDevices, Enqueue, actor
<1>2. IsList(cmd) /\ cmd.devices = network /\ \A n \in Name : ~IsReport(cmd, n)
  BY DEF IsList, IsReport
<1> HIDE DEF cmd
<1>3. ListOnItsWay'
  <2>1. Len(rx') \in 1..Len(rx') /\ rx'[Len(rx')] = cmd
    BY <1>1, Appended
  <2>3. (IsList(rx[Len(rx)]) /\ rx[Len(rx)].devices = announced /\ NoListIn(Len(rx) + 1, Len(rx)))'
    BY <2>1, <1>1, <1>2 DEF NoListIn, IsList
  <2> QED BY <2>1, <2>3 DEF ListOnItsWay
<1>4. ASSUME NEW d \in Ieee, NEW n \in Name, network[d] = n
      PROVE  LeavesTo(network, d, n) /\ (d \notin unsent' => Informed(d, n)')
  <2>1. network \in DeviceMaps /\ n # NoName
    BY RegistryAssumption DEF TypeOK
  <2>2. LeavesTo(network, d, n)
    BY <1>4, <2>1, OwnerLeaves
  <2>3. ASSUME d \notin unsent' PROVE Informed(d, n)'
    <3>1. Informed(d, n)
      <4>1. d \notin unsent
        BY <1>1, <2>3, RegistryAssumption
      <4> QED BY <4>1, <1>4 DEF ConvInv
    <3>2. Spares(cmd, d, n)
      BY <1>2, <1>4 DEF Spares
    <3>3. online'[d] = online[d]
      BY <1>1
    <3> QED BY <1>1, <3>1, <3>2, <3>3, AppendInforms
  <2> QED BY <2>2, <2>3
<1> QED BY <1>1, <1>3, <1>4 DEF ConvInv, LeavesTo

LEMMA ListStays ==
  ASSUME TypeOK, NEW cmd, rx' = Append(rx, cmd), ~IsList(cmd),
         UNCHANGED <<deviceMap, announced>>, ListOnItsWay
  PROVE  ListOnItsWay'
<1>1. /\ Len(rx) \in Nat /\ Len(rx') = Len(rx) + 1
      /\ \A i \in 1..Len(rx) : rx'[i] = rx[i]
      /\ rx'[Len(rx) + 1] = cmd
  BY Appended
<1>2. ASSUME NEW a \in Nat \ {0}, NoListIn(a, Len(rx)) PROVE NoListIn(a, Len(rx))'
  <2>1. ASSUME NEW j \in a..Len(rx') PROVE ~IsList(rx'[j])
    <3>1. CASE j = Len(rx) + 1
      BY <3>1, <1>1
    <3>2. CASE j # Len(rx) + 1
      <4>1. j \in a..Len(rx) /\ j \in 1..Len(rx)
        BY <3>2, <1>1
      <4> QED BY <4>1, <1>1, <1>2 DEF NoListIn
    <3> QED BY <3>1, <3>2
  <2> QED BY <2>1 DEF NoListIn, IsList
<1>3. CASE deviceMap = announced /\ NoListIn(1, Len(rx))
  BY <1>2, <1>3 DEF ListOnItsWay
<1>4. CASE \E k \in 1..Len(rx) :
             IsList(rx[k]) /\ rx[k].devices = announced /\ NoListIn(k + 1, Len(rx))
  <2>1. PICK k \in 1..Len(rx) :
               IsList(rx[k]) /\ rx[k].devices = announced /\ NoListIn(k + 1, Len(rx))
    BY <1>4
  <2>2. NoListIn(k + 1, Len(rx))'
    <3> DEFINE a == k + 1
    <3>1. a \in Nat \ {0} /\ NoListIn(a, Len(rx))
      BY <2>1
    <3> HIDE DEF a
    <3>2. NoListIn(a, Len(rx))'
      BY <3>1, <1>2
    <3> QED BY <3>2 DEF a
  <2>3. k \in 1..Len(rx') /\ IsList(rx[k])' /\ rx'[k].devices = announced'
    BY <1>1, <2>1 DEF IsList
  <2> QED BY <2>2, <2>3 DEF ListOnItsWay
<1> QED BY <1>3, <1>4 DEF ListOnItsWay

\* A report, of a name that d has or that nobody has.
LEMMA ReportSent ==
  ASSUME TypeOK, ConvInv, NEW n \in Name, NEW status,
         rx' = Append(rx, [type |-> "SetDeviceAvailability", name |-> n, available |-> status]),
         UNCHANGED <<actor, network, online, announced>>,
         unsent' \subseteq unsent, DeviceList \in unsent => DeviceList \in unsent',
         \A d \in Ieee : network[d] = n => status = online[d],
         \A d \in Ieee : d \in unsent \ unsent' => network[d] = n
  PROVE  ConvInv'
<1> DEFINE cmd == [type |-> "SetDeviceAvailability", name |-> n, available |-> status]
<1>1. /\ rx' = Append(rx, cmd)
      /\ UNCHANGED <<deviceMap, availability, pending, dropped, network, online, announced>>
  BY DEF actor
<1>2. /\ ~IsList(cmd) /\ IsReport(cmd, n) /\ cmd.available = status
      /\ \A m \in Name \ {n} : ~IsReport(cmd, m)
  BY DEF IsList, IsReport
<1> HIDE DEF cmd
<1>3. ListOnItsWay'
  BY <1>1, <1>2, ListStays DEF ConvInv
<1>4. ASSUME NEW d \in Ieee, NEW m \in Name, network[d] = m, d \notin unsent'
      PROVE  Informed(d, m)'
  <2>1. CASE m = n
    <3>1. /\ Len(rx) \in Nat /\ Len(rx') = Len(rx) + 1 /\ rx'[Len(rx) + 1] = cmd
      BY <1>1, Appended
    <3>2. LeftTo(Len(rx) + 1, d, n)
      BY <1>4, <2>1, LastLeaves DEF ConvInv
    <3> DEFINE i == Len(rx) + 1
    <3>3. i \in 1..(Len(rx) + 1) /\ i \in Nat /\ LeftTo(i, d, n)
      BY <3>1, <3>2
    <3>4. i = Len(rx') /\ rx'[i] = cmd
      BY <3>1
    <3>5. PICK k \in Nat : k = i
      BY <3>3
    <3> HIDE DEF i
    <3>6. LeftTo(k, d, n)'
      BY <3>3, <3>5, <1>1, AppendLeft
    <3>7. SparesFrom(k + 1, d, n)'
      BY <3>4, <3>5 DEF SparesFrom
    <3>8. IsReport(rx[k], n)' /\ rx'[k].available = online'[d] /\ k \in 1..Len(rx')
      BY <3>3, <3>4, <3>5, <1>1, <1>2, <1>4, <2>1 DEF IsReport
    <3>9. ReportOnItsWay(d, n)'
      BY <3>6, <3>7, <3>8 DEF ReportOnItsWay
    <3> QED BY <3>9, <2>1 DEF Informed
  <2>2. CASE m # n
    <3>1. d \notin unsent
      BY <1>4, <2>2
    <3>2. Spares(cmd, d, m)
      BY <1>2, <2>2 DEF Spares
    <3>3. Informed(d, m)
      BY <1>4, <3>1 DEF ConvInv
    <3>4. online'[d] = online[d]
      BY <1>1
    <3> QED BY <1>1, <3>2, <3>3, <3>4, AppendInforms
  <2> QED BY <2>1, <2>2
<1> QED BY <1>1, <1>3, <1>4 DEF ConvInv, LeavesTo

-----------------------------------------------------------------------------
(* The actor takes a command: the others move up.                           *)

\* the actor's device map after a command
MapAfter(cmd) == IF IsList(cmd) THEN cmd.devices ELSE deviceMap

LEMMA Shifted ==
  ASSUME TypeOK, rx # <<>>, rx' = Tail(rx)
  PROVE  /\ Len(rx) \in Nat \ {0} /\ Len(rx') = Len(rx) - 1
         /\ \A i \in 1..Len(rx') : rx'[i] = rx[i + 1]
         /\ Head(rx) = rx[1]
BY DEF TypeOK

LEMMA ShiftSpares ==
  ASSUME TypeOK, rx # <<>>, rx' = Tail(rx), NEW i \in Nat \ {0}, NEW d, NEW n,
         SparesFrom(i + 1, d, n)
  PROVE  SparesFrom(i, d, n)'
<1>1. ASSUME NEW j \in i..Len(rx') PROVE Spares(rx'[j], d, n)
  <2>1. j + 1 \in (i + 1)..Len(rx) /\ rx'[j] = rx[j + 1]
    BY Shifted
  <2> QED BY <2>1 DEF SparesFrom
<1> QED BY <1>1 DEF SparesFrom, Spares, IsList, IsReport

LEMMA ShiftNoList ==
  ASSUME TypeOK, rx # <<>>, rx' = Tail(rx), NEW a \in Nat \ {0}, NEW b \in Nat,
         b < Len(rx), NoListIn(a + 1, b + 1)
  PROVE  NoListIn(a, b)'
<1>1. ASSUME NEW j \in a..b PROVE ~IsList(rx'[j])
  <2>1. j + 1 \in (a + 1)..(b + 1) /\ rx'[j] = rx[j + 1]
    BY Shifted
  <2> QED BY <2>1 DEF NoListIn
<1> QED BY <1>1 DEF NoListIn, IsList

LEMMA ShiftLeft ==
  ASSUME TypeOK, rx # <<>>, rx' = Tail(rx), deviceMap' = MapAfter(Head(rx)),
         NEW i \in 1..Len(rx'), NEW d, NEW n, LeftTo(i + 1, d, n)
  PROVE  LeftTo(i, d, n)'
<1>1. /\ Len(rx) \in Nat \ {0} /\ Len(rx') = Len(rx) - 1
      /\ \A k \in 1..Len(rx') : rx'[k] = rx[k + 1]
      /\ Head(rx) = rx[1]
  BY Shifted
<1>2. i + 1 - 1 = i
  BY <1>1
<1>3. CASE LeavesTo(deviceMap, d, n) /\ NoListIn(1, i)
  <2>1. ~IsList(rx[1])
    BY <1>1, <1>3 DEF NoListIn
  <2>2. deviceMap' = deviceMap
    BY <1>1, <2>1 DEF MapAfter
  <2>3. NoListIn(1 + 1, (i - 1) + 1)
    BY <1>1, <1>3 DEF NoListIn
  <2> DEFINE b == i - 1
  <2>4. b \in Nat /\ b < Len(rx) /\ NoListIn(1 + 1, b + 1)
    BY <1>1, <2>3
  <2> HIDE DEF b
  <2>5. NoListIn(1, b)'
    BY <2>4, ShiftNoList
  <2>6. NoListIn(1, i - 1)'
    BY <2>5 DEF b
  <2> QED BY <1>3, <2>2, <2>6 DEF LeftTo, LeavesTo
<1>4. ASSUME NEW k \in 1..i, IsList(rx[k]), LeavesTo(rx[k].devices, d, n), NoListIn(k + 1, i)
      PROVE  LeftTo(i, d, n)'
  <2> DEFINE b == i - 1
  <2>1. b \in Nat /\ b < Len(rx) /\ b + 1 = i
    BY <1>1
  <2>2. CASE k = 1
    <3>1. deviceMap' = rx[1].devices
      BY <2>2, <1>1, <1>4 DEF MapAfter
    <3>2. NoListIn(1 + 1, b + 1)
      BY <2>1, <2>2, <1>4
    <3> HIDE DEF b
    <3>3. NoListIn(1, b)'
      BY <2>1, <3>2, ShiftNoList
    <3>4. NoListIn(1, i - 1)'
      BY <3>3 DEF b
    <3> QED BY <1>4, <2>2, <3>1, <3>4 DEF LeftTo, LeavesTo
  <2>3. CASE k # 1
    <3>1. PICK m \in 1..b : m + 1 = k
      <4>1. k - 1 \in 1..b /\ (k - 1) + 1 = k
        BY <2>1, <2>3
      <4> QED BY <4>1
    <3>2. NoListIn((m + 1) + 1, b + 1)
      BY <3>1, <2>1, <1>4
    <3> DEFINE a == m + 1
    <3>3. a \in Nat \ {0} /\ NoListIn(a + 1, b + 1)
      BY <3>1, <3>2
    <3> HIDE DEF a, b
    <3>4. NoListIn(a, b)'
      BY <2>1, <3>3, ShiftNoList
    <3>5. NoListIn(m + 1, i - 1)'
      BY <3>4 DEF a, b
    <3>6. m \in 1..(i - 1) /\ m \in 1..Len(rx') /\ rx'[m] = rx[k]
      BY <3>1, <1>1 DEF b
    <3>7. IsList(rx[m])' /\ LeavesTo(rx'[m].devices, d, n)
      BY <3>6, <1>4 DEF IsList
    <3> QED BY <3>5, <3>6, <3>7 DEF LeftTo, LeavesTo
  <2> QED BY <2>2, <2>3
<1>5. \/ LeavesTo(deviceMap, d, n) /\ NoListIn(1, i)
      \/ \E k \in 1..i : IsList(rx[k]) /\ LeavesTo(rx[k].devices, d, n) /\ NoListIn(k + 1, i)
  BY <1>2 DEF LeftTo
<1> QED BY <1>3, <1>4, <1>5

LEMMA ShiftList ==
  ASSUME TypeOK, rx # <<>>, rx' = Tail(rx), deviceMap' = MapAfter(Head(rx)),
         announced' = announced, ListOnItsWay
  PROVE  ListOnItsWay'
<1> DEFINE b == Len(rx')
<1>1. /\ Len(rx) \in Nat \ {0} /\ b \in Nat /\ b < Len(rx) /\ b + 1 = Len(rx)
      /\ \A k \in 1..b : rx'[k] = rx[k + 1]
      /\ Head(rx) = rx[1]
  BY Shifted
<1>2. PICK e \in Nat : e = b
  BY <1>1
<1>3. e < Len(rx) /\ e + 1 = Len(rx)
  BY <1>1, <1>2
<1>4. CASE deviceMap = announced /\ NoListIn(1, Len(rx))
  <2>1. ~IsList(rx[1])
    BY <1>1, <1>4 DEF NoListIn
  <2>2. NoListIn(1 + 1, e + 1)
    BY <1>3, <1>4 DEF NoListIn
  <2>3. NoListIn(1, e)'
    BY <1>3, <2>2, ShiftNoList
  <2>4. NoListIn(1, Len(rx))'
    BY <2>3, <1>2 DEF NoListIn
  <2> QED BY <1>1, <1>4, <2>1, <2>4 DEF ListOnItsWay, MapAfter
<1>5. ASSUME NEW k \in 1..Len(rx), IsList(rx[k]), rx[k].devices = announced,
             NoListIn(k + 1, Len(rx))
      PROVE  ListOnItsWay'
  <2>1. CASE k = 1
    <3>1. deviceMap' = announced'
      BY <2>1, <1>1, <1>5 DEF MapAfter
    <3>2. NoListIn(1 + 1, e + 1)
      BY <1>3, <2>1, <1>5
    <3>3. NoListIn(1, e)'
      BY <1>3, <3>2, ShiftNoList
    <3>4. NoListIn(1, Len(rx))'
      BY <3>3, <1>2 DEF NoListIn
    <3> QED BY <3>1, <3>4 DEF ListOnItsWay
  <2>2. CASE k # 1
    <3>1. PICK m \in 1..e : m + 1 = k
      <4>1. k - 1 \in 1..e /\ (k - 1) + 1 = k
        BY <1>3, <2>2
      <4> QED BY <4>1
    <3>2. PICK a \in Nat \ {0} : a = m + 1
      BY <3>1
    <3>3. NoListIn(a + 1, e + 1)
      BY <3>1, <3>2, <1>3, <1>5
    <3>4. NoListIn(a, e)'
      BY <1>3, <3>3, ShiftNoList
    <3>5. NoListIn(m + 1, Len(rx))'
      BY <3>4, <3>2, <1>2 DEF NoListIn
    <3>6. m \in 1..Len(rx') /\ rx'[m] = rx[k]
      BY <3>1, <1>1, <1>2
    <3>7. IsList(rx[m])' /\ rx'[m].devices = announced'
      BY <3>6, <1>5 DEF IsList
    <3> QED BY <3>5, <3>6, <3>7 DEF ListOnItsWay
  <2> QED BY <2>1, <2>2
<1> QED BY <1>4, <1>5 DEF ListOnItsWay

-----------------------------------------------------------------------------
(* What the actor makes of a command.                                       *)

LEMMA HeadKind ==
  ASSUME TypeOK, rx # <<>>
  PROVE  /\ Head(rx).type = "UpdateDevices" => Head(rx).devices \in DeviceMaps
         /\ Head(rx).type # "UpdateDevices" =>
              Head(rx).type = "SetDeviceAvailability" /\ Head(rx).name \in Name
<1>1. Head(rx) \in Commands
  BY DEF TypeOK
<1> QED BY <1>1 DEF Commands

\* The actor's maps after a command, and what it takes of it.
LEMMA Applied ==
  ASSUME TypeOK, ApplyUpdateDevices \/ ApplySetDeviceAvailability
  PROVE  /\ rx # <<>> /\ rx' = Tail(rx) /\ deviceMap' = MapAfter(Head(rx))
         /\ UNCHANGED <<announced, network, online, unsent>>
         /\ ApplyUpdateDevices => IsList(Head(rx)) /\ UpdateDevices(Head(rx).devices)
         /\ ApplySetDeviceAvailability =>
              ~IsList(Head(rx)) /\ SetDeviceAvailability(Head(rx).name, Head(rx).available)
BY DEF ApplyUpdateDevices, ApplySetDeviceAvailability, UpdateDevices, SetDeviceAvailability,
       ResolvedReport, BufferedReport, DroppedReport, MapAfter, IsList, z2m

\* An announcement that gives d its name finds the status in the buffer, or
\* leaves it as it is.
LEMMA ListKnows ==
  ASSUME IInv, NEW list \in DeviceMaps, UpdateDevices(list), online' = online,
         NEW d \in Ieee, NEW n \in Name, list[d] = n, Knows(d, n)
  PROVE  Knows(d, n)'
<1>1. n # NoName /\ online[d] \in Status /\ online[d] # Absent
  BY RegistryAssumption, AbsentIsNoStatus DEF IInv, TypeOK
<1>2. dropped' = dropped /\ deviceMap'[d] = n
      /\ availability'[d] = IF pending[n] # Absent THEN pending[n] ELSE availability[d]
  BY <1>1 DEF UpdateDevices, AvailabilityAfter, ReportFor
<1>3. CASE n \in dropped
  BY <1>2, <1>3 DEF Knows
<1>4. CASE n \notin dropped /\ deviceMap[d] = n
  <2>1. friendlyToIeee[n] = d /\ d # NoIeee
    BY <1>4, RegistryAssumption DEF IInv, IndexMatchesDevices
  <2>2. pending[n] = Absent
    BY <2>1 DEF IInv, PendingUnresolved, Buffered
  <2> QED BY <1>2, <1>4, <2>2 DEF Knows
<1>5. CASE n \notin dropped /\ deviceMap[d] # n
  BY <1>1, <1>2, <1>5 DEF Knows
<1> QED BY <1>3, <1>4, <1>5

\* A report of another name changes nothing about d.
LEMMA OtherReportKnows ==
  ASSUME IInv, NEW m \in Name, NEW status, SetDeviceAvailability(m, status), online' = online,
         NEW d \in Ieee, NEW n \in Name, m # n, Knows(d, n)
  PROVE  Knows(d, n)'
<1>1. CASE ResolvedReport(m, status)
  <2>1. deviceMap' = deviceMap /\ pending' = pending /\ dropped' = dropped \ {m}
    BY <1>1 DEF ResolvedReport
  <2>2. friendlyToIeee[m] = d => deviceMap[d] = m
    BY DEF IInv, IndexMatchesDevices
  <2>3. deviceMap[d] = n => availability'[d] = availability[d]
    BY <1>1, <2>2 DEF ResolvedReport, IInv, TypeOK
  <2> QED BY <2>1, <2>3 DEF Knows
<1>2. CASE BufferedReport(m, status)
  BY <1>2 DEF BufferedReport, Knows, IInv, TypeOK
<1>3. CASE DroppedReport(m)
  BY <1>3 DEF DroppedReport, Knows
<1> QED BY <1>1, <1>2, <1>3 DEF SetDeviceAvailability

\* The report of a name that is left to d reaches d, or the buffer.
LEMMA OwnReportKnows ==
  ASSUME IInv, NEW d \in Ieee, NEW n \in Name, SetDeviceAvailability(n, online[d]),
         online' = online, LeavesTo(deviceMap, d, n)
  PROVE  Knows(d, n)'
<1>1. CASE ResolvedReport(n, online[d])
  <2>1. friendlyToIeee[n] \in Ieee
    BY <1>1 DEF ResolvedReport, IInv, TypeOK
  <2>2. friendlyToIeee[n] = d /\ deviceMap[d] = n
    BY <2>1 DEF IInv, IndexMatchesDevices, LeavesTo
  <2> QED BY <1>1, <2>2 DEF ResolvedReport, Knows, IInv, TypeOK
<1>2. CASE BufferedReport(n, online[d])
  <2>1. deviceMap[d] # n
    BY <1>2, RegistryAssumption DEF BufferedReport, IInv, IndexMatchesDevices
  <2> QED BY <1>2, <2>1 DEF BufferedReport, Knows, IInv, TypeOK
<1>3. CASE DroppedReport(n)
  BY <1>3 DEF DroppedReport, Knows
<1> QED BY <1>1, <1>2, <1>3 DEF SetDeviceAvailability

LEMMA ApplyInforms ==
  ASSUME IInv, ApplyUpdateDevices \/ ApplySetDeviceAvailability,
         NEW d \in Ieee, NEW n \in Name, Informed(d, n)
  PROVE  Informed(d, n)'
<1> DEFINE cmd == Head(rx)
<1>1. /\ TypeOK /\ rx # <<>> /\ rx' = Tail(rx) /\ deviceMap' = MapAfter(Head(rx))
      /\ online' = online
      /\ Len(rx) \in Nat \ {0} /\ Len(rx') = Len(rx) - 1
      /\ \A i \in 1..Len(rx') : rx'[i] = rx[i + 1]
      /\ cmd = rx[1]
  BY Applied, Shifted DEF IInv
<1>2. ASSUME Knows(d, n), Spares(cmd, d, n) PROVE Knows(d, n)'
  <2>1. CASE ApplyUpdateDevices
    <3>1. IsList(cmd) /\ UpdateDevices(cmd.devices) /\ cmd.devices \in DeviceMaps
      BY <1>1, <2>1, Applied, HeadKind DEF IsList
    <3>2. cmd.devices[d] = n
      BY <1>2, <3>1 DEF Spares
    <3> HIDE DEF cmd
    <3> QED BY <1>1, <1>2, <3>1, <3>2, ListKnows
  <2>2. CASE ApplySetDeviceAvailability
    <3>1. ~IsList(cmd) /\ SetDeviceAvailability(cmd.name, cmd.available)
      BY <1>1, <2>2, Applied
    <3>2. cmd.name \in Name /\ cmd.name # n
      BY <1>1, <1>2, <3>1, HeadKind DEF Spares, IsReport, IsList
    <3> HIDE DEF cmd
    <3> QED BY <1>1, <1>2, <3>1, <3>2, OtherReportKnows
  <2> QED BY <2>1, <2>2
<1>3. CASE Knows(d, n) /\ SparesFrom(1, d, n)
  <2>1. Spares(cmd, d, n)
    BY <1>1, <1>3 DEF SparesFrom
  <2>2. SparesFrom(1 + 1, d, n)
    BY <1>1, <1>3 DEF SparesFrom
  <2>3. SparesFrom(1, d, n)'
    BY <1>1, <2>2, ShiftSpares
  <2> QED BY <1>2, <1>3, <2>1, <2>3 DEF Informed
<1>4. ASSUME NEW i \in 1..Len(rx), IsReport(rx[i], n), rx[i].available = online[d],
             LeftTo(i, d, n), SparesFrom(i + 1, d, n)
      PROVE  Informed(d, n)'
  <2>1. CASE i = 1
    <3>1. SparesFrom(1 + 1, d, n)
      BY <1>4, <2>1
    <3>2. SparesFrom(1, d, n)'
      BY <1>1, <3>1, ShiftSpares
    <3>3. LeavesTo(deviceMap, d, n)
      BY <1>4, <2>1 DEF LeftTo
    <3>4. cmd.name = n /\ cmd.available = online[d] /\ ~IsList(cmd)
      BY <1>1, <1>4, <2>1 DEF IsReport, IsList
    <3>5. SetDeviceAvailability(n, online[d])
      BY <1>1, <3>4, Applied
    <3>6. Knows(d, n)'
      BY <1>1, <3>3, <3>5, OwnReportKnows
    <3> QED BY <3>2, <3>6 DEF Informed
  <2>2. CASE i # 1
    <3>1. PICK m \in 1..Len(rx') : m + 1 = i
      <4>1. i - 1 \in 1..Len(rx') /\ (i - 1) + 1 = i
        BY <1>1, <2>2
      <4> QED BY <4>1
    <3>2. LeftTo(m + 1, d, n) /\ SparesFrom((m + 1) + 1, d, n) /\ rx'[m] = rx[i]
      BY <1>1, <1>4, <3>1
    <3>3. LeftTo(m, d, n)'
      BY <1>1, <3>2, ShiftLeft
    <3>4. PICK a \in Nat \ {0} : a = m + 1
      BY <3>1
    <3>5. SparesFrom(a + 1, d, n)
      BY <3>2, <3>4
    <3>6. SparesFrom(a, d, n)'
      BY <1>1, <3>5, ShiftSpares
    <3>7. SparesFrom(m + 1, d, n)'
      BY <3>4, <3>6
    <3>8. IsReport(rx[m], n)' /\ rx'[m].available = online'[d]
      BY <1>1, <1>4, <3>2 DEF IsReport
    <3> QED BY <3>3, <3>7, <3>8 DEF Informed, ReportOnItsWay
  <2> QED BY <2>1, <2>2
<1> QED BY <1>3, <1>4 DEF Informed, ReportOnItsWay

-----------------------------------------------------------------------------
(* Convergence.                                                             *)

\* Nothing has happened to the actor and its channel.
LEMMA ActorRests ==
  ASSUME ConvInv,
         UNCHANGED <<deviceMap, availability, pending, dropped, rx, announced>>,
         DeviceList \notin unsent' => DeviceList \notin unsent /\ network' = network,
         \A d \in Ieee, n \in Name : network'[d] = n =>
           /\ LeavesTo(announced, d, n)
           /\ d \notin unsent' =>
                d \notin unsent /\ network[d] = n /\ online'[d] = online[d]
  PROVE  ConvInv'
<1>1. ListOnItsWay'
  BY DEF ConvInv, ListOnItsWay, NoListIn, IsList
<1>2. ASSUME NEW d \in Ieee, NEW n \in Name, network'[d] = n, d \notin unsent'
      PROVE  Informed(d, n)'
  <2>1. Informed(d, n) /\ online'[d] = online[d]
    BY <1>2 DEF ConvInv
  <2> QED BY <2>1 DEF Informed, ReportOnItsWay, Knows, LeftTo, LeavesTo, NoListIn, SparesFrom,
                      Spares, IsReport, IsList
<1> QED BY <1>1, <1>2 DEF ConvInv, LeavesTo

LEMMA InitConv == Init => ConvInv
BY RegistryAssumption DEF Init, ConvInv, ListOnItsWay, NoListIn, LeavesTo, Informed

LEMMA StepConv ==
  ASSUME ~NameReuse, IInv, ConvInv, [Next]_vars
  PROVE  ConvInv'
<1> USE DEF z2m, actor
<1>1. CASE ApplyUpdateDevices \/ ApplySetDeviceAvailability
  <2>1. /\ TypeOK /\ rx # <<>> /\ rx' = Tail(rx) /\ deviceMap' = MapAfter(Head(rx))
        /\ UNCHANGED <<announced, network, online, unsent>>
    BY <1>1, Applied DEF IInv
  <2>2. ListOnItsWay'
    BY <2>1, ShiftList DEF ConvInv
  <2>3. ASSUME NEW d \in Ieee, NEW n \in Name, Informed(d, n) PROVE Informed(d, n)'
    BY <1>1, <2>3, ApplyInforms
  <2> QED BY <2>1, <2>2, <2>3 DEF ConvInv, LeavesTo
<1>2. CASE \E e \in outbox : PublishEvent(e)
  BY <1>2, ActorRests DEF PublishEvent, ConvInv
<1>3. CASE HandleBridgeDevices
  BY <1>3, AnnouncementSent DEF IInv
<1>4. ASSUME NEW d \in Ieee, HandleAvailability(d) PROVE ConvInv'
  <2>1. network[d] \in Name /\ network \in DeviceMaps
    BY <1>4 DEF HandleAvailability, IInv, TypeOK, DeviceMaps
  <2>2. PICK n \in Name : n = network[d]
    BY <2>1
  <2>3. rx' = Append(rx, [type |-> "SetDeviceAvailability", name |-> n, available |-> online[d]])
    BY <1>4, <2>2 DEF HandleAvailability, Enqueue
  <2>4. \A c \in Ieee : network[c] = n => c = d
    BY <2>1, <2>2, RegistryAssumption DEF DeviceMaps, UniqueNames
  <2>5. /\ UNCHANGED <<actor, network, online, announced>>
        /\ unsent' = unsent \ {d}
    BY <1>4 DEF HandleAvailability
  <2>6. DeviceList # d
    BY RegistryAssumption
  <2> QED BY <2>2, <2>3, <2>4, <2>5, <2>6, ReportSent DEF IInv
<1>5. ASSUME NEW n \in Name, HandleForeignAvailability(n) PROVE ConvInv'
  <2>1. /\ rx' = Append(rx, [type |-> "SetDeviceAvailability", name |-> n, available |-> "offline"])
        /\ UNCHANGED <<actor, network, online, announced, unsent>>
        /\ \A d \in Ieee : network[d] # n
    BY <1>5 DEF HandleForeignAvailability, Enqueue
  <2> QED BY <2>1, ReportSent DEF IInv
<1>6. ASSUME NEW d \in Ieee, NEW n \in Name, JoinOrRename(d, n) PROVE ConvInv'
  <2>1. /\ network' = [network EXCEPT ![d] = n]
        /\ unsent' = unsent \union {d, DeviceList}
        /\ UNCHANGED <<actor, rx, online, announced>>
        /\ \A c \in Ieee \ {d} : announced[c] # n
    BY <1>6 DEF JoinOrRename
  <2>2. \A c \in Ieee : c # d => network'[c] = network[c]
    BY <2>1 DEF IInv, TypeOK, DeviceMaps
  <2>3. network'[d] = n /\ LeavesTo(announced, d, n)
    BY <2>1 DEF IInv, TypeOK, DeviceMaps, LeavesTo
  <2>4. \A c \in Ieee, m \in Name : network'[c] = m => LeavesTo(announced, c, m)
    BY <2>2, <2>3 DEF ConvInv
  <2> QED BY <2>1, <2>2, <2>4, ActorRests
<1>7. ASSUME NEW d \in Ieee, Leave(d) PROVE ConvInv'
  <2>1. /\ network' = [network EXCEPT ![d] = NoName]
        /\ unsent' = (unsent \ {d}) \union {DeviceList}
        /\ UNCHANGED <<actor, rx, online, announced>>
    BY <1>7 DEF Leave
  <2>2. \A c \in Ieee, m \in Name : network'[c] = m => c # d /\ network[c] = m
    BY <2>1, RegistryAssumption DEF IInv, TypeOK, DeviceMaps
  <2> QED BY <2>1, <2>2, ActorRests DEF ConvInv
<1>8. ASSUME NEW d \in Ieee, Flip(d) PROVE ConvInv'
  <2>1. /\ \A c \in Ieee : c # d => online'[c] = online[c]
        /\ unsent' = unsent \union {d}
        /\ UNCHANGED <<actor, rx, network, announced>>
    BY <1>8 DEF Flip, IInv, TypeOK
  <2> QED BY <2>1, ActorRests DEF ConvInv
<1>9. CASE Republish
  <2>1. /\ unsent' = {d \in Ieee : network[d] # NoName} \union {DeviceList}
        /\ UNCHANGED <<actor, rx, network, online, announced>>
    BY <1>9 DEF Republish
  <2>2. \A n \in Name : n # NoName
    BY RegistryAssumption
  <2> QED BY <2>1, <2>2, ActorRests DEF ConvInv
<1>10. CASE UNCHANGED vars
  BY <1>10, ActorRests DEF vars, ConvInv
<1> QED BY <1>1, <1>2, <1>3, <1>4, <1>5, <1>6, <1>7, <1>8, <1>9, <1>10 DEF Next

LEMMA ConvImplies == IInv /\ ConvInv => ConvergesToNetwork
<1> SUFFICES ASSUME IInv, ConvInv, Settled PROVE ConvergesToNetwork
  BY DEF ConvergesToNetwork
<1>1. rx = <<>> /\ unsent = {} /\ \A i \in 1..Len(rx) : FALSE
  BY DEF Settled
<1>2. deviceMap = announced /\ announced = network
  BY <1>1 DEF ConvInv, ListOnItsWay
<1>3. ASSUME NEW d \in Ieee, network[d] # NoName, network[d] \notin dropped
      PROVE  availability[d] = online[d]
  <2>1. PICK n \in Name : n = network[d]
    BY <1>3 DEF IInv, TypeOK, DeviceMaps
  <2>2. Informed(d, n)
    BY <1>1, <2>1 DEF ConvInv
  <2>3. Knows(d, n)
    BY <1>1, <2>2 DEF Informed, ReportOnItsWay
  <2> QED BY <1>2, <1>3, <2>1, <2>3 DEF Knows
<1> QED BY <1>2, <1>3 DEF ConvergesToNetwork

\* When all that Z2M retains has been delivered and applied, the registry has
\* the real devices and their real status, whatever the order in which lists,
\* reports, renames and stale topics came (UpdateDevices and
\* SetDeviceAvailability of StateManager::run): as long as no device gets a name
\* that the list announced last gives another, whose report would be taken for
\* the other's.
THEOREM RegistryConverges == ~NameReuse => (Spec => []ConvergesToNetwork)
<1> SUFFICES ASSUME ~NameReuse PROVE Spec => []ConvergesToNetwork
  OBVIOUS
<1>1. IInv /\ ConvInv /\ [Next]_vars => ConvInv'
  BY StepConv
<1>2. IInv /\ ConvInv => ConvergesToNetwork
  BY ConvImplies
<1> QED BY <1>1, <1>2, InitConv, RegistryInvariant, PTL DEF Spec

=============================================================================
