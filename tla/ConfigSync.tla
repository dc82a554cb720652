----------------------------- MODULE ConfigSync -----------------------------
(***************************************************************************)
(* How a new group of Z2M becomes a room of the config file: the lists of  *)
(* devices and groups that the MQTT loop hands to the StateManager         *)
(* (mqtt/z2m.rs, state/mod.rs), and the task that appends the groups the   *)
(* config does not know (config_sync.rs), across lost connections, failed  *)
(* writes, crashes and restarts (cli/run.rs, config/mod.rs).               *)
(*                                                                         *)
(* External: the Zigbee network and its retained lists, and whoever edits  *)
(* the file.                                                               *)
(***************************************************************************)
EXTENDS Sequences, FiniteSets, Naturals

CONSTANTS
  Groups,       \* names of groups of Z2M
  Plain,        \* those whose id TOML takes as a bare key (ASCII, not empty) and whose
                \* name it takes between quotes as it is
  Devices,      \* IEEE addresses
  Lights,       \* the devices that support brightness
  RoomIds,      \* ids of rooms
  RoomId,       \* the id a group's name is normalised to
  None,
  Networks,     \* what the members of the groups can be
  Files,        \* what the file can be at first
  Edited,       \* the rooms people add to the file, and remove
  QueueCap,     \* capacity of the command channel
  BusCap,       \* capacity of the event bus
  MaxChanges,   \* bound: changes of the network
  MaxLosses,    \* bound: lists lost with the connection
  MaxFailures,  \* bound: reads and writes of the file that fail
  MaxCrashes,   \* bound: crashes
  MaxEdits,     \* bound: edits of the file by somebody else
  MaxEvents     \* bound: all of these together

\* A room table; people quote what TOML wants quoted, and jeha does not.
Entry == [id : RoomIds, group : Groups \union {None}, quoted : BOOLEAN]

\* what the TOML parser can read
Legible == {e \in Entry : e.quoted \/ e.group \in Plain}
Network == [Groups -> SUBSET Devices]

ASSUME SyncAssumption ==
  /\ Lights \subseteq Devices
  /\ Plain \subseteq Groups
  /\ RoomId \in [Groups -> RoomIds]
  /\ None \notin Groups
  /\ Networks \subseteq Network
  /\ Files \subseteq [Entry -> Nat] /\ Edited \subseteq Entry
  /\ {QueueCap, BusCap} \subseteq Nat \ {0}
  /\ {MaxChanges, MaxLosses, MaxFailures, MaxCrashes, MaxEdits, MaxEvents} \subseteq Nat

\* "no text" is no text
ASSUME NoneIsNoText == None \notin [Entry -> Nat]

VARIABLES
  network,    \* external: the members of each group; an absent one has none
  joined,     \* external: the devices Z2M knows
  lists,      \* external: bridge/devices and bridge/groups messages on their way
  rx,         \* the command channel: UpdateDevices and UpdateGroups
  loop,       \* the MQTT loop: "idle", or about to "announce" the groups
  deviceMap,  \* SystemState.device_map
  groupMap,   \* SystemState.group_map
  up,         \* does the daemon run
  listening,  \* has ConfigSync subscribed to the event bus
  events,     \* GroupsUpdated events in its receiver
  config,     \* ConfigSync.config: the rooms the daemon was started with
  appended,   \* ConfigSync.appended_groups and appended_room_ids
  sync,       \* sync_new_groups: where it is, the rooms it adds, the text it read
  file,       \* external: how many times each room table is in the file
  inPlace,    \* external: is the file a mount point, which no rename replaces
  meddled,    \* history: since jeha read it, did anything else happen to the file
  spent       \* bound: how much of each bounded event has happened

outside == <<network, joined, inPlace>>
daemon  == <<rx, loop, deviceMap, groupMap, up, listening, events, config, appended>>
vars    == <<outside, lists, daemon, sync, file, meddled, spent>>

\* The promise about the file: what it calls seen is the text that was read, until
\* it is written or the sync fails.  What it is stated with is used below.
Promise == INSTANCE ConfigFile
             WITH NoText  <- None,
                  seen    <- IF sync.at \in {"write", "fill"} THEN sync.existing ELSE None,
                  cleared <- sync.at = "fill"
IdsOf(es)    == Promise!IdsOf(es)
Tables(f)    == Promise!Tables(f)
Distinct(es) == Promise!Distinct(es)
Once(f)      == Promise!Once(f)
Parses(f)    == Promise!Parses(f)
Plus(f, es)  == Promise!Plus(f, es)
Empty        == Promise!Empty

Lists == [list : {"devices"}, devices : SUBSET Devices]
           \union [list : {"groups"}, groups : Network]

Work == [at : {"idle", "read", "write", "fill"}, new : SUBSET Entry, existing : [Entry -> Nat]]
Spending == [changes : Nat, losses : Nat, failures : Nat, crashes : Nat, edits : Nat]

TypeOK ==
  /\ network \in Network /\ joined \in SUBSET Devices
  /\ lists \in Seq(Lists)
  /\ rx \in Seq(Lists) /\ Len(rx) <= QueueCap
  /\ loop \in {"idle", "announce"}
  /\ deviceMap \in SUBSET Devices /\ groupMap \in Network
  /\ up \in BOOLEAN /\ listening \in BOOLEAN
  /\ events \in 0..BusCap
  /\ config \in SUBSET Entry /\ appended \in SUBSET Entry
  /\ sync \in Work
  /\ file \in [Entry -> Nat]
  /\ inPlace \in BOOLEAN /\ meddled \in BOOLEAN
  /\ spent \in Spending

NoGroup == [g \in Groups |-> {}]
Resting == [at |-> "idle", new |-> {}, existing |-> Empty]

DeviceList == [list |-> "devices", devices |-> joined]
GroupList  == [list |-> "groups", groups |-> network]

Init ==
  /\ network \in Networks /\ joined \in SUBSET Devices
  /\ file \in Files
  /\ inPlace \in BOOLEAN
  /\ meddled = FALSE /\ Parses(file)
  /\ up = FALSE /\ listening = FALSE /\ events = 0
  /\ lists = <<>> /\ rx = <<>> /\ loop = "idle"
  /\ deviceMap = {} /\ groupMap = NoGroup
  /\ config = {} /\ appended = {} /\ sync = Resting
  /\ spent = [changes |-> 0, losses |-> 0, failures |-> 0, crashes |-> 0, edits |-> 0]

Bound == [changes |-> MaxChanges, losses |-> MaxLosses, failures |-> MaxFailures,
          crashes |-> MaxCrashes, edits |-> MaxEdits]
Spend(kind) ==
  /\ spent[kind] < Bound[kind]
  /\ spent.changes + spent.losses + spent.failures + spent.crashes + spent.edits < MaxEvents
  /\ spent' = [spent EXCEPT ![kind] = @ + 1]

-----------------------------------------------------------------------------
(* The lists.                                                               *)

\* Retained lists come in either order.
Redelivered == lists' \in {<< DeviceList, GroupList >>, << GroupList, DeviceList >>}

\* handle_bridge_devices, handle_bridge_groups: the command is sent, and then
\* the event goes out.  Nobody but the start-up listens to DevicesUpdated.
HandleList ==
  /\ up /\ loop = "idle"
  /\ lists # <<>> /\ Len(rx) < QueueCap
  /\ lists' = Tail(lists)
  /\ rx' = Append(rx, Head(lists))
  /\ loop' = IF Head(lists).list = "groups" THEN "announce" ELSE "idle"
  /\ UNCHANGED <<outside, deviceMap, groupMap, up, listening, events, config, appended,
                 sync, file, meddled, spent>>

AnnounceGroups ==
  /\ up /\ loop = "announce"
  /\ loop' = "idle"
  /\ events' = IF listening /\ events < BusCap THEN events + 1 ELSE events
  /\ UNCHANGED <<outside, lists, rx, deviceMap, groupMap, up, listening, config, appended,
                 sync, file, meddled, spent>>

\* UpdateDevices and UpdateGroups replace the whole map
ApplyList ==
  /\ up /\ rx # <<>>
  /\ rx' = Tail(rx)
  /\ IF Head(rx).list = "devices"
     THEN deviceMap' = Head(rx).devices /\ UNCHANGED groupMap
     ELSE groupMap' = Head(rx).groups /\ UNCHANGED deviceMap
  /\ UNCHANGED <<outside, lists, loop, up, listening, events, config, appended,
                 sync, file, meddled, spent>>
-----------------------------------------------------------------------------
(* ConfigSync.                                                              *)

\* The start-up waits for the list of devices, 5 s at most, before it spawns
\* the task: what was announced until then the task never hears of.
Subscribe ==
  /\ up /\ ~listening
  /\ listening' = TRUE
  /\ UNCHANGED <<outside, lists, rx, loop, deviceMap, groupMap, up, events, config, appended,
                 sync, file, meddled, spent>>

HasLights(g) == groupMap[g] \cap deviceMap \cap Lights # {}
Known == config \union appended

\* the table that is written for a group: no quotes around the id, no escapes in
\* the name
RoomOf(g) == [id |-> RoomId[g], group |-> g, quoted |-> FALSE]

\* mutant of Candidates: what was appended before is forgotten
CandidatesForgetful ==
  {RoomOf(g) : g \in
     {g \in Groups : HasLights(g) /\ RoomId[g] \notin IdsOf(config)
                       /\ \A e \in config : e.group # g}}

\* the groups with lights that neither the config nor what was appended to it
\* knows, by group or by room id
Candidates ==
  {RoomOf(g) : g \in
     {g \in Groups : HasLights(g) /\ RoomId[g] \notin IdsOf(Known)
                       /\ \A e \in Known : e.group # g}}

\* Of the names that are normalised to one id the first in a hash map's order
\* is taken.
NewRooms == {es \in SUBSET Candidates : Distinct(es) /\ IdsOf(es) = IdsOf(Candidates)}

\* sync_new_groups computes the additions from one snapshot
SyncBegins ==
  /\ up /\ sync.at = "idle" /\ events > 0
  /\ events' = events - 1
  /\ \E es \in NewRooms :
       sync' = IF es = {} THEN sync ELSE [sync EXCEPT !.at = "read", !.new = es]
  /\ UNCHANGED <<outside, lists, rx, loop, deviceMap, groupMap, up, listening, config, appended,
                 file, meddled, spent>>

\* mutant of SyncReads: the text is the one jeha was started with
SyncReadsStart ==
  /\ up /\ sync.at = "read"
  /\ sync' = [sync EXCEPT !.at = "write", !.existing = Plus(Empty, config)]
  /\ UNCHANGED <<outside, lists, daemon, file, meddled, spent>>

SyncReads ==
  /\ up /\ sync.at = "read"
  /\ sync' = [sync EXCEPT !.at = "write", !.existing = file]
  /\ UNCHANGED <<outside, lists, daemon, file, meddled, spent>>

\* write_config: a rename replaces the file at once.  Where the file cannot be
\* replaced it is truncated, and then filled.
SyncWrites ==
  /\ up /\ sync.at = "write"
  /\ IF inPlace
     THEN /\ file' = Empty
          /\ sync' = [sync EXCEPT !.at = "fill"]
          /\ UNCHANGED appended
     ELSE /\ file' = Plus(sync.existing, sync.new)
          /\ appended' = appended \union sync.new
          /\ sync' = Resting
  /\ UNCHANGED <<outside, lists, rx, loop, deviceMap, groupMap, up, listening, events, config,
                 meddled, spent>>

\* mutant of SyncFills: the additions alone are written
SyncFillsAdditions ==
  /\ up /\ sync.at = "fill"
  /\ file' = Plus(Empty, sync.new)
  /\ appended' = appended \union sync.new
  /\ sync' = Resting
  /\ UNCHANGED <<outside, lists, rx, loop, deviceMap, groupMap, up, listening, events, config,
                 meddled, spent>>

SyncFills ==
  /\ up /\ sync.at = "fill"
  /\ file' = Plus(sync.existing, sync.new)
  /\ appended' = appended \union sync.new
  /\ sync' = Resting
  /\ UNCHANGED <<outside, lists, rx, loop, deviceMap, groupMap, up, listening, events, config,
                 meddled, spent>>

\* mutant of SyncFails: what could not be written counts as appended
SyncFailsRecorded ==
  /\ up /\ sync.at \in {"read", "write", "fill"}
  /\ Spend("failures")
  /\ sync' = Resting
  /\ appended' = appended \union sync.new
  /\ meddled' = (meddled \/ sync.at = "fill")
  /\ UNCHANGED <<outside, lists, rx, loop, deviceMap, groupMap, up, listening, events, config, file>>

\* A failed read or write ends the sync, and nothing is recorded: the next
\* event tries again.  A file being filled stays as it is.
SyncFails ==
  /\ up /\ sync.at \in {"read", "write", "fill"}
  /\ Spend("failures")
  /\ sync' = Resting
  /\ meddled' = (meddled \/ sync.at = "fill")
  /\ UNCHANGED <<outside, lists, daemon, file>>

-----------------------------------------------------------------------------
(* The daemon's life, and the outside.                                      *)

\* the config is read again and the rest begins anew; the broker delivers what
\* it retains.  A file that does not parse stops the start.
Start ==
  /\ ~up /\ Parses(file)
  /\ up' = TRUE
  /\ config' = Tables(file)
  /\ meddled' = FALSE
  /\ Redelivered
  /\ UNCHANGED <<outside, rx, loop, deviceMap, groupMap, listening, events, appended,
                 sync, file, spent>>

Crash ==
  /\ up /\ Spend("crashes")
  /\ up' = FALSE /\ listening' = FALSE /\ events' = 0
  /\ lists' = <<>> /\ rx' = <<>> /\ loop' = "idle"
  /\ deviceMap' = {} /\ groupMap' = NoGroup
  /\ config' = {} /\ appended' = {} /\ sync' = Resting
  /\ meddled' = (meddled \/ sync.at = "fill")
  /\ UNCHANGED <<outside, file>>

\* the connection comes back, and with it the retained lists
Reconnect ==
  /\ up
  /\ IF lists = <<>> THEN UNCHANGED spent ELSE Spend("losses")
  /\ Redelivered
  /\ UNCHANGED <<outside, daemon, sync, file, meddled>>

\* groups or devices change, and Z2M publishes the list
NetworkChanges ==
  /\ Spend("changes")
  /\ Len(lists) < 2
  /\ \/ /\ network' \in Networks \ {network}
        /\ UNCHANGED joined
        /\ lists' = IF up THEN Append(lists, GroupList') ELSE lists
     \/ /\ \E d \in Devices \ joined : joined' = joined \union {d}
        /\ UNCHANGED network
        /\ lists' = IF up THEN Append(lists, DeviceList') ELSE lists
  /\ UNCHANGED <<inPlace, daemon, sync, file, meddled>>

\* somebody adds a room to the file, or removes one, and leaves it readable if it
\* was
Edit ==
  /\ Spend("edits")
  /\ \E e \in Edited : file' = [file EXCEPT ![e] = IF @ = 0 THEN 1 ELSE 0]
  /\ Parses(file) => Parses(file')
  /\ meddled' = TRUE
  /\ UNCHANGED <<outside, lists, daemon, sync>>

Syncs == SyncBegins \/ SyncReads \/ SyncWrites \/ SyncFills

Next ==
  \/ HandleList \/ AnnounceGroups \/ ApplyList
  \/ Subscribe \/ Syncs \/ SyncFails
  \/ Start \/ Crash
  \/ Reconnect \/ NetworkChanges \/ Edit

\* The daemon's tasks run, somebody starts it again, and the lists are
\* redelivered time and again: the broker reconnects, or Z2M publishes them.
Fairness ==
  /\ WF_vars(HandleList) /\ WF_vars(AnnounceGroups) /\ WF_vars(ApplyList)
  /\ WF_vars(Subscribe) /\ WF_vars(Syncs)
  /\ WF_vars(Start)
  /\ SF_vars(Reconnect /\ lists = <<>>)

Spec == Init /\ [][Next]_vars
FairSpec == Spec /\ Fairness

-----------------------------------------------------------------------------
(* Properties.                                                              *)

\* However often the lists are redelivered, in whatever order, and whatever
\* fails in between, no room is in the file twice ("duplicate TOML tables make
\* the config unparseable on restart", config_sync.rs), unless somebody edited
\* it while jeha ran or a write was torn.
NoTableTwice == ~meddled => Once(file)

\* So the file can be read at the next start, if every name is a plain one.  One
\* that is not makes it unreadable without anybody's doing.
FileParses == ~meddled => Parses(file)

\* The file as it is before and after a write in place.
Text == IF sync.at = "fill" THEN sync.existing ELSE file

\* No room goes, also when jeha writes a text it read some time ago and has
\* written others since: unless somebody edited the file, or a write was torn.
TakesNothingAway == [][~meddled' => Tables(Text) \subseteq Tables(Text')]_vars

\* The file keeps the promise of ConfigFile: what jeha writes is what it has read
\* and rooms that are new to it, over whatever somebody has written since.
KeepsPromise == Promise!Spec

\* What makes these inductive.  Unless something else happened to the file,
\* its rooms are those ConfigSync knows: what it read at the start and what it
\* has appended since.  What it is about to add it does not know, and no two of
\* the additions have one id; the text it adds them to is the file's.
TextIsKnown ==
  ~meddled =>
    /\ Once(Text)
    /\ up => Tables(Text) = Known
    /\ sync.at = "write" => sync.existing = file
    /\ sync.at = "fill" => file = Empty

AdditionsAreNew ==
  sync.at # "idle" => Distinct(sync.new) /\ IdsOf(sync.new) \cap IdsOf(Known) = {}

RestsWhenDown == up \/ (appended = {} /\ sync.at = "idle")

\* What a sync is about to add collides with nothing in the text it adds it to,
\* although the file, the lists and the daemon may change before it writes.
IInv == TypeOK /\ TextIsKnown /\ AdditionsAreNew /\ RestsWhenDown

Eligible(g) == network[g] \cap joined \cap Lights # {}
Listed(g) == \E e \in Tables(file) : e.group = g \/ e.id = RoomId[g]

\* "jeha auto-discovers new Z2M groups with lights and appends them to the
\* config file" (README.md): also when the list of groups came before that of
\* the devices, when its event came before the state was updated or before
\* anybody listened, and when the file could not be written; provided that the
\* lists come again, and that jeha runs or can be started.
GroupsGetListed ==
  \A g \in Groups : <>[](~meddled /\ (up \/ Parses(file)) /\ Eligible(g) => Listed(g))

=============================================================================
