------------------------- MODULE ConfigSync_proofs --------------------------
(***************************************************************************)
(* No room is in the config file twice and none goes, jeha keeps the       *)
(* promise of ConfigFile, and the file can be read at the next start if    *)
(* the names are plain: for every set of groups, devices and names.        *)
(***************************************************************************)
EXTENDS ConfigSync, TLAPS

LEMMA Caps == QueueCap \in Nat /\ BusCap \in Nat
BY SyncAssumption DEF SyncAssumption

LEMMA Choices == Networks \subseteq Network /\ Files \subseteq [Entry -> Nat]
BY SyncAssumption DEF SyncAssumption

-----------------------------------------------------------------------------
(* The text with new rooms.                                                 *)

\* Adding rooms to a text gives a text.
LEMMA PlusType ==
  ASSUME NEW f \in [Entry -> Nat], NEW es
  PROVE  Plus(f, es) \in [Entry -> Nat]
BY DEF Plus, Promise!Plus

\* Adding rooms with ids of their own to a text that has no room twice gives one
\* that has none twice, with these rooms and no others.
LEMMA PlusOnce ==
  ASSUME NEW f \in [Entry -> Nat], NEW es \in SUBSET Entry,
         Once(f), Distinct(es), IdsOf(es) \cap IdsOf(Tables(f)) = {}
  PROVE  /\ Once(Plus(f, es))
         /\ Tables(Plus(f, es)) = Tables(f) \union es
<1> DEFINE p == Plus(f, es)
<1>1. \A e \in Entry : p[e] = IF e \in es THEN f[e] + 1 ELSE f[e]
  BY DEF Plus, Promise!Plus
<1>2. \A e \in es : f[e] = 0
  BY DEF IdsOf, Promise!IdsOf, Tables, Promise!Tables
<1>3. Tables(p) = Tables(f) \union es
  BY <1>1, <1>2 DEF Tables, Promise!Tables
<1>4. Distinct(Tables(p))
  <2>1. SUFFICES ASSUME NEW e1 \in Tables(f) \union es, NEW e2 \in Tables(f) \union es,
                        e1.id = e2.id
                 PROVE  e1 = e2
    BY <1>3 DEF Distinct, Promise!Distinct
  <2>2. Distinct(Tables(f))
    BY DEF Once, Promise!Once, Distinct, Tables
  <2>3. e1 \in Tables(f) <=> e2 \in Tables(f)
    BY <2>1 DEF IdsOf, Promise!IdsOf
  <2> QED
    BY <2>1, <2>2, <2>3 DEF Distinct, Promise!Distinct
<1>5. \A e \in Entry : p[e] <= 1
  BY <1>1, <1>2 DEF Once, Promise!Once
<1> QED
  BY <1>3, <1>4, <1>5 DEF Once, Promise!Once, Distinct, Tables

\* The empty text is a text without rooms.
LEMMA EmptyType == Empty \in [Entry -> Nat] /\ Once(Empty) /\ Tables(Empty) = {}
BY DEF Empty, Promise!Empty, Once, Promise!Once, Promise!Distinct, Promise!Tables, Tables

\* What can be read has no room twice.
LEMMA ParsedOnce ==
  ASSUME NEW f, Parses(f)
  PROVE  Once(f) /\ Tables(f) \subseteq Legible
BY DEF Parses, Promise!Parses, Once, Tables

-----------------------------------------------------------------------------
(* Type correctness.                                                        *)

LEMMA RestingType == Resting \in Work
BY EmptyType DEF Resting, Work

LEMMA InitType == Init => TypeOK
<1> SUFFICES ASSUME Init PROVE TypeOK
  OBVIOUS
<1>1. spent \in Spending
  BY DEF Init, Spending
<1>2. network \in Network /\ groupMap \in Network /\ file \in [Entry -> Nat]
  BY Choices DEF Init, NoGroup, Network
<1>3. events \in 0..BusCap /\ Len(rx) <= QueueCap
  BY Caps DEF Init
<1>4. lists \in Seq(Lists) /\ rx \in Seq(Lists)
  BY DEF Init
<1>5. up \in BOOLEAN /\ listening \in BOOLEAN /\ inPlace \in BOOLEAN /\ meddled \in BOOLEAN
  BY Zenon DEF Init
<1> QED
  BY <1>1, <1>2, <1>3, <1>4, <1>5, RestingType DEF Init, TypeOK

LEMMA ListTypes ==
  ASSUME TypeOK
  PROVE  DeviceList \in Lists /\ GroupList \in Lists
BY DEF Lists, DeviceList, GroupList, TypeOK

LEMMA RedeliveredType ==
  ASSUME TypeOK, Redelivered
  PROVE  lists' \in Seq(Lists)
<1> DEFINE d == DeviceList
           g == GroupList
<1>1. d \in Lists /\ g \in Lists
  BY ListTypes
<1>2. << d, g >> \in Seq(Lists) /\ << g, d >> \in Seq(Lists)
  <2> HIDE DEF d, g
  <2> QED BY <1>1
<1> QED
  BY <1>2 DEF Redelivered

LEMMA SpendType ==
  ASSUME TypeOK, NEW kind \in {"changes", "losses", "failures", "crashes", "edits"}, Spend(kind)
  PROVE  spent' \in Spending
<1>1. spent \in Spending /\ spent' = [spent EXCEPT ![kind] = @ + 1]
  BY DEF TypeOK, Spend
<1> QED
  BY <1>1 DEF Spending

Flags == up \in BOOLEAN /\ listening \in BOOLEAN /\ inPlace \in BOOLEAN /\ meddled \in BOOLEAN

\* the flags stay flags
LEMMA FlagsType == Flags /\ [Next]_vars => Flags'
<1> SUFFICES ASSUME Flags, [Next]_vars PROVE Flags'
  OBVIOUS
<1> USE DEF Flags, outside, daemon, Syncs
<1>1. CASE HandleList \/ AnnounceGroups \/ ApplyList \/ Subscribe
  BY <1>1, Zenon DEF TypeOK, HandleList, AnnounceGroups, ApplyList, Subscribe
<1>2. CASE Syncs
  BY <1>2, Zenon DEF TypeOK, SyncBegins, SyncReads, SyncWrites, SyncFills
<1>3. CASE SyncFails \/ Start \/ Crash
  BY <1>3, Zenon DEF TypeOK, SyncFails, Start, Crash
<1>4. CASE Reconnect \/ NetworkChanges \/ Edit
  BY <1>4, Zenon DEF TypeOK, Reconnect, NetworkChanges, Edit
<1>5. CASE UNCHANGED vars
  BY <1>5, Zenon DEF TypeOK, vars
<1> QED
  BY <1>1, <1>2, <1>3, <1>4, <1>5, Zenon DEF TypeOK, Next

\* What is added are rooms, under ids of their own that nothing known has.
LEMMA NewRoomsType ==
  ASSUME NEW es \in NewRooms
  PROVE  /\ es \in SUBSET Entry
         /\ Distinct(es)
         /\ IdsOf(es) \cap IdsOf(Known) = {}
<1>1. Candidates \in SUBSET Entry
  <2>1. \A g \in Groups : RoomOf(g) \in Entry
    BY SyncAssumption DEF RoomOf, Entry, SyncAssumption
  <2> QED
    BY <2>1 DEF Candidates
<1>2. IdsOf(Candidates) \cap IdsOf(Known) = {}
  <2>1. \A g \in Groups : RoomOf(g).id = RoomId[g]
    BY DEF RoomOf
  <2> QED
    BY <2>1 DEF Candidates, IdsOf, Promise!IdsOf
<1> QED
  BY <1>1, <1>2 DEF NewRooms

\* A handler or a task of the daemon keeps the types.
LEMMA StepType == TypeOK /\ [Next]_vars => TypeOK'
<1> SUFFICES ASSUME TypeOK, [Next]_vars PROVE TypeOK'
  OBVIOUS
<1>0. up' \in BOOLEAN /\ listening' \in BOOLEAN /\ inPlace' \in BOOLEAN /\ meddled' \in BOOLEAN
  BY FlagsType, Zenon DEF TypeOK, Flags
<1>1. CASE HandleList
  <2>1. Head(lists) \in Lists /\ lists' \in Seq(Lists)
    BY <1>1 DEF TypeOK, HandleList
  <2>2. rx' \in Seq(Lists) /\ Len(rx') <= QueueCap
    BY <1>1, <2>1, Caps DEF TypeOK, HandleList
  <2> QED
    BY <1>0, <1>1, <2>1, <2>2 DEF TypeOK, HandleList, outside
<1>2. CASE AnnounceGroups
  <2>1. events' \in 0..BusCap
    BY <1>2, Caps DEF TypeOK, AnnounceGroups
  <2> QED
    BY <1>0, <1>2, <2>1 DEF TypeOK, AnnounceGroups, outside
<1>3. CASE ApplyList
  <2>1. Head(rx) \in Lists
    BY <1>3 DEF TypeOK, ApplyList
  <2>2. deviceMap' \in SUBSET Devices /\ groupMap' \in Network
    BY <1>3, <2>1 DEF TypeOK, ApplyList, Lists
  <2>3. rx' \in Seq(Lists) /\ Len(rx') <= QueueCap
    BY <1>3, Caps DEF TypeOK, ApplyList
  <2> QED
    BY <1>0, <1>3, <2>2, <2>3 DEF TypeOK, ApplyList, outside
<1>4. CASE Subscribe
  BY <1>0, <1>4 DEF TypeOK, Subscribe, outside
<1>5. CASE SyncBegins
  <2>1. events' \in 0..BusCap
    BY <1>5, Caps DEF TypeOK, SyncBegins
  <2>2. sync' \in Work
    <3>1. PICK es \in NewRooms :
            sync' = IF es = {} THEN sync ELSE [sync EXCEPT !.at = "read", !.new = es]
      BY <1>5 DEF SyncBegins
    <3> QED
      BY <3>1, NewRoomsType DEF TypeOK, Work
  <2> QED
    BY <1>0, <1>5, <2>1, <2>2 DEF TypeOK, SyncBegins, outside
<1>6. CASE SyncReads
  <2>1. sync' \in Work
    BY <1>6 DEF TypeOK, SyncReads, Work
  <2> QED
    BY <1>0, <1>6, <2>1 DEF TypeOK, SyncReads, outside, daemon
<1>7. CASE SyncWrites
  <2>1. file' \in [Entry -> Nat]
    <3>1. sync.existing \in [Entry -> Nat]
      BY DEF TypeOK, Work
    <3> QED
      BY <1>7, <3>1, PlusType, EmptyType DEF SyncWrites
  <2>2. sync' \in Work
    BY <1>7, RestingType DEF TypeOK, SyncWrites, Work
  <2>3. appended' \in SUBSET Entry
    BY <1>7 DEF TypeOK, SyncWrites, Work
  <2> QED
    BY <1>0, <1>7, <2>1, <2>2, <2>3 DEF TypeOK, SyncWrites, outside
<1>8. CASE SyncFills
  <2>1. file' \in [Entry -> Nat] /\ appended' \in SUBSET Entry
    BY <1>8, PlusType DEF TypeOK, SyncFills, Work
  <2> QED
    BY <1>0, <1>8, <2>1, RestingType DEF TypeOK, SyncFills, outside
<1>9. CASE SyncFails
  BY <1>0, <1>9, RestingType, SpendType DEF TypeOK, SyncFails, outside, daemon
<1>10. CASE Start
  <2>1. lists' \in Seq(Lists)
    BY <1>10, RedeliveredType DEF Start
  <2>2. config' \in SUBSET Entry
    BY <1>10 DEF Start, Tables, Promise!Tables
  <2> QED
    BY <1>0, <1>10, <2>1, <2>2 DEF TypeOK, Start, outside
<1>11. CASE Crash
  <2>1. spent' \in Spending
    BY <1>11, SpendType DEF Crash
  <2>2. groupMap' \in Network /\ events' \in 0..BusCap /\ Len(rx') <= QueueCap
    BY <1>11, Caps DEF Crash, NoGroup, Network
  <2> QED
    BY <1>0, <1>11, <2>1, <2>2, RestingType DEF TypeOK, Crash, outside
<1>12. CASE Reconnect
  <2>1. lists' \in Seq(Lists)
    BY <1>12, RedeliveredType DEF Reconnect
  <2>2. spent' \in Spending
    BY <1>12, SpendType DEF Reconnect, TypeOK
  <2> QED
    BY <1>0, <1>12, <2>1, <2>2 DEF TypeOK, Reconnect, outside, daemon
<1>13. CASE NetworkChanges
  <2>1. spent' \in Spending
    BY <1>13, SpendType DEF NetworkChanges
  <2>2. network' \in Network /\ joined' \in SUBSET Devices
    BY <1>13, Choices DEF TypeOK, NetworkChanges
  <2>3. DeviceList' \in Lists /\ GroupList' \in Lists
    BY <2>2 DEF Lists, DeviceList, GroupList
  <2>4. lists' \in Seq(Lists)
    BY <1>13, <2>3 DEF TypeOK, NetworkChanges
  <2> QED
    BY <1>0, <1>13, <2>1, <2>2, <2>4 DEF TypeOK, NetworkChanges, daemon
<1>14. CASE Edit
  <2>1. spent' \in Spending
    BY <1>14, SpendType DEF Edit
  <2>2. file' \in [Entry -> Nat]
    <3>1. PICK e \in Edited : file' = [file EXCEPT ![e] = IF @ = 0 THEN 1 ELSE 0]
      BY <1>14 DEF Edit
    <3> QED
      BY <3>1 DEF TypeOK
  <2> QED
    BY <1>0, <1>14, <2>1, <2>2 DEF TypeOK, Edit, outside, daemon
<1>15. CASE UNCHANGED vars
  BY <1>0, <1>15 DEF TypeOK, vars, outside, daemon
<1> QED
  BY <1>1, <1>2, <1>3, <1>4, <1>5, <1>6, <1>7, <1>8, <1>9, <1>10, <1>11, <1>12, <1>13,
     <1>14, <1>15 DEF Next, Syncs

-----------------------------------------------------------------------------
(* The inductive invariant.                                                 *)

LEMMA InitIInv == Init => IInv
<1> SUFFICES ASSUME Init PROVE IInv
  OBVIOUS
<1>1. Text = file /\ sync.at = "idle"
  BY DEF Init, Resting, Text
<1>2. TextIsKnown
  BY <1>1, ParsedOnce DEF Init, TextIsKnown
<1>3. AdditionsAreNew /\ RestsWhenDown
  BY <1>1 DEF Init, AdditionsAreNew, RestsWhenDown
<1> QED
  BY <1>2, <1>3, InitType DEF IInv

\* What the invariant is about.
Watched == <<up, config, appended, sync, file, meddled>>

LEMMA Unwatched ==
  ASSUME IInv, UNCHANGED Watched
  PROVE  TextIsKnown' /\ AdditionsAreNew' /\ RestsWhenDown'
BY DEF IInv, Watched, TextIsKnown, AdditionsAreNew, RestsWhenDown, Text, Known

\* The text that is written when nothing else happened to the file: what
\* ConfigSync knows, and the additions.
LEMMA WrittenText ==
  ASSUME IInv, ~meddled, up, sync.at \in {"write", "fill"}
  PROVE  /\ Once(Plus(sync.existing, sync.new))
         /\ Tables(Plus(sync.existing, sync.new)) = Known \union sync.new
         /\ sync.existing = Text
         /\ sync.existing \in [Entry -> Nat] /\ sync.new \in SUBSET Entry
         /\ Distinct(sync.new) /\ IdsOf(sync.new) \cap IdsOf(Tables(sync.existing)) = {}
<1>1. sync.existing = Text
  BY DEF IInv, TextIsKnown, Text
<1>2. Once(sync.existing) /\ Tables(sync.existing) = Known
  BY <1>1 DEF IInv, TextIsKnown
<1>3. Distinct(sync.new) /\ IdsOf(sync.new) \cap IdsOf(Known) = {}
  BY DEF IInv, AdditionsAreNew
<1>4. sync.existing \in [Entry -> Nat] /\ sync.new \in SUBSET Entry
  BY DEF IInv, TypeOK, Work
<1> QED
  BY <1>1, <1>2, <1>3, <1>4, PlusOnce

\* Each step keeps the invariant.
LEMMA StepIInv == IInv /\ [Next]_vars => IInv'
<1> SUFFICES ASSUME IInv, [Next]_vars PROVE TextIsKnown' /\ AdditionsAreNew' /\ RestsWhenDown'
  BY StepType DEF IInv
<1>0. sync \in Work
  BY DEF IInv, TypeOK
<1>1. CASE HandleList \/ AnnounceGroups \/ ApplyList \/ Subscribe
  BY <1>1, Unwatched DEF HandleList, AnnounceGroups, ApplyList, Subscribe, Watched
<1>2. CASE Reconnect \/ NetworkChanges \/ UNCHANGED vars
  BY <1>2, Unwatched DEF Reconnect, NetworkChanges, vars, daemon, Watched
<1>3. CASE SyncBegins
  <2>1. PICK es \in NewRooms :
          sync' = IF es = {} THEN sync ELSE [sync EXCEPT !.at = "read", !.new = es]
    BY <1>3 DEF SyncBegins
  <2>2. UNCHANGED <<up, config, appended, file, meddled>> /\ up /\ sync.at = "idle"
    BY <1>3 DEF SyncBegins
  <2>3. CASE es = {}
    BY <2>1, <2>2, <2>3, Unwatched DEF Watched
  <2>4. CASE es # {}
    <3>1. sync'.at = "read" /\ sync'.new = es
      BY <2>1, <2>4, <1>0 DEF Work
    <3>2. AdditionsAreNew'
      BY <2>2, <3>1, NewRoomsType DEF AdditionsAreNew, Known
    <3>3. TextIsKnown'
      BY <2>2, <3>1 DEF IInv, TextIsKnown, Text, Known
    <3> QED
      BY <2>2, <3>2, <3>3 DEF RestsWhenDown
  <2> QED
    BY <2>3, <2>4
<1>4. CASE SyncReads
  <2>1. /\ sync'.at = "write" /\ sync'.new = sync.new /\ sync'.existing = file
        /\ UNCHANGED <<up, config, appended, file, meddled>> /\ up /\ sync.at = "read"
    BY <1>4, <1>0 DEF SyncReads, Work, daemon
  <2> QED
    BY <2>1 DEF IInv, TextIsKnown, AdditionsAreNew, RestsWhenDown, Text, Known
<1>5. CASE SyncWrites
  <2>1. UNCHANGED <<up, config, meddled>> /\ up /\ sync.at = "write"
    BY <1>5 DEF SyncWrites
  <2>2. CASE inPlace
    <3>1. /\ sync'.at = "fill" /\ sync'.new = sync.new /\ sync'.existing = sync.existing
          /\ file' = Empty /\ UNCHANGED appended
      BY <1>5, <2>2, <1>0 DEF SyncWrites, Work
    <3>2. ~meddled => Text' = Text
      BY <2>1, <3>1 DEF IInv, TextIsKnown, Text
    <3> QED
      BY <2>1, <3>1, <3>2 DEF IInv, TextIsKnown, AdditionsAreNew, RestsWhenDown, Known
  <2>3. CASE ~inPlace
    <3>1. /\ sync'.at = "idle" /\ file' = Plus(sync.existing, sync.new)
          /\ appended' = appended \union sync.new
      BY <1>5, <2>3 DEF SyncWrites, Resting
    <3>2. TextIsKnown'
      BY <2>1, <3>1, WrittenText DEF TextIsKnown, Text, Known
    <3> QED
      BY <2>1, <3>1, <3>2 DEF AdditionsAreNew, RestsWhenDown
  <2> QED
    BY <2>2, <2>3
<1>6. CASE SyncFills
  <2>1. /\ sync'.at = "idle" /\ file' = Plus(sync.existing, sync.new)
        /\ appended' = appended \union sync.new
        /\ UNCHANGED <<up, config, meddled>> /\ up /\ sync.at = "fill"
    BY <1>6 DEF SyncFills, Resting
  <2>2. TextIsKnown'
    BY <2>1, WrittenText DEF TextIsKnown, Text, Known
  <2> QED
    BY <2>1, <2>2 DEF AdditionsAreNew, RestsWhenDown
<1>7. CASE SyncFails
  <2>1. sync'.at = "idle" /\ UNCHANGED <<up, config, appended, file>> /\ up
    BY <1>7 DEF SyncFails, Resting, daemon
  <2>2. ~meddled' => ~meddled /\ sync.at # "fill"
    BY <1>7 DEF SyncFails
  <2> QED
    BY <2>1, <2>2 DEF IInv, TextIsKnown, AdditionsAreNew, RestsWhenDown, Text, Known
<1>8. CASE Start
  <2>1. /\ UNCHANGED <<appended, sync, file>> /\ up' /\ config' = Tables(file)
        /\ Parses(file) /\ ~up
    BY <1>8 DEF Start
  <2>2. appended = {} /\ sync.at = "idle"
    BY <2>1 DEF IInv, RestsWhenDown
  <2> QED
    BY <2>1, <2>2, ParsedOnce DEF TextIsKnown, AdditionsAreNew, RestsWhenDown, Text, Known
<1>9. CASE Crash
  <2>1. ~up' /\ appended' = {} /\ sync'.at = "idle" /\ UNCHANGED file
    BY <1>9 DEF Crash, Resting
  <2>2. ~meddled' => ~meddled /\ sync.at # "fill"
    BY <1>9 DEF Crash
  <2> QED
    BY <2>1, <2>2 DEF IInv, TextIsKnown, AdditionsAreNew, RestsWhenDown, Text
<1>10. CASE Edit
  <2>1. meddled' /\ UNCHANGED <<up, config, appended, sync>>
    BY <1>10 DEF Edit, daemon
  <2> QED
    BY <2>1 DEF IInv, TextIsKnown, AdditionsAreNew, RestsWhenDown, Known
<1> QED
  BY <1>1, <1>2, <1>3, <1>4, <1>5, <1>6, <1>7, <1>8, <1>9, <1>10 DEF Next, Syncs

THEOREM Invariance == Spec => []IInv
<1>1. Init => IInv
  BY InitIInv
<1>2. IInv /\ [Next]_vars => IInv'
  BY StepIInv
<1> QED
  BY <1>1, <1>2, PTL DEF Spec

\* Every variable keeps its type, and the queues their bounds.
THEOREM TypeCorrect == Spec => []TypeOK
<1>1. IInv => TypeOK
  BY DEF IInv
<1> QED
  BY <1>1, Invariance, PTL

\* Unless somebody edited the file while jeha ran, or a write was torn, no room
\* is in the file twice.
THEOREM NeverTwice == Spec => []NoTableTwice
<1>1. IInv => NoTableTwice
  <2> SUFFICES ASSUME IInv, ~meddled PROVE Once(file)
    BY DEF NoTableTwice
  <2>1. CASE sync.at = "fill"
    BY <2>1, EmptyType DEF IInv, TextIsKnown
  <2>2. CASE sync.at # "fill"
    BY <2>2 DEF IInv, TextIsKnown, Text
  <2> QED
    BY <2>1, <2>2
<1> QED
  BY <1>1, Invariance, PTL

-----------------------------------------------------------------------------
(* What a step does to the text.                                            *)

\* When nothing else happens to the file, the text stays, or gets the rooms that a
\* sync adds to those that are known.
LEMMA StepText ==
  ASSUME IInv, [Next]_vars, ~meddled'
  PROVE  \/ Text' = Text
         \/ Tables(Text') = Tables(Text) \union sync.new
<1>0. sync \in Work
  BY DEF IInv, TypeOK
<1>1. CASE HandleList \/ AnnounceGroups \/ ApplyList \/ Subscribe
  BY <1>1 DEF HandleList, AnnounceGroups, ApplyList, Subscribe, Text
<1>2. CASE Reconnect \/ NetworkChanges \/ UNCHANGED vars
  BY <1>2 DEF Reconnect, NetworkChanges, vars, Text
<1>3. CASE SyncBegins \/ SyncReads
  BY <1>3, <1>0 DEF SyncBegins, SyncReads, Work, Text
<1>4. CASE SyncWrites /\ inPlace
  <2>1. /\ ~meddled /\ sync.at = "write"
        /\ sync'.at = "fill" /\ sync'.existing = sync.existing
    BY <1>4, <1>0 DEF SyncWrites, Work
  <2> QED
    BY <2>1 DEF IInv, TextIsKnown, Text
<1>5. CASE SyncFills \/ (SyncWrites /\ ~inPlace)
  <2>1. /\ ~meddled /\ up /\ sync.at \in {"write", "fill"}
        /\ sync'.at = "idle" /\ file' = Plus(sync.existing, sync.new)
    BY <1>5 DEF SyncFills, SyncWrites, Resting
  <2>2. Tables(file') = Known \union sync.new /\ Tables(Text) = Known
    BY <2>1, WrittenText DEF IInv, TextIsKnown
  <2> QED
    BY <2>1, <2>2 DEF Text
<1>6. CASE SyncFails \/ Crash
  <2>1. meddled' = (meddled \/ sync.at = "fill")
    BY <1>6 DEF SyncFails, Crash
  <2>2. sync'.at = "idle" /\ UNCHANGED file
    BY <1>6 DEF SyncFails, Crash, Resting
  <2>3. sync.at # "fill"
    BY <2>1
  <2> QED
    BY <2>2, <2>3 DEF Text
<1>7. CASE Start
  BY <1>7 DEF Start, Text
<1>8. CASE Edit
  BY <1>8 DEF Edit
<1> QED
  BY <1>1, <1>2, <1>3, <1>4, <1>5, <1>6, <1>7, <1>8 DEF Next, Syncs

\* No room goes from the file when jeha writes what it has read some time ago,
\* unless somebody edited the file, or a write was torn.
THEOREM NothingGoes == Spec => TakesNothingAway
<1>1. IInv /\ [Next]_vars => [~meddled' => Tables(Text) \subseteq Tables(Text')]_vars
  BY StepText
<1> QED
  BY <1>1, Invariance, PTL DEF Spec, TakesNothingAway

-----------------------------------------------------------------------------
(* Names that TOML takes as they are.                                       *)

\* What has been read, and what is added to it, can be read.
LegibleText == /\ ~meddled => Tables(Text) \subseteq Legible
               /\ sync.new \subseteq Legible

LEMMA InitLegible == Init => LegibleText
<1> SUFFICES ASSUME Init PROVE LegibleText
  OBVIOUS
<1> QED
  BY ParsedOnce DEF Init, Resting, Text, LegibleText

LEMMA StepLegible ==
  ASSUME Groups \subseteq Plain, IInv, [Next]_vars, LegibleText
  PROVE  LegibleText'
<1>1. sync'.new \subseteq Legible
  <2>0. sync \in Work
    BY DEF IInv, TypeOK
  <2>1. CASE SyncBegins
    <3>1. PICK es \in NewRooms :
            sync' = IF es = {} THEN sync ELSE [sync EXCEPT !.at = "read", !.new = es]
      BY <2>1 DEF SyncBegins
    <3>2. \A g \in Groups : RoomOf(g) \in Legible
      BY SyncAssumption DEF RoomOf, Entry, Legible, SyncAssumption
    <3>3. es \subseteq Legible
      BY <3>2 DEF NewRooms, Candidates
    <3> QED
      BY <3>1, <3>3, <2>0 DEF Work, LegibleText
  <2>2. CASE sync'.new = sync.new \/ sync' = Resting
    BY <2>2 DEF LegibleText, Resting
  <2>3. CASE ~SyncBegins
    <3>1. CASE SyncReads \/ SyncWrites \/ SyncFills \/ SyncFails \/ Crash
      BY <3>1, <2>0, <2>2 DEF SyncReads, SyncWrites, SyncFills, SyncFails, Crash, Work
    <3> QED
      BY <3>1, <2>2, <2>3 DEF Next, Syncs, HandleList, AnnounceGroups, ApplyList, Subscribe,
         Start, Reconnect, NetworkChanges, Edit, vars
  <2> QED
    BY <2>1, <2>3
<1>2. ASSUME ~meddled' PROVE Tables(Text') \subseteq Legible
  <2>1. CASE Start
    <3>1. sync.at = "idle" /\ UNCHANGED <<sync, file>> /\ Parses(file)
      BY <2>1 DEF IInv, RestsWhenDown, Start
    <3> QED
      BY <3>1, ParsedOnce DEF Text
  <2>2. CASE ~Start
    <3>1. ~meddled
      BY <1>2, <2>2 DEF Next, Syncs, HandleList, AnnounceGroups, ApplyList, Subscribe,
         SyncBegins, SyncReads, SyncWrites, SyncFills, SyncFails, Crash, Reconnect,
         NetworkChanges, Edit, vars
    <3> QED
      BY <1>2, <3>1, StepText DEF LegibleText
  <2> QED
    BY <2>1, <2>2
<1> QED
  BY <1>1, <1>2 DEF LegibleText

\* If TOML takes every name of a group, and the id made of it, as it is, jeha can
\* be started again on the file; unless somebody edited it while jeha ran, or a
\* write was torn.
THEOREM FileStaysReadable ==
  ASSUME Groups \subseteq Plain
  PROVE  Spec => []FileParses
<1>1. Init => LegibleText
  BY InitLegible
<1>2. IInv /\ LegibleText /\ [Next]_vars => LegibleText'
  BY StepLegible
<1>3. IInv /\ LegibleText => FileParses
  <2> SUFFICES ASSUME IInv, LegibleText, ~meddled PROVE Parses(file)
    BY DEF FileParses
  <2>1. Once(file) /\ Tables(file) \subseteq Legible
    BY EmptyType DEF IInv, TextIsKnown, LegibleText, Text
  <2> QED
    BY <2>1 DEF Once, Parses, Promise!Parses, Tables
<1> QED
  BY <1>1, <1>2, <1>3, Invariance, PTL DEF Spec

-----------------------------------------------------------------------------
(* The promise about the file.                                              *)

\* what the promise calls seen, and cleared
Seen    == IF sync.at \in {"write", "fill"} THEN sync.existing ELSE None
Cleared == sync.at = "fill"
Promised == <<file, Seen, Cleared, meddled>>

LEMMA InitPromise == Init => Promise!Init
<1> SUFFICES ASSUME Init PROVE Promise!Init
  OBVIOUS
<1>1. file \in [Entry -> Nat] /\ Parses(file) /\ meddled = FALSE /\ sync.at = "idle"
  BY Choices DEF Init, Resting
<1> QED
  BY <1>1 DEF Promise!Init, Promise!Text, Parses

\* A text that was read is a text.
LEMMA SeenText ==
  ASSUME IInv
  PROVE  /\ sync \in Work /\ sync.existing \in [Entry -> Nat]
         /\ sync.existing # None
BY NoneIsNoText DEF IInv, TypeOK, Work

\* The daemon's own steps that have nothing to do with the file.
LEMMA PromiseIdle ==
  ASSUME IInv, UNCHANGED <<file, meddled>>,
         \/ UNCHANGED sync
         \/ sync.at \in {"idle", "read"} /\ sync'.at \in {"idle", "read"}
  PROVE  UNCHANGED Promised
BY DEF Promised, Seen, Cleared

LEMMA PromiseLook ==
  ASSUME IInv, SyncReads
  PROVE  Promise!Look
<1>1. sync.at = "read" /\ sync'.at = "write" /\ sync'.existing = file
  BY SeenText DEF SyncReads, Work
<1>2. UNCHANGED <<file, meddled>>
  BY DEF SyncReads
<1> QED
  BY <1>1, <1>2 DEF Promise!Look

LEMMA PromiseClear ==
  ASSUME IInv, SyncWrites, inPlace
  PROVE  Promise!Clear
<1>1. /\ sync.at = "write" /\ sync'.at = "fill" /\ sync'.existing = sync.existing
      /\ file' = Empty /\ UNCHANGED meddled
  BY SeenText DEF SyncWrites, Work
<1> QED
  BY <1>1, SeenText DEF Promise!Clear, Empty

\* The additions are what there is more of than was seen.
LEMMA PromiseAdd ==
  ASSUME IInv, SyncFills \/ (SyncWrites /\ ~inPlace)
  PROVE  Promise!Add
<1>1. /\ up /\ sync.at \in {"write", "fill"} /\ sync'.at = "idle"
      /\ file' = Plus(sync.existing, sync.new) /\ UNCHANGED meddled
  BY DEF SyncFills, SyncWrites, Resting
<1>2. sync.new \in SUBSET Entry
  BY SeenText DEF Work
<1>3. {e \in Entry : file'[e] > sync.existing[e]} = sync.new
  <2>1. \A e \in Entry : file'[e] = IF e \in sync.new THEN sync.existing[e] + 1
                                                     ELSE sync.existing[e]
    BY <1>1 DEF Plus, Promise!Plus
  <2> QED
    BY <1>2, <2>1, SeenText
<1>4. Promise!Distinct(sync.new)
  BY <1>1 DEF IInv, AdditionsAreNew, Distinct
<1>5. ~meddled => Promise!IdsOf(sync.new) \cap Promise!IdsOf(Promise!Tables(sync.existing)) = {}
  BY <1>1, WrittenText DEF IdsOf, Tables
<1>6. file' = Promise!Plus(sync.existing, sync.new)
  BY <1>1 DEF Plus
<1> QED
  BY <1>1, <1>3, <1>4, <1>5, <1>6, SeenText DEF Promise!Add

LEMMA PromiseGiveUp ==
  ASSUME IInv, SyncFails \/ Crash
  PROVE  Promise!GiveUp \/ UNCHANGED Promised
<1>1. sync'.at = "idle" /\ UNCHANGED file
  BY DEF SyncFails, Crash, Resting
<1>2. meddled' = (meddled \/ sync.at = "fill")
  BY DEF SyncFails, Crash
<1>3. CASE sync.at \in {"write", "fill"}
  BY <1>1, <1>2, <1>3, SeenText DEF Promise!GiveUp
<1>4. CASE sync.at \in {"idle", "read"}
  <2>1. meddled' = meddled
    <3>1. (sync.at = "fill") = FALSE
      BY <1>4
    <3>2. meddled \in BOOLEAN
      BY DEF IInv, TypeOK
    <3> QED
      BY <1>2, <3>1, <3>2, Zenon
  <2> QED
    BY <1>1, <1>4, <2>1, PromiseIdle
<1> QED
  BY <1>3, <1>4, SeenText DEF Work

LEMMA StepPromise == IInv /\ IInv' /\ [Next]_vars => [Promise!Next]_Promised
<1> SUFFICES ASSUME IInv, IInv', [Next]_vars
             PROVE  Promise!Next \/ UNCHANGED Promised
  OBVIOUS
<1>1. CASE HandleList \/ AnnounceGroups \/ ApplyList \/ Subscribe
  BY <1>1, PromiseIdle DEF HandleList, AnnounceGroups, ApplyList, Subscribe
<1>2. CASE Reconnect \/ NetworkChanges \/ UNCHANGED vars
  BY <1>2, PromiseIdle DEF Reconnect, NetworkChanges, vars
<1>3. CASE SyncBegins
  <2>1. sync.at = "idle" /\ (sync' = sync \/ sync'.at = "read") /\ UNCHANGED <<file, meddled>>
    BY <1>3, SeenText DEF SyncBegins, Work
  <2> QED
    BY <2>1, PromiseIdle
<1>4. CASE SyncReads
  BY <1>4, PromiseLook DEF Promise!Next
<1>5. CASE SyncWrites /\ inPlace
  BY <1>5, PromiseClear DEF Promise!Next
<1>6. CASE SyncFills \/ (SyncWrites /\ ~inPlace)
  BY <1>6, PromiseAdd DEF Promise!Next
<1>7. CASE SyncFails \/ Crash
  BY <1>7, PromiseGiveUp DEF Promise!Next
<1>8. CASE Start
  <2>1. sync.at = "idle" /\ UNCHANGED <<sync, file>> /\ meddled' = FALSE /\ Parses(file)
    BY <1>8 DEF IInv, RestsWhenDown, Start
  <2> QED
    BY <2>1 DEF Promise!Next, Promise!Reload, Parses
<1>9. CASE Edit
  <2>1. meddled' = TRUE /\ UNCHANGED sync
    BY <1>9 DEF Edit
  <2>2. file' \in [Entry -> Nat]
    BY DEF IInv, TypeOK
  <2> QED
    BY <2>1, <2>2 DEF Promise!Next, Promise!Meddle, Promise!Text
<1> QED
  BY <1>1, <1>2, <1>3, <1>4, <1>5, <1>6, <1>7, <1>8, <1>9 DEF Next, Syncs

\* What jeha writes is what it has read, and rooms with ids of their own that are
\* new to it, across lost connections, failed writes, crashes and restarts.
\* Somebody else's write is not one of its own steps.
THEOREM PromiseKept == Spec => KeepsPromise
<1>1. Init => Promise!Init
  BY InitPromise
<1>2. IInv /\ IInv' /\ [Next]_vars => [Promise!Next]_Promised
  BY StepPromise
<1> QED
  BY <1>1, <1>2, Invariance, PTL DEF Spec, KeepsPromise, Promise!Spec, Promised, Seen, Cleared

=============================================================================
