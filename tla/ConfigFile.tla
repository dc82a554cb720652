----------------------------- MODULE ConfigFile -----------------------------
(***************************************************************************)
(* What jeha promises about its config file (config_sync.rs,               *)
(* config/mod.rs).  It looks at the file, and later puts what it saw there *)
(* with new room tables behind it: two steps, between which somebody else  *)
(* may write.  As long as nobody does, what it adds has an id that was not *)
(* there, because "duplicate TOML tables make the config unparseable on    *)
(* restart"; and what was there stays.                                     *)
(***************************************************************************)
EXTENDS Naturals

CONSTANTS
  Entry,     \* the room tables there can be: records with an "id"
  Legible,   \* those that can be read as they are written
  NoText     \* no text: jeha is not about to write

VARIABLES
  file,      \* how many times each room table is in the file
  seen,      \* the text jeha has read and is about to add to
  cleared,   \* has jeha emptied the file to fill it again
  meddled    \* has anything else happened to the file since jeha started

Text == [Entry -> Nat]

Tables(f)    == {e \in Entry : f[e] > 0}
IdsOf(es)    == {e.id : e \in es}
Distinct(es) == \A e1, e2 \in es : e1.id = e2.id => e1 = e2

\* no room table is defined twice
Once(f) == Distinct(Tables(f)) /\ \A e \in Entry : f[e] <= 1

\* what the TOML parser takes: no table twice, and none it cannot read
Parses(f) == Once(f) /\ Tables(f) \subseteq Legible

Plus(f, es) == [e \in Entry |-> IF e \in es THEN f[e] + 1 ELSE f[e]]
Empty       == [e \in Entry |-> 0]

Init == file \in Text /\ Parses(file) /\ seen = NoText /\ cleared = FALSE /\ meddled = FALSE

Look == seen = NoText /\ seen' = file /\ UNCHANGED <<file, cleared, meddled>>

\* A file that cannot be replaced is emptied first.
Clear ==
  /\ seen # NoText /\ ~cleared
  /\ file' = Empty /\ cleared' = TRUE
  /\ UNCHANGED <<seen, meddled>>

\* What jeha writes is what it saw and new rooms, whatever the file is by then.
Add ==
  LET new == {e \in Entry : file'[e] > seen[e]}
  IN  /\ seen # NoText
      /\ file' = Plus(seen, new)
      /\ Distinct(new)
      /\ ~meddled => IdsOf(new) \cap IdsOf(Tables(seen)) = {}
      /\ seen' = NoText /\ cleared' = FALSE
      /\ UNCHANGED meddled

\* Jeha, or the machine, fails in between: a file that was emptied stays so.
GiveUp ==
  /\ seen # NoText
  /\ seen' = NoText /\ cleared' = FALSE
  /\ meddled' = (meddled \/ cleared)
  /\ UNCHANGED file

\* somebody else writes, which jeha does not see
Meddle == file' \in Text /\ meddled' = TRUE /\ UNCHANGED <<seen, cleared>>

\* jeha starts, on a file it can read
Reload == seen = NoText /\ Parses(file) /\ meddled' = FALSE /\ UNCHANGED <<file, seen, cleared>>

Next == Look \/ Clear \/ Add \/ GiveUp \/ Meddle \/ Reload

Spec == Init /\ [][Next]_<<file, seen, cleared, meddled>>
=============================================================================
