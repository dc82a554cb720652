---------------------------- MODULE MCConfigSync ----------------------------
(* A small instance of ConfigSync for TLC. *)
EXTENDS ConfigSync

CONSTANTS g1, g2, g3, lamp, plug, a, b

\* the names of g1 and g2 are normalised to the same id
ThreeNames == [g \in {g1, g2, g3} |-> IF g = g3 THEN b ELSE a]
Members(x, y, z) == [g \in {g1, g2, g3} |-> IF g = g1 THEN x ELSE IF g = g2 THEN y ELSE z]
TwoNetworks == {Members({lamp}, {}, {plug}), Members({lamp}, {lamp}, {lamp, plug})}
\* an empty file, and one in which g2 is a room under an id of the user's own
OneOrNone == {Empty, [Empty EXCEPT ![[id |-> b, group |-> g2, quoted |-> TRUE]] = 1]}
Kitchen == {[id |-> a, group |-> None, quoted |-> TRUE]}
=============================================================================
