-------------------------------- MODULE Names --------------------------------
(***************************************************************************)
(* Names are strings, "" is a name left out.  Blanks around a name are     *)
(* trimmed everywhere in the code and do not occur here; upper case does.  *)
(***************************************************************************)
EXTENDS Naturals, Sequences

CONSTANT Lowered  \* lower-case form of the names that have capitals

ASSUME LoweredAssumption == \A x \in DOMAIN Lowered : Lowered[x] \notin DOMAIN Lowered

Lower(x) == IF x \in DOMAIN Lowered THEN Lowered[x] ELSE x
LowerAll(S) == {Lower(x) : x \in S}

CleanStringList(S) == S \ {""}

\* f where it has a value, g elsewhere.
Over(f, g) ==
    [x \in (DOMAIN f) \cup (DOMAIN g) |-> IF x \in DOMAIN f THEN f[x] ELSE g[x]]

firstString(values) ==
    LET given == {k \in DOMAIN values : values[k] # ""}
    IN  IF given = {} THEN "" ELSE values[CHOOSE k \in given : \A l \in given : k <= l]
=============================================================================
