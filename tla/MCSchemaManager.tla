-------------------------- MODULE MCSchemaManager --------------------------
(***************************************************************************)
(* Instances of SchemaManager for TLC: an old and a new release, which     *)
(* needs a newer schema.                                                   *)
(***************************************************************************)
EXTENDS SchemaManager, TLC

CONSTANTS old, new, c1, c2, c3, c4, h1, h2, h3, h4

One   == {old}
Both  == {old, new}
Minimum == [p \in Process |-> IF p = old THEN 1 ELSE 2]
Symmetry == Permutations(Call) \cup Permutations(Handle)
=============================================================================
