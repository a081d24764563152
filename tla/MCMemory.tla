------------------------------ MODULE MCMemory ------------------------------
(***************************************************************************)
(* Small instances of Memory for TLC.                                      *)
(***************************************************************************)
EXTENDS Memory, TLC

CONSTANTS p1, n1, n2, latest, stable, edge, u1, part, charm, r1, old, new, d1, d2, s1, s2, a1, a2, t1

NoDeclared == charm :> {}

\* The query is a part of one of the names.
OneMatch == {<<part, n1>>}

Symmetry == Permutations(DefinitionIds) \cup Permutations(AccountIds) \cup Permutations(Platforms)

=============================================================================
