---------------------------- MODULE MCDownloads -----------------------------
(***************************************************************************)
(* Small instances of Downloads for TLC.                                  *)
(***************************************************************************)
EXTENDS Downloads, TLC

CONSTANTS h1, p1, u1, u2, n1, latest, stable, charm, other, r1, any

NoDeclared == charm :> {} @@ other :> {}

OneChannel == {<<latest, stable>>}

\* Bounds: one revision of a charm, and one of a resource once there is an object
\* that uploads share.
FewRows ==
  \A p \in PackageIds :
    /\ Cardinality(DOMAIN revisions[p]) <= 1
    /\ SharedKey \in DOMAIN blobs =>
         \A r \in Resources : Cardinality(DOMAIN resourceRevisions[p][r]) <= 1

Symmetry == Permutations(Payloads)

=============================================================================
