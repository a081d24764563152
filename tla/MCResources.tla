---------------------------- MODULE MCResources -----------------------------
(***************************************************************************)
(* Small instances of Resources for TLC.                                   *)
(***************************************************************************)
EXTENDS Resources, TLC

CONSTANTS h1, h2, p1, p2, u1, u2, u3, n1, c1, latest, charm, file, r1, old, new

\* The charm declares one resource; a file is not a charm.
DeclaredOne == charm :> {r1}

\* Bounds: two uploads, and one revision of the charm and of its resource once there
\* is an object that uploads share.
FewRows ==
  /\ Cardinality(DOMAIN uploads) <= 2
  /\ SharedKey \in DOMAIN blobs =>
       \A p \in PackageIds :
         /\ Cardinality(DOMAIN revisions[p]) <= 1
         /\ \A r \in Resources : Cardinality(DOMAIN resourceRevisions[p][r]) <= 1

Symmetry == Permutations(Handlers) \cup Permutations(PackageIds) \cup Permutations(Platforms)
              \cup Permutations(DotDot) \cup Permutations(Uploads \ DotDot)

=============================================================================
