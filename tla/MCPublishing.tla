---------------------------- MODULE MCPublishing ----------------------------
(***************************************************************************)
(* Small instances of Publishing for TLC.                                  *)
(***************************************************************************)
EXTENDS Publishing, TLC

CONSTANTS h1, h2, p1, u1, u2, u3, n1, c1, latest, charm, junk, r1, r2

\* charm declares every resource.
DeclaredAll == charm :> Resources

\* A bound: once there is an object that uploads share, only uploads and pushes go on.
FewRows ==
  SharedKey \in DOMAIN blobs =>
    /\ \A p \in PackageIds : releases[p] = NoRows
    /\ \A h \in Handlers : req[h].op \in {"none", "upload", "push"}

\* Handlers, the two resources, and the uploads with and without an object to
\* themselves are told apart by nothing but equality.
Symmetry == Permutations(Handlers) \cup Permutations(Resources)
              \cup Permutations(DotDot) \cup Permutations(Uploads \ DotDot)

=============================================================================
