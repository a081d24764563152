------------------------------ MODULE MCTokens ------------------------------
(***************************************************************************)
(* A small instance of Tokens for TLC.                                     *)
(***************************************************************************)
EXTENDS Tokens, TLC

CONSTANTS h1, h2, u1, dev, a1, a2, s1, s2, s3, view, manage, edge, p1

\* A token without restrictions, and one for viewing a package, for one channel.
TwoRequests ==
  {Unrestricted, [permissions |-> {view}, channels |-> {edge}, packages |-> {p1}]}

\* Subjects may be permuted although one is DevSubject: an anonymous request starts as a
\* request with the claims of that subject starts, so it adds no step of its own.
Symmetry == Permutations(Handlers) \cup Permutations(AccountIds) \cup Permutations(Sessions)
              \cup Permutations(Subjects)

=============================================================================
