------------------------------ MODULE MCAccess ------------------------------
(***************************************************************************)
(* A small instance of Access for TLC.                                     *)
(***************************************************************************)
EXTENDS Access, TLC

CONSTANTS h1, v1, p1, p2, n1, latest, stable, edge, u1, charm, r1, a1, a2, g1

NoDeclared == charm :> {}

Scope(permissions, selectors, channels) ==
  [permissions |-> permissions, packages |-> selectors, channels |-> channels]

\* The owner, a stranger, and two tokens of another account: one for releases to
\* stable, one for a package elsewhere.
SomeIdentities ==
  {[account |-> a, token |-> None] : a \in {a1, None}} \cup
  {[account |-> a2, token |-> Scope({"package-manage-releases", "package-view"}, {n1}, {stable})],
   [account |-> a2, token |-> Scope({"package-manage-releases"}, {p2}, {})]}

\* A viewer of its own or in a role that no query knows, and an editor by a group.
SomeGrants ==
  {[package |-> p1, type |-> "account", principal |-> a2, role |-> "viewer"],
   [package |-> p1, type |-> "account", principal |-> a2, role |-> "auditor"],
   [package |-> p1, type |-> "group", principal |-> g1, role |-> "editor"]}

SomeMemberships == {<<g1, a2>>}

=============================================================================
