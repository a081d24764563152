----------------------------- MODULE MCRegistry -----------------------------
(***************************************************************************)
(* Small instances of Registry for TLC.                                    *)
(***************************************************************************)
EXTENDS Registry, TLC

CONSTANTS h1, p1, u1, n1, latest, stable, charm, r1, any

\* The charm declares no resource.
NoDeclared == charm :> {}

\* latest/stable, as it is and as the bare risk.
BareChannels == {<<stable>>, <<latest, stable>>}
OneChannel == {<<latest, stable>>}

=============================================================================
