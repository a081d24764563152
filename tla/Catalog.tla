------------------------------ MODULE Catalog -------------------------------
(***************************************************************************)
(* What the publisher side promises to a reader who sees neither handlers  *)
(* nor statements: packages with unique names, for each package a history  *)
(* of published uploads that only grows, and channels that point into it.  *)
(* Publishing implements this module.                                      *)
(***************************************************************************)
EXTENDS Integers

CONSTANTS PackageIds, Names, Channels, Uploads, MaxRevision

VARIABLES
  names,    \* names[p]: the name of package p; the domain is the packages there are
  minted,   \* ids given to packages so far
  history,  \* history[p]: revision number -> the upload published under it
  channels  \* channels[p]: channel -> revision number

catalog == <<names, minted, history, channels>>

Nothing == [k \in {} |-> k]

CatalogInit ==
  /\ names = Nothing
  /\ minted = {}
  /\ history = [p \in PackageIds |-> Nothing]
  /\ channels = [p \in PackageIds |-> Nothing]

\* A name that no package has goes to a package that never was.
Register(p, name) ==
  /\ p \notin minted
  /\ \A q \in DOMAIN names : names[q] # name
  /\ names' = [q \in DOMAIN names \cup {p} |-> IF q = p THEN name ELSE names[q]]
  /\ minted' = minted \cup {p}
  /\ UNCHANGED <<history, channels>>

\* The history of p grows by one revision, the next one.
Publish(p, n, u) ==
  /\ p \in DOMAIN names
  /\ DOMAIN history[p] = 1..(n - 1)
  /\ history' = [history EXCEPT ![p] = [m \in 1..n |-> IF m = n THEN u ELSE @[m]]]
  /\ UNCHANGED <<names, minted, channels>>

\* A channel of p points to one of its revisions.
Assign(p, c, n) ==
  /\ p \in DOMAIN names
  /\ n \in DOMAIN history[p]
  /\ channels' = [channels EXCEPT ![p] =
       [d \in DOMAIN @ \cup {c} |-> IF d = c THEN n ELSE @[d]]]
  /\ UNCHANGED <<names, minted, history>>

\* p goes with all it had.
Unregister(p) ==
  /\ p \in DOMAIN names
  /\ names' = [q \in DOMAIN names \ {p} |-> names[q]]
  /\ history' = [history EXCEPT ![p] = Nothing]
  /\ channels' = [channels EXCEPT ![p] = Nothing]
  /\ UNCHANGED minted

CatalogNext ==
  \E p \in PackageIds :
    \/ \E name \in Names : Register(p, name)
    \/ \E n \in 1..MaxRevision, u \in Uploads : Publish(p, n, u)
    \/ \E c \in Channels : \E n \in DOMAIN history[p] : Assign(p, c, n)
    \/ Unregister(p)

CatalogSpec == CatalogInit /\ [][CatalogNext]_catalog

=============================================================================
