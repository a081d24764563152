---------------------------- MODULE MemoryProofs ----------------------------
(***************************************************************************)
(* Proofs about Memory, for every set of ids, names and hashes and every   *)
(* bound.  A call is one step, so nothing is in flight: MemoryInv only     *)
(* says what the maps and the lists have in common.  The index by name and *)
(* the index by id are each other's inverse, the revision at position n of *)
(* a package's list has number n, and the list of a resource starts with   *)
(* number 1 and goes on with number 2 for ever.  RunsLikePostgres follows  *)
(* call by call: PackageCallIs, RevisionCallIs and ResourceCallIs say what *)
(* a call does to the maps, ShownPackagesAre, ShownRevisionsAre and        *)
(* ShownItemsAre what the read methods make of them.                       *)
(***************************************************************************)
EXTENDS Memory, TLAPS

AccountMapsOK ==
  /\ now \in 0..MaxTime
  /\ DOMAIN accounts \subseteq Subjects /\ DOMAIN accountsByID \subseteq AccountIds
  /\ \A subject \in DOMAIN accounts :
       accounts[subject] \in DOMAIN accountsByID /\ accountsByID[accounts[subject]] = subject
  /\ \A id \in DOMAIN accountsByID :
       accountsByID[id] \in DOMAIN accounts /\ accounts[accountsByID[id]] = id
  /\ tokens \in [DOMAIN tokens -> StoreToken]
  /\ \A h \in DOMAIN tokens : tokens[h].account \in DOMAIN accountsByID

PackageMapsOK ==
  /\ issued \subseteq PackageIds /\ DOMAIN packagesByID \subseteq issued
  /\ packages \in [DOMAIN packages -> Package]
  /\ packagesByID \in [DOMAIN packagesByID -> Package]
  /\ \A name \in DOMAIN packages :
       /\ packages[name].name = name /\ packages[name].id \in DOMAIN packagesByID
       /\ packagesByID[packages[name].id] = packages[name]
  /\ \A p \in DOMAIN packagesByID :
       /\ packagesByID[p].id = p /\ packagesByID[p].name \in DOMAIN packages
       /\ packages[packagesByID[p].name] = packagesByID[p]

UploadMapsOK ==
  /\ data \in [DOMAIN data -> Payloads] /\ DOMAIN data \subseteq Uploads \cup {SharedKey}
  /\ uploads \in [DOMAIN uploads -> T!UploadRow] /\ DOMAIN uploads \subseteq Uploads

RevisionListsOK ==
  /\ revisions \in [PackageIds -> Seq(Revision)]
  /\ \A p \in PackageIds : \A i \in 1..Len(revisions[p]) : revisions[p][i].revision = i
  /\ \A p \in PackageIds \ DOMAIN packagesByID : revisions[p] = <<>>

ReleaseMapsOK ==
  /\ DOMAIN releases = PackageIds
  /\ \A p \in PackageIds :
       /\ releases[p] \in [DOMAIN releases[p] -> 1..MaxRevision]
       /\ DOMAIN releases[p] \subseteq Channels
       /\ revisions[p] = <<>> => DOMAIN releases[p] = {}

DefinitionMapsOK ==
  /\ DOMAIN resourceDefs = PackageIds
  /\ \A p \in PackageIds :
       /\ resourceDefs[p] \in [DOMAIN resourceDefs[p] -> DefinitionIds]
       /\ DOMAIN resourceDefs[p] \subseteq Resources
       /\ revisions[p] = <<>> => DOMAIN resourceDefs[p] = {}
  /\ \A p, q \in PackageIds : \A r \in DOMAIN resourceDefs[p], s \in DOMAIN resourceDefs[q] :
       resourceDefs[p][r] = resourceDefs[q][s] => p = q /\ r = s

ItemListsOK ==
  /\ resourceRevisions \in [DefinitionIds -> Seq(ResourceRevision)]
  /\ \A d \in DefinitionIds : \A i \in 1..Len(resourceRevisions[d]) :
       resourceRevisions[d][i].revision = IF i = 1 THEN 1 ELSE 2

MemoryInv ==
  /\ AccountMapsOK /\ PackageMapsOK /\ UploadMapsOK
  /\ RevisionListsOK /\ ReleaseMapsOK /\ DefinitionMapsOK /\ ItemListsOK

-----------------------------------------------------------------------------
(* Maps and lists. *)

LEMMA PutType ==
  ASSUME NEW f, NEW S, f \in [DOMAIN f -> S], NEW key, NEW value \in S
  PROVE  Put(f, key, value) \in [DOMAIN Put(f, key, value) -> S]
  BY DEF Put

\* Writing what is there changes nothing.
LEMMA PutSame ==
  ASSUME NEW f, NEW S, f \in [DOMAIN f -> S], NEW key \in DOMAIN f
  PROVE  Put(f, key, f[key]) = f
<1>1. DOMAIN Put(f, key, f[key]) = DOMAIN f
  BY DEF Put
<1>2. \A k \in DOMAIN f : Put(f, key, f[key])[k] = f[k]
  BY DEF Put
<1> QED BY <1>1, <1>2 DEF Put

\* A loop over a list stops at the first match.
LEMMA FirstMatchIs ==
  ASSUME NEW S, NEW list \in Seq(S), NEW i \in 1..Len(list), NEW n,
         list[i].revision = n, \A j \in 1..(i - 1) : list[j].revision # n
  PROVE  FirstMatch(list, n) = i
<1> DEFINE Match(k) == list[k].revision = n /\ \A j \in 1..(k - 1) : list[j].revision # n
<1>1. i \in DOMAIN list /\ Match(i)
  OBVIOUS
<1>2. \A k \in DOMAIN list : Match(k) => k = i
  <2> SUFFICES ASSUME NEW k \in 1..Len(list), Match(k) PROVE k = i
    OBVIOUS
  <2>1. ~(k < i)
    BY <1>1
  <2>2. ~(i < k)
    BY <1>1
  <2> QED BY <2>1, <2>2
<1>3. FirstMatch(list, n) = CHOOSE k \in DOMAIN list : Match(k)
  BY DEF FirstMatch
<1> HIDE DEF Match
<1> QED BY <1>1, <1>2, <1>3

-----------------------------------------------------------------------------
(* Accounts and store tokens. *)

LEMMA AccountsAndTokens ==
  ASSUME MemoryInv, AccountCall
  PROVE  AccountMapsOK'
<1> USE DEF MemoryInv, AccountMapsOK
<1>0. now' = now
  BY DEF AccountCall
<1>1. CASE \E subject \in Subjects, id \in AccountIds :
             EnsureAccount(subject, id) /\ UNCHANGED tokens
  <2>1. PICK subject \in Subjects, id \in AccountIds :
          EnsureAccount(subject, id) /\ UNCHANGED tokens
    BY <1>1
  <2>2. CASE UNCHANGED <<accounts, accountsByID>>
    BY <1>0, <2>1, <2>2
  <2>3. CASE /\ subject \notin DOMAIN accounts /\ id \notin DOMAIN accountsByID
             /\ accounts' = Put(accounts, subject, id)
             /\ accountsByID' = Put(accountsByID, id, subject)
    <3>1. /\ DOMAIN accounts' = DOMAIN accounts \cup {subject} /\ accounts'[subject] = id
          /\ \A x \in DOMAIN accounts : accounts'[x] = accounts[x]
      BY <2>3 DEF Put
    <3>2. /\ DOMAIN accountsByID' = DOMAIN accountsByID \cup {id} /\ accountsByID'[id] = subject
          /\ \A x \in DOMAIN accountsByID : accountsByID'[x] = accountsByID[x]
      BY <2>3 DEF Put
    <3> QED BY <1>0, <2>1, <2>3, <3>1, <3>2
  <2> QED BY <2>1, <2>2, <2>3 DEF EnsureAccount
<1>2. CASE \E hash \in Hashes \ DOMAIN tokens, id \in DOMAIN accountsByID :
             /\ CreateStoreToken(hash, [account |-> id, until |-> now + 1, revoked |-> FALSE])
             /\ UNCHANGED <<accounts, accountsByID>>
  <2>1. PICK hash \in Hashes \ DOMAIN tokens, id \in DOMAIN accountsByID :
          /\ tokens' = Put(tokens, hash, [account |-> id, until |-> now + 1, revoked |-> FALSE])
          /\ UNCHANGED <<accounts, accountsByID>>
    BY <1>2 DEF CreateStoreToken
  <2>2. PICK token : token = [account |-> id, until |-> now + 1, revoked |-> FALSE]
    OBVIOUS
  <2>3. token \in StoreToken /\ token.account = id
    BY <2>2, MemoryAssumption DEF StoreToken
  <2>4. tokens' = Put(tokens, hash, token)
    BY <2>1, <2>2
  <2>5. tokens' \in [DOMAIN tokens' -> StoreToken]
    BY <2>3, <2>4, PutType
  <2>6. \A h \in DOMAIN tokens' : tokens'[h].account \in DOMAIN accountsByID
    BY <2>3, <2>4 DEF Put
  <2> QED BY <1>0, <2>1, <2>5, <2>6
<1>3. CASE \E hash \in Hashes, id \in DOMAIN accountsByID :
             RevokeStoreToken(id, hash) /\ UNCHANGED <<accounts, accountsByID>>
  <2>1. PICK hash \in DOMAIN tokens :
          /\ tokens' = [tokens EXCEPT ![hash].revoked = TRUE]
          /\ UNCHANGED <<accounts, accountsByID>>
    BY <1>3 DEF RevokeStoreToken
  <2>2. DOMAIN tokens' = DOMAIN tokens
    BY <2>1
  <2>3. \A h \in DOMAIN tokens : tokens'[h] \in StoreToken /\ tokens'[h].account = tokens[h].account
    <3>1. PICK old : old = tokens[hash]
      OBVIOUS
    <3>2. tokens' = [tokens EXCEPT ![hash] = [old EXCEPT !.revoked = TRUE]]
      BY <2>1, <3>1
    <3>3. old \in StoreToken
      BY <3>1
    <3>4. /\ [old EXCEPT !.revoked = TRUE] \in StoreToken
          /\ [old EXCEPT !.revoked = TRUE].account = old.account
      BY <3>3 DEF StoreToken
    <3> QED BY <3>1, <3>2, <3>4
  <2>4. tokens' \in [DOMAIN tokens' -> StoreToken]
    BY <2>1, <2>2, <2>3
  <2> QED BY <1>0, <2>1, <2>2, <2>3, <2>4
<1> QED BY <1>1, <1>2, <1>3 DEF AccountCall

LEMMA OtherCallsKeepAccounts ==
  ASSUME MemoryInv, Tick \/ UNCHANGED <<accountMaps, now>>
  PROVE  AccountMapsOK'
<1>1. CASE Tick
  BY <1>1, MemoryAssumption DEF Tick, MemoryInv, AccountMapsOK, accountMaps
<1>2. CASE UNCHANGED <<accountMaps, now>>
  BY <1>2 DEF MemoryInv, AccountMapsOK, accountMaps
<1> QED BY <1>1, <1>2

-----------------------------------------------------------------------------
(* Packages. *)

\* Store writes both maps, of a package that is in neither or in both.
LEMMA StoreKeepsIndexes ==
  ASSUME PackageMapsOK, NEW pkg \in Package, Store(pkg),
         issued \subseteq issued', issued' \subseteq PackageIds, pkg.id \in issued',
         \/ pkg.name \notin DOMAIN packages /\ pkg.id \notin DOMAIN packagesByID
         \/ pkg.id \in DOMAIN packagesByID /\ packagesByID[pkg.id].name = pkg.name
  PROVE  PackageMapsOK'
<1>1. packages' = Put(packages, pkg.name, pkg) /\ packagesByID' = Put(packagesByID, pkg.id, pkg)
  BY DEF Store
<1>2. packages' \in [DOMAIN packages' -> Package]
  BY <1>1, PutType DEF PackageMapsOK
<1>3. packagesByID' \in [DOMAIN packagesByID' -> Package]
  BY <1>1, PutType DEF PackageMapsOK
<1>4. /\ DOMAIN packages' = DOMAIN packages \cup {pkg.name} /\ packages'[pkg.name] = pkg
      /\ \A x \in DOMAIN packages : x # pkg.name => packages'[x] = packages[x]
  BY <1>1 DEF Put
<1>5. /\ DOMAIN packagesByID' = DOMAIN packagesByID \cup {pkg.id} /\ packagesByID'[pkg.id] = pkg
      /\ \A x \in DOMAIN packagesByID : x # pkg.id => packagesByID'[x] = packagesByID[x]
  BY <1>1 DEF Put
<1>6. issued' \subseteq PackageIds /\ DOMAIN packagesByID' \subseteq issued'
  BY <1>5 DEF PackageMapsOK
<1>7. \A name \in DOMAIN packages' :
        /\ packages'[name].name = name /\ packages'[name].id \in DOMAIN packagesByID'
        /\ packagesByID'[packages'[name].id] = packages'[name]
  BY <1>4, <1>5 DEF PackageMapsOK
<1>8. \A p \in DOMAIN packagesByID' :
        /\ packagesByID'[p].id = p /\ packagesByID'[p].name \in DOMAIN packages'
        /\ packages'[packagesByID'[p].name] = packagesByID'[p]
  BY <1>4, <1>5 DEF PackageMapsOK
<1> QED BY <1>2, <1>3, <1>6, <1>7, <1>8 DEF PackageMapsOK

\* What a caller found, with a column of its own.
LEMMA ChangedPackage ==
  ASSUME NEW pkg \in Package, NEW private \in BOOLEAN, NEW T0 \in SUBSET Tracks
  PROVE  /\ [pkg EXCEPT !.private = private] \in Package
         /\ [pkg EXCEPT !.status = "published"] \in Package
         /\ [pkg EXCEPT !.tracks = @ \cup T0] \in Package
         /\ [pkg EXCEPT !.private = private].id = pkg.id
         /\ [pkg EXCEPT !.private = private].name = pkg.name
         /\ [pkg EXCEPT !.status = "published"].id = pkg.id
         /\ [pkg EXCEPT !.status = "published"].name = pkg.name
         /\ [pkg EXCEPT !.tracks = @ \cup T0].id = pkg.id
         /\ [pkg EXCEPT !.tracks = @ \cup T0].name = pkg.name
<1>1. \A private0 \in BOOLEAN : [pkg EXCEPT !.private = private0] \in Package
  BY DEF Package
<1>2. [pkg EXCEPT !.status = "published"] \in Package
  BY DEF Package
<1>3. [pkg EXCEPT !.tracks = @ \cup T0] \in Package
  BY DEF Package
<1> QED BY <1>1, <1>2, <1>3 DEF Package

\* The statements that a call about packages comes down to.
Creates(p, pkg) ==
  /\ pkg \in Package /\ pkg.id = p /\ pkg.status = "registered" /\ pkg.tracks = {LatestTrack}
  /\ pkg.name \notin DOMAIN packages /\ Store(pkg)
  /\ p \in PackageIds \ issued /\ issued' = issued \cup {p}

Updates(p, pkg) ==
  /\ p \in DOMAIN packagesByID /\ pkg \in Package /\ pkg.id = p
  /\ pkg.name = packagesByID[p].name /\ Store(pkg) /\ UNCHANGED issued

Deletes(p) ==
  /\ p \in DOMAIN packagesByID /\ revisions[p] = <<>> /\ DeletePackage(p) /\ UNCHANGED issued

LEMMA PackageCallIs ==
  ASSUME MemoryInv, PackageCall
  PROVE  /\ \/ \E p \in PackageIds : \E pkg : Creates(p, pkg)
            \/ \E p \in PackageIds : \E pkg :
                 Updates(p, pkg) /\ pkg.tracks = packagesByID[p].tracks
            \/ \E p \in PackageIds : \E t \in Tracks :
                 Updates(p, [packagesByID[p] EXCEPT !.tracks = @ \cup {t}])
            \/ \E p \in PackageIds : Deletes(p)
         /\ UNCHANGED <<accountMaps, uploads, revisions, resourceMaps, releases, data, now>>
<1> USE DEF PackageCall
<1>0. PackageMapsOK /\ DOMAIN packagesByID \subseteq PackageIds
  BY DEF MemoryInv, PackageMapsOK
<1>1. CASE \E p \in PackageIds \ issued, name \in Names, private \in BOOLEAN,
              owner \in DOMAIN accountsByID :
             /\ CreatePackage([id |-> p, name |-> name, owner |-> owner, private |-> private,
                               status |-> "registered", tracks |-> {LatestTrack}])
             /\ issued' = issued \cup {p}
  <2>1. PICK p \in PackageIds \ issued, name \in Names, private \in BOOLEAN,
             owner \in DOMAIN accountsByID :
          /\ CreatePackage([id |-> p, name |-> name, owner |-> owner, private |-> private,
                            status |-> "registered", tracks |-> {LatestTrack}])
          /\ issued' = issued \cup {p}
    BY <1>1
  <2>2. PICK pkg : pkg = [id |-> p, name |-> name, owner |-> owner, private |-> private,
                          status |-> "registered", tracks |-> {LatestTrack}]
    OBVIOUS
  <2>3. owner \in AccountIds
    BY DEF MemoryInv, AccountMapsOK
  <2>4. pkg \in Package
    BY <2>2, <2>3, ValuesAssumption DEF Package
  <2>5. Creates(p, pkg)
    BY <2>1, <2>2, <2>4 DEF Creates, CreatePackage
  <2> QED BY <2>5
<1>2. CASE \E name \in DOMAIN packages, private \in BOOLEAN :
             UpdatePackage([GetPackageByName(name) EXCEPT !.private = private]) /\ UNCHANGED issued
  <2>1. PICK name \in DOMAIN packages, private \in BOOLEAN :
          UpdatePackage([packages[name] EXCEPT !.private = private]) /\ UNCHANGED issued
    BY <1>2 DEF GetPackageByName
  <2>2. PICK p : p = packages[name].id
    OBVIOUS
  <2>3. p \in DOMAIN packagesByID /\ packagesByID[p] = packages[name] /\ packages[name] \in Package
    BY <1>0, <2>2 DEF PackageMapsOK
  <2>4. PICK pkg : pkg = [packages[name] EXCEPT !.private = private]
    OBVIOUS
  <2>5. pkg \in Package /\ pkg.id = p /\ pkg.name = packagesByID[p].name
    BY ZenonT(60), <2>2, <2>3, <2>4, ChangedPackage
  <2>6. pkg.tracks = packagesByID[p].tracks
    BY <2>3, <2>4 DEF Package
  <2>7. Updates(p, pkg)
    BY <2>1, <2>3, <2>4, <2>5 DEF Updates, UpdatePackage
  <2> QED BY <1>0, <2>3, <2>6, <2>7
<1>3. CASE \E name \in DOMAIN packages :
             LET pkg == GetPackageByName(name) IN
             /\ ListRevisions(pkg.id, None) # <<>> /\ UpdatePackage([pkg EXCEPT !.status = "published"])
             /\ UNCHANGED issued
  <2>1. PICK name \in DOMAIN packages :
          UpdatePackage([packages[name] EXCEPT !.status = "published"]) /\ UNCHANGED issued
    BY <1>3 DEF GetPackageByName
  <2>2. PICK p : p = packages[name].id
    OBVIOUS
  <2>3. p \in DOMAIN packagesByID /\ packagesByID[p] = packages[name] /\ packages[name] \in Package
    BY <1>0, <2>2 DEF PackageMapsOK
  <2>4. PICK pkg : pkg = [packages[name] EXCEPT !.status = "published"]
    OBVIOUS
  <2>5. pkg \in Package /\ pkg.id = p /\ pkg.name = packagesByID[p].name
    BY <2>2, <2>3, <2>4, ChangedPackage
  <2>6. pkg.tracks = packagesByID[p].tracks
    BY <2>3, <2>4 DEF Package
  <2>7. Updates(p, pkg)
    BY <2>1, <2>3, <2>4, <2>5 DEF Updates, UpdatePackage
  <2> QED BY <1>0, <2>3, <2>6, <2>7
<1>4. CASE \E p \in DOMAIN packagesByID :
             ListRevisions(p, None) = <<>> /\ DeletePackage(p) /\ UNCHANGED issued
  BY <1>0, <1>4 DEF Deletes, ListRevisions
<1>5. CASE \E p \in DOMAIN packagesByID, t \in Tracks : CreateTracks(p, {t}) /\ UNCHANGED issued
  <2>1. PICK p \in DOMAIN packagesByID, t \in Tracks :
          Store([packagesByID[p] EXCEPT !.tracks = @ \cup {t}]) /\ UNCHANGED issued
    BY <1>5 DEF CreateTracks
  <2>2. packagesByID[p] \in Package /\ packagesByID[p].id = p
    BY <1>0 DEF PackageMapsOK
  <2>3. PICK pkg : pkg = [packagesByID[p] EXCEPT !.tracks = @ \cup {t}]
    OBVIOUS
  <2>4. pkg \in Package /\ pkg.id = p /\ pkg.name = packagesByID[p].name
    BY ZenonT(60), <2>2, <2>3, ChangedPackage
  <2>5. Updates(p, pkg)
    BY <2>1, <2>3, <2>4 DEF Updates
  <2> QED BY <1>0, <2>3, <2>5
<1>6. UNCHANGED <<accountMaps, uploads, revisions, resourceMaps, releases, data, now>>
  OBVIOUS
<1> QED BY <1>1, <1>2, <1>3, <1>4, <1>5, <1>6

LEMMA PackagesKeepIndexes ==
  ASSUME MemoryInv, PackageCall
  PROVE  PackageMapsOK'
<1>0. PackageMapsOK
  BY DEF MemoryInv
<1>1. CASE \E p \in PackageIds : \E pkg : Creates(p, pkg)
  <2>1. PICK p, pkg : p \in PackageIds /\ Creates(p, pkg)
    BY <1>1
  <2> QED BY <1>0, <2>1, StoreKeepsIndexes DEF Creates, PackageMapsOK
<1>2. ASSUME NEW p \in PackageIds, NEW pkg, Updates(p, pkg)
      PROVE  PackageMapsOK'
  BY <1>0, <1>2, StoreKeepsIndexes DEF Updates, PackageMapsOK
<1>3. CASE \E p \in PackageIds : Deletes(p)
  <2>1. PICK p \in DOMAIN packagesByID : DeletePackage(p) /\ UNCHANGED issued
    BY <1>3 DEF Deletes
  <2>2. PICK name : name = packagesByID[p].name
    OBVIOUS
  <2>3. packages' = Without(packages, name) /\ packagesByID' = Without(packagesByID, p)
    BY <2>1, <2>2 DEF DeletePackage
  <2>4. packages \in [DOMAIN packages -> Package] /\ packagesByID \in [DOMAIN packagesByID -> Package]
    BY <1>0 DEF PackageMapsOK
  <2>5. /\ packages' \in [DOMAIN packages' -> Package]
        /\ DOMAIN packages' = DOMAIN packages \ {name}
        /\ \A x \in DOMAIN packages' : packages'[x] = packages[x]
    BY <2>3, <2>4 DEF Without
  <2>6. /\ packagesByID' \in [DOMAIN packagesByID' -> Package]
        /\ DOMAIN packagesByID' = DOMAIN packagesByID \ {p}
        /\ \A x \in DOMAIN packagesByID' : packagesByID'[x] = packagesByID[x]
    BY <2>3, <2>4 DEF Without
  <2>7. packages[name] = packagesByID[p] /\ packagesByID[p].id = p
    BY <1>0, <2>2 DEF PackageMapsOK
  <2> QED BY <1>0, <2>1, <2>2, <2>5, <2>6, <2>7 DEF PackageMapsOK
<1> QED BY <1>1, <1>2, <1>3, PackageCallIs

-----------------------------------------------------------------------------
(* Uploads, revisions and releases. *)

LEMMA UploadsKeepTheirRows ==
  ASSUME MemoryInv, UploadCall
  PROVE  UploadMapsOK'
<1> USE DEF UploadMapsOK
<1>0. UploadMapsOK
  BY DEF MemoryInv
<1>1. CASE \E u \in Uploads \ (DOMAIN uploads \cup DOMAIN data), payload \in Payloads :
             PutBlob(ObjectKey(u), payload) /\ UNCHANGED uploads
  <2>1. PICK u \in Uploads, payload \in Payloads :
          data' = Put(data, ObjectKey(u), payload) /\ UNCHANGED uploads
    BY <1>1 DEF PutBlob
  <2>2. ObjectKey(u) \in Uploads \cup {SharedKey}
    BY <2>1 DEF ObjectKey
  <2>3. data' \in [DOMAIN data' -> Payloads] /\ DOMAIN data' = DOMAIN data \cup {ObjectKey(u)}
    BY <1>0, <2>1, PutType DEF Put
  <2> QED BY <1>0, <2>1, <2>2, <2>3
<1>2. CASE \E u \in Uploads \ DOMAIN uploads :
             /\ ObjectKey(u) \in DOMAIN data
             /\ CreateUpload(u, data[ObjectKey(u)]) /\ UNCHANGED data
  <2>1. PICK u \in Uploads : /\ ObjectKey(u) \in DOMAIN data
                             /\ CreateUpload(u, data[ObjectKey(u)]) /\ UNCHANGED data
    BY <1>2
  <2>2. PICK row : row = [digest |-> data[ObjectKey(u)], status |-> "pending", revision |-> None]
    OBVIOUS
  <2>3. data[ObjectKey(u)] \in Payloads /\ u \in Uploads
    BY <1>0, <2>1
  <2>4. row \in T!UploadRow
    BY <2>2, <2>3 DEF T!UploadRow
  <2>5. uploads' = Put(uploads, u, row)
    BY <2>1, <2>2 DEF CreateUpload
  <2>6. uploads' \in [DOMAIN uploads' -> T!UploadRow]
    BY <1>0, <2>4, <2>5, PutType
  <2>7. DOMAIN uploads' = DOMAIN uploads \cup {u}
    BY <2>5 DEF Put
  <2> QED BY <1>0, <2>1, <2>3, <2>6, <2>7
<1>3. CASE \E u \in DOMAIN uploads, n \in 1..MaxRevision \cup {None} :
             ApproveUpload(u, n) /\ UNCHANGED data
  <2>1. PICK u \in DOMAIN uploads, n \in 1..MaxRevision \cup {None} :
          ApproveUpload(u, n) /\ UNCHANGED data
    BY <1>3
  <2>2. PICK old, verdict : old = uploads[u] /\ verdict = IF n = None THEN "rejected" ELSE "approved"
    OBVIOUS
  <2>3. uploads' = [uploads EXCEPT ![u] = [old EXCEPT !.revision = n, !.status = verdict]]
    BY <2>1, <2>2 DEF ApproveUpload
  <2>4. old \in T!UploadRow /\ verdict \in {"rejected", "approved"}
    BY <1>0, <2>2
  <2>5. [old EXCEPT !.revision = n, !.status = verdict] \in T!UploadRow
    BY <2>4 DEF T!UploadRow, T!RevisionNumber
  <2> QED BY <1>0, <2>1, <2>3, <2>5
<1> QED BY <1>1, <1>2, <1>3 DEF UploadCall

\* Appending the next number keeps a list numbered.
LEMMA AppendNumbered ==
  ASSUME NEW S, NEW list \in Seq(S), NEW e \in S, e.revision = Len(list) + 1,
         \A i \in 1..Len(list) : list[i].revision = i
  PROVE  /\ Append(list, e) \in Seq(S) /\ Append(list, e) # <<>>
         /\ Len(Append(list, e)) = Len(list) + 1
         /\ \A i \in 1..Len(list) : Append(list, e)[i] = list[i]
         /\ Append(list, e)[Len(list) + 1] = e
         /\ \A i \in 1..Len(Append(list, e)) : Append(list, e)[i].revision = i
<1>1. /\ Append(list, e) \in Seq(S) /\ Append(list, e) # <<>>
      /\ Len(Append(list, e)) = Len(list) + 1
      /\ \A i \in 1..Len(list) : Append(list, e)[i] = list[i]
      /\ Append(list, e)[Len(list) + 1] = e
  OBVIOUS
<1>2. ASSUME NEW i \in 1..Len(Append(list, e))
      PROVE  Append(list, e)[i].revision = i
  <2>1. CASE i \in 1..Len(list)
    BY <1>1, <2>1
  <2>2. CASE i = Len(list) + 1
    BY <1>1, <2>2
  <2> QED BY <1>1, <2>1, <2>2
<1> QED BY <1>1, <1>2

\* The numbers of a numbered list are its positions.
LEMMA NumberedList ==
  ASSUME NEW S, NEW list \in Seq(S), \A i \in 1..Len(list) : list[i].revision = i
  PROVE  /\ NumbersOf(list) = 1..Len(list)
         /\ \A n \in 1..Len(list) : FirstMatch(list, n) = n /\ FirstOf(list, n) = list[n]
<1>1. NumbersOf(list) = 1..Len(list)
  BY DEF NumbersOf
<1>2. ASSUME NEW n \in 1..Len(list)
      PROVE  FirstMatch(list, n) = n
  <2>1. \A j \in 1..(n - 1) : j \in 1..Len(list) /\ j # n
    OBVIOUS
  <2>2. list[n].revision = n /\ \A j \in 1..(n - 1) : list[j].revision # n
    BY <2>1
  <2> QED BY <2>2, FirstMatchIs
<1> QED BY <1>1, <1>2 DEF FirstOf

\* The number that a push computes from the revision appended last.
LEMMA NextNumberIs ==
  ASSUME RevisionListsOK, NEW p \in PackageIds
  PROVE  NextNumber(p) = Len(revisions[p]) + 1
<1>1. revisions[p] \in Seq(Revision)
  BY DEF RevisionListsOK
<1>2. CASE revisions[p] = <<>>
  BY <1>2 DEF NextNumber, GetLatestRevision
<1>3. CASE revisions[p] # <<>>
  <2>1. Len(revisions[p]) \in 1..Len(revisions[p])
    BY <1>1, <1>3
  <2>2. /\ revisions[p][Len(revisions[p])] \in Revision
        /\ revisions[p][Len(revisions[p])].revision = Len(revisions[p])
    BY <1>1, <2>1 DEF RevisionListsOK
  <2> QED BY <1>3, <2>2, ValuesAssumption DEF NextNumber, GetLatestRevision
<1> QED BY <1>2, <1>3

\* The statements that a call about revisions comes down to.
Pushes(p, row) ==
  /\ p \in DOMAIN packagesByID /\ row \in Revision /\ row.revision = Len(revisions[p]) + 1
  /\ revisions' = [revisions EXCEPT ![p] = Append(@, row)]
  /\ UNCHANGED releases

Releases(p, c, n) ==
  /\ p \in DOMAIN packagesByID /\ c \in Channels /\ n \in 1..Len(revisions[p])
  /\ releases' = [releases EXCEPT ![p] = Put(@, c, n)]
  /\ UNCHANGED revisions

LEMMA RevisionCallIs ==
  ASSUME MemoryInv, RevisionCall
  PROVE  /\ \E p \in PackageIds :
              \/ \E row : Pushes(p, row)
              \/ \E c, n : Releases(p, c, n)
         /\ UNCHANGED <<accountMaps, packageMaps, uploads, resourceMaps, data, now>>
<1>0. UNCHANGED <<accountMaps, packageMaps, uploads, resourceMaps, data, now>>
  BY DEF RevisionCall
<1>1. PICK p \in DOMAIN packagesByID :
        \/ /\ NextNumber(p) <= MaxRevision
           /\ \E u \in DOMAIN uploads :
                CreateRevision(p, [revision |-> NextNumber(p), upload |-> u,
                                   digest |-> GetUpload(u).digest])
           /\ UNCHANGED releases
        \/ /\ \E c \in Channels : \E n \in NumbersOf(ListRevisions(p, None)) :
                ReplaceRelease(p, c, GetRevisionByNumber(p, n).revision)
           /\ UNCHANGED revisions
  BY DEF RevisionCall
<1>2. p \in PackageIds
  BY DEF MemoryInv, PackageMapsOK
<1>3. /\ revisions[p] \in Seq(Revision)
      /\ \A i \in 1..Len(revisions[p]) : revisions[p][i].revision = i
  BY <1>2 DEF MemoryInv, RevisionListsOK
<1>4. NextNumber(p) = Len(revisions[p]) + 1
  BY <1>2, NextNumberIs DEF MemoryInv
<1>5. CASE /\ NextNumber(p) <= MaxRevision
           /\ \E u \in DOMAIN uploads :
                CreateRevision(p, [revision |-> NextNumber(p), upload |-> u,
                                   digest |-> GetUpload(u).digest])
           /\ UNCHANGED releases
  <2>1. PICK u \in DOMAIN uploads :
          CreateRevision(p, [revision |-> NextNumber(p), upload |-> u, digest |-> uploads[u].digest])
    BY <1>5 DEF GetUpload
  <2>2. PICK row : row = [revision |-> NextNumber(p), upload |-> u, digest |-> uploads[u].digest]
    OBVIOUS
  <2>3. u \in Uploads /\ uploads[u] \in T!UploadRow
    BY <2>1 DEF MemoryInv, UploadMapsOK
  <2>4. uploads[u].digest \in Payloads
    BY <2>3 DEF T!UploadRow
  <2>5. NextNumber(p) \in 1..MaxRevision
    BY <1>3, <1>4, <1>5, NumbersAssumption
  <2>6. row \in Revision /\ row.revision = Len(revisions[p]) + 1
    BY <1>4, <2>2, <2>3, <2>4, <2>5 DEF Revision
  <2>7. Pushes(p, row)
    BY <1>1, <1>5, <2>1, <2>2, <2>6 DEF Pushes, CreateRevision
  <2> QED BY <1>0, <1>2, <2>7
<1>6. CASE /\ \E c \in Channels : \E n \in NumbersOf(ListRevisions(p, None)) :
                ReplaceRelease(p, c, GetRevisionByNumber(p, n).revision)
           /\ UNCHANGED revisions
  <2>1. PICK c \in Channels, n \in NumbersOf(revisions[p]) :
          ReplaceRelease(p, c, FirstOf(revisions[p], n).revision)
    BY <1>6 DEF ListRevisions, GetRevisionByNumber
  <2>2. n \in 1..Len(revisions[p]) /\ FirstOf(revisions[p], n) = revisions[p][n]
    BY <1>3, <2>1, NumberedList
  <2>3. FirstOf(revisions[p], n).revision = n
    BY <1>3, <2>2
  <2>4. Releases(p, c, n)
    BY <1>1, <1>6, <2>1, <2>2, <2>3 DEF Releases, ReplaceRelease
  <2> QED BY <1>0, <1>2, <2>4
<1> QED BY <1>1, <1>5, <1>6

LEMMA RevisionsKeepTheirNumbers ==
  ASSUME MemoryInv, NEW p \in PackageIds, NEW row, Pushes(p, row), UNCHANGED packageMaps
  PROVE  /\ RevisionListsOK'
         /\ \A q \in PackageIds : revisions'[q] = <<>> => revisions[q] = <<>>
<1>1. PICK list : list = revisions[p]
  OBVIOUS
<1>2. list \in Seq(Revision) /\ \A i \in 1..Len(list) : list[i].revision = i
  BY <1>1 DEF MemoryInv, RevisionListsOK
<1>3. revisions' = [revisions EXCEPT ![p] = Append(list, row)]
  BY <1>1 DEF Pushes
<1>4. row \in Revision /\ row.revision = Len(list) + 1 /\ p \in DOMAIN packagesByID
  BY <1>1 DEF Pushes
<1>5. /\ Append(list, row) \in Seq(Revision) /\ Append(list, row) # <<>>
      /\ \A i \in 1..Len(Append(list, row)) : Append(list, row)[i].revision = i
  BY <1>2, <1>4, AppendNumbered
<1>6. PICK list2 : list2 = Append(list, row)
  OBVIOUS
<1>7. revisions \in [PackageIds -> Seq(Revision)]
  BY DEF MemoryInv, RevisionListsOK
<1>8. revisions' \in [PackageIds -> Seq(Revision)]
  BY <1>3, <1>5, <1>7
<1>9. /\ revisions'[p] = list2
      /\ \A q \in PackageIds : q # p => revisions'[q] = revisions[q]
  BY <1>3, <1>6, <1>7
<1>10. \A q \in PackageIds : \A i \in 1..Len(revisions'[q]) : revisions'[q][i].revision = i
  BY <1>5, <1>6, <1>9 DEF MemoryInv, RevisionListsOK
<1>11. \A q \in PackageIds \ DOMAIN packagesByID' : revisions'[q] = <<>>
  BY <1>4, <1>9 DEF MemoryInv, RevisionListsOK, packageMaps
<1> QED BY <1>5, <1>6, <1>8, <1>9, <1>10, <1>11 DEF RevisionListsOK

LEMMA RevisionsKeepTheMaps ==
  ASSUME MemoryInv, RevisionCall
  PROVE  RevisionListsOK' /\ ReleaseMapsOK' /\ DefinitionMapsOK'
<1>0. UNCHANGED <<packageMaps, resourceMaps>>
  BY RevisionCallIs
<1>1. CASE \E p \in PackageIds : \E row : Pushes(p, row)
  <2>1. PICK p, row : p \in PackageIds /\ Pushes(p, row)
    BY <1>1
  <2>2. RevisionListsOK' /\ \A q \in PackageIds : revisions'[q] = <<>> => revisions[q] = <<>>
    BY <1>0, <2>1, RevisionsKeepTheirNumbers
  <2>3. releases' = releases /\ resourceDefs' = resourceDefs
    BY <1>0, <2>1 DEF Pushes, resourceMaps
  <2>4. ReleaseMapsOK'
    BY <2>2, <2>3 DEF MemoryInv, ReleaseMapsOK
  <2>5. DefinitionMapsOK'
    BY <2>2, <2>3 DEF MemoryInv, DefinitionMapsOK
  <2> QED BY <2>2, <2>4, <2>5
<1>2. CASE \E p \in PackageIds : \E c, n : Releases(p, c, n)
  <2>1. PICK p, c, n : p \in PackageIds /\ Releases(p, c, n)
    BY <1>2
  <2>2. revisions' = revisions /\ packagesByID' = packagesByID /\ resourceDefs' = resourceDefs
    BY <1>0, <2>1 DEF Releases, packageMaps, resourceMaps
  <2>3. RevisionListsOK' /\ DefinitionMapsOK'
    BY <2>2 DEF MemoryInv, RevisionListsOK, DefinitionMapsOK
  <2>4. PICK map : map = releases[p]
    OBVIOUS
  <2>5. /\ DOMAIN releases = PackageIds /\ map \in [DOMAIN map -> 1..MaxRevision]
        /\ DOMAIN map \subseteq Channels
    BY <2>1, <2>4 DEF MemoryInv, ReleaseMapsOK
  <2>6. revisions[p] \in Seq(Revision) /\ revisions[p] # <<>> /\ n \in 1..MaxRevision /\ c \in Channels
    <3>1. /\ revisions[p] \in Seq(Revision) /\ n \in 1..Len(revisions[p]) /\ c \in Channels
          /\ revisions[p][n].revision = n
      BY <2>1 DEF Releases, MemoryInv, RevisionListsOK
    <3>2. revisions[p][n] \in Revision
      BY <3>1
    <3>3. n \in 1..MaxRevision
      BY <3>1, <3>2 DEF Revision
    <3> QED BY <3>1, <3>3
  <2>7. /\ Put(map, c, n) \in [DOMAIN Put(map, c, n) -> 1..MaxRevision]
        /\ DOMAIN Put(map, c, n) \subseteq Channels
    <3>1. Put(map, c, n) \in [DOMAIN Put(map, c, n) -> 1..MaxRevision]
      BY <2>5, <2>6, PutType
    <3>2. DOMAIN Put(map, c, n) = DOMAIN map \cup {c}
      BY DEF Put
    <3> QED BY <2>5, <2>6, <3>1, <3>2
  <2>8. PICK map2 : map2 = Put(map, c, n)
    OBVIOUS
  <2>9. releases' = [releases EXCEPT ![p] = map2]
    BY <2>1, <2>4, <2>8 DEF Releases
  <2>10. ReleaseMapsOK'
    BY <2>2, <2>5, <2>6, <2>7, <2>8, <2>9 DEF MemoryInv, ReleaseMapsOK
  <2> QED BY <2>3, <2>10
<1> QED BY <1>1, <1>2, RevisionCallIs

\* A package that is deleted has no revision, and so no release and no definition.
LEMMA PackagesKeepTheLists ==
  ASSUME MemoryInv, PackageCall
  PROVE  RevisionListsOK'
<1>1. revisions' = revisions
  BY PackageCallIs
<1>2. CASE \E p \in PackageIds : \E pkg : Creates(p, pkg) \/ Updates(p, pkg)
  BY <1>1, <1>2 DEF Creates, Updates, Store, Put, MemoryInv, RevisionListsOK
<1>3. CASE \E p \in PackageIds : Deletes(p)
  BY <1>1, <1>3 DEF Deletes, DeletePackage, Without, MemoryInv, RevisionListsOK
<1> QED BY <1>2, <1>3, PackageCallIs

-----------------------------------------------------------------------------
(* Resource definitions and resource revisions. *)

NumberAt(i) == IF i = 1 THEN 1 ELSE 2

\* Of the list of a resource the first two revisions can be found.
LEMMA ItemList ==
  ASSUME NEW S, NEW list \in Seq(S), \A i \in 1..Len(list) : list[i].revision = NumberAt(i)
  PROVE  /\ NumbersOf(list) = {n \in {1, 2} : n <= Len(list)}
         /\ \A n \in NumbersOf(list) :
              n \in 1..Len(list) /\ FirstMatch(list, n) = n /\ FirstOf(list, n) = list[n]
<1>1. NumbersOf(list) \subseteq {n \in {1, 2} : n <= Len(list)}
  BY DEF NumbersOf, NumberAt
<1>2. \A n \in {1, 2} : n <= Len(list) => n \in NumbersOf(list)
  <2> SUFFICES ASSUME NEW n \in {1, 2}, n <= Len(list) PROVE n \in NumbersOf(list)
    OBVIOUS
  <2>1. n \in 1..Len(list) /\ list[n].revision = n
    BY DEF NumberAt
  <2> QED BY <2>1 DEF NumbersOf
<1>3. ASSUME NEW n \in NumbersOf(list)
      PROVE  n \in 1..Len(list) /\ FirstMatch(list, n) = n /\ FirstOf(list, n) = list[n]
  <2>1. n \in {1, 2} /\ n <= Len(list)
    BY <1>1, <1>3
  <2>2. n \in 1..Len(list)
    BY <2>1
  <2>3. list[n].revision = n /\ \A j \in 1..(n - 1) : list[j].revision # n
    BY <2>1, <2>2 DEF NumberAt
  <2>4. FirstMatch(list, n) = n
    BY <2>2, <2>3, FirstMatchIs
  <2> QED BY <2>2, <2>4 DEF FirstOf
<1> QED BY <1>1, <1>2, <1>3

\* The statements that a call about resources comes down to.
Defines(p, r, d) ==
  /\ p \in DOMAIN packagesByID /\ r \in Resources /\ revisions[p] # <<>>
  /\ d \in DefinitionIds /\ d \notin Defined /\ resourceRevisions[d] = <<>>
  /\ resourceDefs' = [resourceDefs EXCEPT ![p] = Put(@, r, d)]
  /\ UNCHANGED resourceRevisions

PushesItem(p, r, d, item) ==
  /\ p \in DOMAIN packagesByID /\ r \in DOMAIN resourceDefs[p] /\ d = resourceDefs[p][r]
  /\ item \in ResourceRevision /\ item.revision = NumberAt(Len(resourceRevisions[d]) + 1)
  /\ resourceRevisions' = [resourceRevisions EXCEPT ![d] = Append(@, item)]
  /\ UNCHANGED resourceDefs

UpdatesItem(p, r, d, n, item) ==
  /\ p \in DOMAIN packagesByID /\ r \in DOMAIN resourceDefs[p] /\ d = resourceDefs[p][r]
  /\ n \in {1, 2} /\ n \in 1..Len(resourceRevisions[d])
  /\ item \in ResourceRevision /\ item.revision = n
  /\ item.upload = resourceRevisions[d][n].upload /\ item.digest = resourceRevisions[d][n].digest
  /\ resourceRevisions' = [resourceRevisions EXCEPT ![d] = [@ EXCEPT ![n] = item]]
  /\ UNCHANGED resourceDefs

\* "existing[0].Revision + 1": of the oldest revision, so never more than 2.
LEMMA NextResourceNumberIs ==
  ASSUME ItemListsOK, NEW d \in DefinitionIds
  PROVE  NextResourceNumber(d) = NumberAt(Len(resourceRevisions[d]) + 1)
<1>1. PICK list : list = resourceRevisions[d]
  OBVIOUS
<1>2. list \in Seq(ResourceRevision) /\ \A i \in 1..Len(list) : list[i].revision = NumberAt(i)
  BY <1>1 DEF ItemListsOK, NumberAt
<1>3. CASE list = <<>>
  BY <1>1, <1>3 DEF NextResourceNumber, ListResourceRevisions, NumberAt
<1>4. CASE list # <<>>
  <2>1. Len(list) \in Nat \ {0} /\ list[1].revision = 1
    BY <1>2, <1>4 DEF NumberAt
  <2> QED BY <1>1, <1>4, <2>1 DEF NextResourceNumber, ListResourceRevisions, NumberAt
<1> QED BY <1>3, <1>4

LEMMA ResourceCallIs ==
  ASSUME MemoryInv, ResourceCall
  PROVE  /\ \E p \in PackageIds : \E r \in Resources : \E d \in DefinitionIds :
              \/ Defines(p, r, d)
              \/ \E item : PushesItem(p, r, d, item)
              \/ \E n, item : UpdatesItem(p, r, d, n, item)
         /\ UNCHANGED <<accountMaps, packageMaps, uploads, revisions, releases, data, now>>
<1>0. UNCHANGED <<accountMaps, packageMaps, uploads, revisions, releases, data, now>>
  BY DEF ResourceCall
<1>1. PICK p \in DOMAIN packagesByID, r \in Resources :
       \/ /\ ListRevisions(p, None) # <<>>
          /\ \E d \in DefinitionIds :
               d \notin Defined /\ resourceRevisions[d] = <<>> /\ UpsertResourceDefinition(p, r, d)
          /\ UNCHANGED resourceRevisions
       \/ /\ r \in ListResourceDefinitions(p)
          /\ LET d == GetResourceDefinition(p, r) IN
               \/ /\ Len(resourceRevisions[d]) < MaxPushes
                  /\ \E u \in DOMAIN uploads, platforms \in Platforms :
                       CreateResourceRevision(d, [revision |-> NextResourceNumber(d), upload |-> u,
                         digest |-> GetUpload(u).digest, platforms |-> platforms])
               \/ \E n \in NumbersOf(ListResourceRevisions(d)), platforms \in Platforms :
                    UpdateResourceRevision(d, [GetResourceRevision(d, n) EXCEPT !.platforms = platforms])
          /\ UNCHANGED resourceDefs
  BY DEF ResourceCall
<1>2. p \in PackageIds
  BY DEF MemoryInv, PackageMapsOK
<1>3. CASE /\ ListRevisions(p, None) # <<>>
           /\ \E d \in DefinitionIds :
                d \notin Defined /\ resourceRevisions[d] = <<>> /\ UpsertResourceDefinition(p, r, d)
           /\ UNCHANGED resourceRevisions
  <2>1. PICK d \in DefinitionIds :
          d \notin Defined /\ resourceRevisions[d] = <<>> /\ UpsertResourceDefinition(p, r, d)
    BY <1>3
  <2>2. Defines(p, r, d)
    BY <1>3, <2>1 DEF Defines, UpsertResourceDefinition, ListRevisions
  <2> QED BY <1>0, <1>2, <2>2
<1>4. ASSUME NEW d, r \in DOMAIN resourceDefs[p], d = resourceDefs[p][r], UNCHANGED resourceDefs,
             NEW u \in DOMAIN uploads, NEW platforms \in Platforms,
             CreateResourceRevision(d, [revision |-> NextResourceNumber(d), upload |-> u,
                         digest |-> GetUpload(u).digest, platforms |-> platforms])
      PROVE  d \in DefinitionIds /\ \E item : PushesItem(p, r, d, item)
  <2>1. d \in DefinitionIds
    BY <1>2, <1>4 DEF MemoryInv, DefinitionMapsOK
  <2>2. PICK item : item = [revision |-> NextResourceNumber(d), upload |-> u,
                            digest |-> GetUpload(u).digest, platforms |-> platforms]
    OBVIOUS
  <2>3. u \in Uploads /\ uploads[u] \in T!UploadRow
    BY DEF MemoryInv, UploadMapsOK
  <2>4. GetUpload(u).digest \in Payloads
    BY <2>3 DEF T!UploadRow, GetUpload
  <2>5. NextResourceNumber(d) = NumberAt(Len(resourceRevisions[d]) + 1)
    BY <2>1, NextResourceNumberIs DEF MemoryInv
  <2>6. NextResourceNumber(d) \in 1..MaxRevision
    BY <2>5, NumbersAssumption DEF NumberAt
  <2>7. item \in ResourceRevision /\ item.revision = NumberAt(Len(resourceRevisions[d]) + 1)
    BY <2>2, <2>3, <2>4, <2>5, <2>6 DEF ResourceRevision
  <2>8. PushesItem(p, r, d, item)
    BY <1>4, <2>2, <2>7 DEF PushesItem, CreateResourceRevision
  <2> QED BY <2>1, <2>8
<1>5. ASSUME NEW d, r \in DOMAIN resourceDefs[p], d = resourceDefs[p][r], UNCHANGED resourceDefs,
             NEW n \in NumbersOf(resourceRevisions[d]), NEW platforms \in Platforms,
             UpdateResourceRevision(d, [GetResourceRevision(d, n) EXCEPT !.platforms = platforms])
      PROVE  d \in DefinitionIds /\ \E m, item : UpdatesItem(p, r, d, m, item)
  <2>1. d \in DefinitionIds
    BY <1>2, <1>5 DEF MemoryInv, DefinitionMapsOK
  <2>2. PICK list : list = resourceRevisions[d]
    OBVIOUS
  <2>3. list \in Seq(ResourceRevision) /\ \A i \in 1..Len(list) : list[i].revision = NumberAt(i)
    BY <2>1, <2>2 DEF MemoryInv, ItemListsOK, NumberAt
  <2>4. n \in {1, 2} /\ n \in 1..Len(list) /\ FirstMatch(list, n) = n /\ FirstOf(list, n) = list[n]
    BY <1>5, <2>2, <2>3, ItemList
  <2>5. list[n] \in ResourceRevision /\ list[n].revision = n
    BY <2>3, <2>4 DEF NumberAt
  <2>6. PICK item : item = [list[n] EXCEPT !.platforms = platforms]
    OBVIOUS
  <2>7. /\ item \in ResourceRevision /\ item.revision = n
        /\ item.upload = list[n].upload /\ item.digest = list[n].digest
    BY <2>5, <2>6 DEF ResourceRevision
  <2>8. UpdateResourceRevision(d, item)
    BY <1>5, <2>2, <2>4, <2>6 DEF GetResourceRevision
  <2>9. resourceRevisions' = [resourceRevisions EXCEPT ![d] = [@ EXCEPT ![n] = item]]
    BY <2>2, <2>4, <2>7, <2>8 DEF UpdateResourceRevision
  <2>10. UpdatesItem(p, r, d, n, item)
    BY <1>5, <2>2, <2>4, <2>7, <2>9 DEF UpdatesItem
  <2> QED BY <2>1, <2>10
<1>6. CASE /\ r \in ListResourceDefinitions(p)
           /\ LET d == GetResourceDefinition(p, r) IN
                \/ /\ Len(resourceRevisions[d]) < MaxPushes
                   /\ \E u \in DOMAIN uploads, platforms \in Platforms :
                        CreateResourceRevision(d, [revision |-> NextResourceNumber(d), upload |-> u,
                          digest |-> GetUpload(u).digest, platforms |-> platforms])
                \/ \E n \in NumbersOf(ListResourceRevisions(d)), platforms \in Platforms :
                     UpdateResourceRevision(d, [GetResourceRevision(d, n) EXCEPT !.platforms = platforms])
           /\ UNCHANGED resourceDefs
  <2>1. PICK d : d = resourceDefs[p][r]
    OBVIOUS
  <2>2. r \in DOMAIN resourceDefs[p] /\ UNCHANGED resourceDefs
    BY <1>6 DEF ListResourceDefinitions
  <2>3. \/ \E u \in DOMAIN uploads, platforms \in Platforms :
             CreateResourceRevision(d, [revision |-> NextResourceNumber(d), upload |-> u,
               digest |-> GetUpload(u).digest, platforms |-> platforms])
        \/ \E n \in NumbersOf(resourceRevisions[d]), platforms \in Platforms :
             UpdateResourceRevision(d, [GetResourceRevision(d, n) EXCEPT !.platforms = platforms])
    BY <1>6, <2>1 DEF GetResourceDefinition, ListResourceRevisions
  <2>4. /\ d \in DefinitionIds
        /\ \/ \E item : PushesItem(p, r, d, item)
           \/ \E n, item : UpdatesItem(p, r, d, n, item)
    BY <1>4, <1>5, <2>1, <2>2, <2>3
  <2> QED BY <1>0, <1>2, <2>4
<1> QED BY <1>1, <1>3, <1>6

LEMMA DefinitionsKeepTheirMaps ==
  ASSUME MemoryInv, NEW p \in PackageIds, NEW r \in Resources, NEW d \in DefinitionIds,
         Defines(p, r, d), UNCHANGED revisions
  PROVE  DefinitionMapsOK'
<1>1. PICK map : map = resourceDefs[p]
  OBVIOUS
<1>2. PICK map2 : map2 = Put(map, r, d)
  OBVIOUS
<1>3. /\ DOMAIN resourceDefs = PackageIds
      /\ map \in [DOMAIN map -> DefinitionIds] /\ DOMAIN map \subseteq Resources
  BY <1>1 DEF MemoryInv, DefinitionMapsOK
<1>4. /\ map2 \in [DOMAIN map2 -> DefinitionIds] /\ DOMAIN map2 = DOMAIN map \cup {r}
      /\ map2[r] = d /\ \A s \in DOMAIN map : s # r => map2[s] = map[s]
  <2>1. map2 \in [DOMAIN map2 -> DefinitionIds]
    BY <1>2, <1>3, PutType
  <2> QED BY <1>2, <2>1 DEF Put
<1>5. /\ DOMAIN resourceDefs' = PackageIds /\ resourceDefs'[p] = map2
      /\ \A q \in PackageIds : q # p => resourceDefs'[q] = resourceDefs[q]
  BY <1>1, <1>2, <1>3 DEF Defines
<1>6. revisions[p] # <<>>
  BY DEF Defines
<1>7. \A q \in PackageIds :
        /\ resourceDefs'[q] \in [DOMAIN resourceDefs'[q] -> DefinitionIds]
        /\ DOMAIN resourceDefs'[q] \subseteq Resources
        /\ revisions'[q] = <<>> => DOMAIN resourceDefs'[q] = {}
  <2> SUFFICES ASSUME NEW q \in PackageIds
               PROVE  /\ resourceDefs'[q] \in [DOMAIN resourceDefs'[q] -> DefinitionIds]
                      /\ DOMAIN resourceDefs'[q] \subseteq Resources
                      /\ revisions'[q] = <<>> => DOMAIN resourceDefs'[q] = {}
    OBVIOUS
  <2>1. CASE q = p
    BY <1>3, <1>4, <1>5, <1>6, <2>1
  <2>2. CASE q # p
    BY <1>5, <2>2 DEF MemoryInv, DefinitionMapsOK
  <2> QED BY <2>1, <2>2
<1>8. \A q \in PackageIds : \A s \in DOMAIN resourceDefs[q] : resourceDefs[q][s] # d
  BY DEF Defines, Defined
<1>9. ASSUME NEW q \in PackageIds, NEW s \in DOMAIN resourceDefs'[q]
      PROVE  \/ q = p /\ s = r /\ resourceDefs'[q][s] = d
             \/ /\ s \in DOMAIN resourceDefs[q] /\ resourceDefs'[q][s] = resourceDefs[q][s]
                /\ resourceDefs'[q][s] # d
  <2>1. CASE q = p
    BY <1>1, <1>4, <1>5, <1>8, <2>1
  <2>2. CASE q # p
    BY <1>5, <1>8, <2>2
  <2> QED BY <2>1, <2>2
<1>10. \A q, m \in PackageIds : \A s \in DOMAIN resourceDefs'[q], t \in DOMAIN resourceDefs'[m] :
         resourceDefs'[q][s] = resourceDefs'[m][t] => q = m /\ s = t
  BY <1>9 DEF MemoryInv, DefinitionMapsOK
<1> QED BY <1>5, <1>7, <1>10 DEF DefinitionMapsOK

LEMMA ItemListsKeepTheirNumbers ==
  ASSUME MemoryInv, NEW d \in DefinitionIds, NEW list2 \in Seq(ResourceRevision),
         resourceRevisions' = [resourceRevisions EXCEPT ![d] = list2],
         \A i \in 1..Len(list2) : list2[i].revision = NumberAt(i)
  PROVE  ItemListsOK'
<1>1. resourceRevisions \in [DefinitionIds -> Seq(ResourceRevision)]
  BY DEF MemoryInv, ItemListsOK
<1>2. /\ resourceRevisions' \in [DefinitionIds -> Seq(ResourceRevision)]
      /\ resourceRevisions'[d] = list2
      /\ \A e \in DefinitionIds : e # d => resourceRevisions'[e] = resourceRevisions[e]
  BY <1>1
<1>3. ASSUME NEW e \in DefinitionIds
      PROVE  \A i \in 1..Len(resourceRevisions'[e]) :
               resourceRevisions'[e][i].revision = IF i = 1 THEN 1 ELSE 2
  <2>1. CASE e = d
    BY <1>2, <2>1 DEF NumberAt
  <2>2. CASE e # d
    BY <1>2, <2>2 DEF MemoryInv, ItemListsOK
  <2> QED BY <2>1, <2>2
<1> QED BY <1>2, <1>3 DEF ItemListsOK

\* The list after a push and after an update of one of its items.
LEMMA PushedList ==
  ASSUME MemoryInv, NEW p, NEW r, NEW d \in DefinitionIds, NEW item, PushesItem(p, r, d, item),
         NEW list, list = resourceRevisions[d]
  PROVE  /\ list \in Seq(ResourceRevision) /\ Append(list, item) \in Seq(ResourceRevision)
         /\ Len(Append(list, item)) = Len(list) + 1
         /\ \A i \in 1..Len(list) : Append(list, item)[i] = list[i]
         /\ Append(list, item)[Len(list) + 1] = item
         /\ \A i \in 1..Len(Append(list, item)) : Append(list, item)[i].revision = NumberAt(i)
<1>1. list \in Seq(ResourceRevision) /\ \A i \in 1..Len(list) : list[i].revision = NumberAt(i)
  BY DEF MemoryInv, ItemListsOK, NumberAt
<1>2. item \in ResourceRevision /\ item.revision = NumberAt(Len(list) + 1)
  BY DEF PushesItem
<1>3. /\ Append(list, item) \in Seq(ResourceRevision)
      /\ Len(Append(list, item)) = Len(list) + 1
      /\ \A i \in 1..Len(list) : Append(list, item)[i] = list[i]
      /\ Append(list, item)[Len(list) + 1] = item
  BY <1>1, <1>2
<1>4. ASSUME NEW i \in 1..Len(Append(list, item))
      PROVE  Append(list, item)[i].revision = NumberAt(i)
  <2>1. CASE i \in 1..Len(list)
    BY <1>1, <1>3, <2>1
  <2>2. CASE i = Len(list) + 1
    BY <1>2, <1>3, <2>2
  <2> QED BY <1>1, <1>3, <2>1, <2>2
<1> QED BY <1>1, <1>3, <1>4

LEMMA UpdatedList ==
  ASSUME MemoryInv, NEW p, NEW r, NEW d \in DefinitionIds, NEW n, NEW item,
         UpdatesItem(p, r, d, n, item), NEW list, list = resourceRevisions[d]
  PROVE  /\ list \in Seq(ResourceRevision)
         /\ [list EXCEPT ![n] = item] \in Seq(ResourceRevision)
         /\ Len([list EXCEPT ![n] = item]) = Len(list)
         /\ n \in 1..Len(list) /\ [list EXCEPT ![n] = item][n] = item
         /\ \A i \in 1..Len(list) : i # n => [list EXCEPT ![n] = item][i] = list[i]
         /\ \A i \in 1..Len(list) : [list EXCEPT ![n] = item][i].revision = NumberAt(i)
<1>1. list \in Seq(ResourceRevision) /\ \A i \in 1..Len(list) : list[i].revision = NumberAt(i)
  BY DEF MemoryInv, ItemListsOK, NumberAt
<1>2. /\ item \in ResourceRevision /\ item.revision = NumberAt(n)
      /\ n \in 1..Len(list)
  BY DEF UpdatesItem, NumberAt
<1>3. /\ [list EXCEPT ![n] = item] \in Seq(ResourceRevision)
      /\ Len([list EXCEPT ![n] = item]) = Len(list)
      /\ [list EXCEPT ![n] = item][n] = item
      /\ \A i \in 1..Len(list) : i # n => [list EXCEPT ![n] = item][i] = list[i]
  BY <1>1, <1>2
<1>4. \A i \in 1..Len(list) : [list EXCEPT ![n] = item][i].revision = NumberAt(i)
  BY <1>1, <1>2, <1>3
<1> QED BY <1>1, <1>2, <1>3, <1>4

LEMMA ResourcesKeepTheMaps ==
  ASSUME MemoryInv, ResourceCall
  PROVE  DefinitionMapsOK' /\ ItemListsOK'
<1>0. revisions' = revisions
  BY ResourceCallIs
<1>1. PICK p \in PackageIds, r \in Resources, d \in DefinitionIds :
        \/ Defines(p, r, d)
        \/ \E item : PushesItem(p, r, d, item)
        \/ \E n, item : UpdatesItem(p, r, d, n, item)
  BY ResourceCallIs
<1>2. PICK list : list = resourceRevisions[d]
  OBVIOUS
<1>3. CASE Defines(p, r, d)
  <2>1. DefinitionMapsOK'
    BY <1>0, <1>3, DefinitionsKeepTheirMaps
  <2>2. resourceRevisions' = resourceRevisions
    BY <1>3 DEF Defines
  <2> QED BY <2>1, <2>2 DEF MemoryInv, ItemListsOK
<1>4. CASE \E item : PushesItem(p, r, d, item)
  <2>1. PICK item : PushesItem(p, r, d, item)
    BY <1>4
  <2>2. resourceDefs' = resourceDefs
        /\ resourceRevisions' = [resourceRevisions EXCEPT ![d] = Append(list, item)]
    BY <1>2, <2>1 DEF PushesItem
  <2>3. /\ Append(list, item) \in Seq(ResourceRevision)
        /\ \A i \in 1..Len(Append(list, item)) : Append(list, item)[i].revision = NumberAt(i)
    BY <1>2, <2>1, PushedList
  <2>4. ItemListsOK'
    BY <2>2, <2>3, ItemListsKeepTheirNumbers
  <2> QED BY <1>0, <2>2, <2>4 DEF MemoryInv, DefinitionMapsOK
<1>5. CASE \E n, item : UpdatesItem(p, r, d, n, item)
  <2>1. PICK n, item : UpdatesItem(p, r, d, n, item)
    BY <1>5
  <2>2. resourceDefs' = resourceDefs
        /\ resourceRevisions' = [resourceRevisions EXCEPT ![d] = [list EXCEPT ![n] = item]]
    BY <1>2, <2>1 DEF UpdatesItem
  <2>3. /\ [list EXCEPT ![n] = item] \in Seq(ResourceRevision)
        /\ \A i \in 1..Len([list EXCEPT ![n] = item]) :
             [list EXCEPT ![n] = item][i].revision = NumberAt(i)
    BY <1>2, <2>1, UpdatedList
  <2>4. ItemListsOK'
    BY <2>2, <2>3, ItemListsKeepTheirNumbers
  <2> QED BY <1>0, <2>2, <2>4 DEF MemoryInv, DefinitionMapsOK
<1> QED BY <1>1, <1>3, <1>4, <1>5

-----------------------------------------------------------------------------
(* The invariant, and what follows from it. *)

LEMMA NewMemoryInv == NewMemory => MemoryInv
<1> SUFFICES ASSUME NewMemory PROVE MemoryInv
  OBVIOUS
<1> USE DEF NewMemory, EmptyMap
<1>1. AccountMapsOK
  BY MemoryAssumption DEF AccountMapsOK
<1>2. PackageMapsOK /\ UploadMapsOK
  BY DEF PackageMapsOK, UploadMapsOK
<1>3. RevisionListsOK /\ ReleaseMapsOK
  BY DEF RevisionListsOK, ReleaseMapsOK
<1>4. DefinitionMapsOK /\ ItemListsOK
  BY DEF DefinitionMapsOK, ItemListsOK
<1> QED BY <1>1, <1>2, <1>3, <1>4 DEF MemoryInv

LEMMA NextKeepsMemoryInv == MemoryInv /\ [MemoryNext]_memoryVars => MemoryInv'
<1> SUFFICES ASSUME MemoryInv, [MemoryNext]_memoryVars PROVE MemoryInv'
  OBVIOUS
<1> USE DEF MemoryInv
<1>1. CASE AccountCall
  <2>1. UNCHANGED <<packageMaps, uploads, revisions, resourceMaps, releases, data>>
    BY <1>1 DEF AccountCall
  <2>2. AccountMapsOK'
    BY <1>1, AccountsAndTokens
  <2> QED BY <2>1, <2>2 DEF PackageMapsOK, UploadMapsOK, RevisionListsOK, ReleaseMapsOK,
            DefinitionMapsOK, ItemListsOK, packageMaps, resourceMaps
<1>2. CASE Tick
  <2>1. UNCHANGED <<packageMaps, uploads, revisions, resourceMaps, releases, data>>
    BY <1>2 DEF Tick
  <2>2. AccountMapsOK'
    BY <1>2, OtherCallsKeepAccounts
  <2> QED BY <2>1, <2>2 DEF PackageMapsOK, UploadMapsOK, RevisionListsOK, ReleaseMapsOK,
            DefinitionMapsOK, ItemListsOK, packageMaps, resourceMaps
<1>3. CASE PackageCall
  <2>1. UNCHANGED <<accountMaps, uploads, revisions, resourceMaps, releases, data, now>>
    BY <1>3 DEF PackageCall
  <2>2. AccountMapsOK'
    BY <2>1, OtherCallsKeepAccounts
  <2>3. PackageMapsOK' /\ RevisionListsOK'
    BY <1>3, PackagesKeepIndexes, PackagesKeepTheLists
  <2> QED BY <2>1, <2>2, <2>3 DEF UploadMapsOK, ReleaseMapsOK, DefinitionMapsOK, ItemListsOK,
            resourceMaps
<1>4. CASE UploadCall
  <2>1. UNCHANGED <<accountMaps, packageMaps, revisions, resourceMaps, releases, now>>
    BY <1>4 DEF UploadCall
  <2>2. AccountMapsOK'
    BY <2>1, OtherCallsKeepAccounts
  <2>3. UploadMapsOK'
    BY <1>4, UploadsKeepTheirRows
  <2> QED BY <2>1, <2>2, <2>3 DEF PackageMapsOK, RevisionListsOK, ReleaseMapsOK,
            DefinitionMapsOK, ItemListsOK, packageMaps, resourceMaps
<1>5. CASE RevisionCall
  <2>1. UNCHANGED <<accountMaps, packageMaps, uploads, resourceMaps, data, now>>
    BY <1>5 DEF RevisionCall
  <2>2. AccountMapsOK'
    BY <2>1, OtherCallsKeepAccounts
  <2>3. RevisionListsOK' /\ ReleaseMapsOK' /\ DefinitionMapsOK'
    BY <1>5, RevisionsKeepTheMaps
  <2> QED BY <2>1, <2>2, <2>3 DEF PackageMapsOK, UploadMapsOK, ItemListsOK, packageMaps, resourceMaps
<1>6. CASE ResourceCall
  <2>1. UNCHANGED <<accountMaps, packageMaps, uploads, revisions, releases, data, now>>
    BY <1>6 DEF ResourceCall
  <2>2. AccountMapsOK'
    BY <2>1, OtherCallsKeepAccounts
  <2>3. DefinitionMapsOK' /\ ItemListsOK'
    BY <1>6, ResourcesKeepTheMaps
  <2> QED BY <2>1, <2>2, <2>3 DEF PackageMapsOK, UploadMapsOK, RevisionListsOK, ReleaseMapsOK, packageMaps
<1>7. CASE UNCHANGED memoryVars
  <2>1. AccountMapsOK'
    BY <1>7, OtherCallsKeepAccounts DEF memoryVars
  <2> QED BY <1>7, <2>1 DEF memoryVars, PackageMapsOK, UploadMapsOK, RevisionListsOK, ReleaseMapsOK,
            DefinitionMapsOK, ItemListsOK, packageMaps, resourceMaps
<1> QED BY <1>1, <1>2, <1>3, <1>4, <1>5, <1>6, <1>7 DEF MemoryNext

\* The maps and lists have in common, in every reachable state, what MemoryInv says.
THEOREM MemoryInvariance == MemorySpec => []MemoryInv
<1>1. NewMemory => MemoryInv
  BY NewMemoryInv
<1>2. MemoryInv /\ [MemoryNext]_memoryVars => MemoryInv'
  BY NextKeepsMemoryInv
<1> QED BY <1>1, <1>2, PTL DEF MemorySpec

\* Each map holds what its type in the struct says, whatever sequence of calls the
\* service makes.
THEOREM MemoryTypeCorrect == MemorySpec => []MemoryTypeOK
<1>1. MemoryInv => MemoryTypeOK
  <2> SUFFICES ASSUME MemoryInv PROVE MemoryTypeOK
    OBVIOUS
  <2> USE DEF MemoryInv
  <2>1. /\ DOMAIN accounts \subseteq Subjects /\ DOMAIN accountsByID \subseteq AccountIds
        /\ \A h \in DOMAIN tokens : tokens[h] \in StoreToken
    BY DEF AccountMapsOK
  <2>2. /\ issued \subseteq PackageIds /\ DOMAIN packagesByID \subseteq issued
        /\ \A p \in DOMAIN packagesByID : packagesByID[p] \in Package
    BY DEF PackageMapsOK
  <2>3. \A u \in DOMAIN uploads : uploads[u] \in T!UploadRow
    BY DEF UploadMapsOK
  <2>4. \A p \in PackageIds : \A i \in DOMAIN revisions[p] : revisions[p][i] \in Revision
    BY DEF RevisionListsOK
  <2>5. \A p \in PackageIds : \A c \in DOMAIN releases[p] :
          c \in Channels /\ releases[p][c] \in 1..MaxRevision
    BY DEF ReleaseMapsOK
  <2>6. \A p \in PackageIds : \A r \in DOMAIN resourceDefs[p] :
          r \in Resources /\ resourceDefs[p][r] \in DefinitionIds
    BY DEF DefinitionMapsOK
  <2>7. \A d \in DefinitionIds : \A i \in DOMAIN resourceRevisions[d] :
          resourceRevisions[d][i] \in ResourceRevision
    BY DEF ItemListsOK
  <2> QED BY <2>1, <2>2, <2>3, <2>4, <2>5, <2>6, <2>7 DEF MemoryTypeOK
<1> QED BY <1>1, MemoryInvariance, PTL

\* A token leads to the account it was issued for, and is listed as active as long as
\* in Postgres, but for the instant it expires at.
THEOREM TokensLeadToTheirAccounts == MemorySpec => []AccountsAgree
<1>1. MemoryInv => AccountsAgree
  <2> SUFFICES ASSUME MemoryInv, NEW h \in DOMAIN tokens
               PROVE  LET id == tokens[h].account
                          active == ~tokens[h].revoked /\ tokens[h].until > now IN
                      /\ FindStoreTokenByHash(h) # None /\ accounts[FindStoreTokenByHash(h)] = id
                      /\ h \in ListStoreTokens(id, TRUE)
                      /\ h \in ListStoreTokens(id, FALSE)
                           <=> active \/ (~tokens[h].revoked /\ tokens[h].until = now)
    BY DEF AccountsAgree
  <2>1. PICK id : id = tokens[h].account
    OBVIOUS
  <2>2. /\ tokens[h] \in StoreToken /\ now \in 0..MaxTime
        /\ id \in DOMAIN accountsByID /\ accountsByID[id] \in DOMAIN accounts
        /\ accounts[accountsByID[id]] = id /\ DOMAIN accounts \subseteq Subjects
    BY <2>1 DEF MemoryInv, AccountMapsOK
  <2>3. tokens[h].until \in Int /\ now \in Int
    BY <2>2, MemoryAssumption DEF StoreToken
  <2>4. FindStoreTokenByHash(h) = accountsByID[id]
    BY <2>1, <2>2 DEF FindStoreTokenByHash
  <2>5. FindStoreTokenByHash(h) # None /\ accounts[FindStoreTokenByHash(h)] = id
    BY <2>2, <2>4, ValuesAssumption
  <2>6. h \in ListStoreTokens(id, TRUE)
    BY <2>1 DEF ListStoreTokens
  <2>7. ~(tokens[h].until < now) <=> tokens[h].until > now \/ tokens[h].until = now
    BY <2>3
  <2>8. h \in ListStoreTokens(id, FALSE) <=> ~tokens[h].revoked /\ ~(tokens[h].until < now)
    BY <2>1 DEF ListStoreTokens, Expired
  <2> QED BY <2>1, <2>5, <2>6, <2>7, <2>8
<1> QED BY <1>1, MemoryInvariance, PTL

-----------------------------------------------------------------------------
(* The tables as the read methods show them. *)

RowOf(revision) == [upload |-> revision.upload, digest |-> revision.digest]
RowsOf(list) == [n \in 1..Len(list) |-> RowOf(list[n])]

LEMMA ShownRevisionsAre ==
  RevisionListsOK => ShownRevisions = [p \in PackageIds |-> RowsOf(revisions[p])]
<1> SUFFICES ASSUME RevisionListsOK
             PROVE  ShownRevisions = [p \in PackageIds |-> RowsOf(revisions[p])]
  OBVIOUS
<1>1. ASSUME NEW p \in PackageIds
      PROVE  [n \in NumbersOf(ListRevisions(p, None)) |->
                LET revision == GetRevisionByNumber(p, n) IN
                [upload |-> revision.upload, digest |-> revision.digest]] = RowsOf(revisions[p])
  <2>1. /\ revisions[p] \in Seq(Revision)
        /\ \A i \in 1..Len(revisions[p]) : revisions[p][i].revision = i
    BY DEF RevisionListsOK
  <2>2. /\ NumbersOf(revisions[p]) = 1..Len(revisions[p])
        /\ \A n \in 1..Len(revisions[p]) : FirstOf(revisions[p], n) = revisions[p][n]
    BY <2>1, NumberedList
  <2> QED BY <2>2 DEF ListRevisions, GetRevisionByNumber, RowsOf, RowOf
<1> QED BY <1>1 DEF ShownRevisions

\* The list ends with the greatest number.
LEMMA LatestOfTheList ==
  ASSUME RevisionListsOK, NEW p \in PackageIds
  PROVE  NextNumber(p) = T!NextRevision(p)
<1>1. NextNumber(p) = Len(revisions[p]) + 1
  BY NextNumberIs
<1>2. PICK m : m = Len(revisions[p])
  OBVIOUS
<1>3. m \in Nat
  BY <1>2 DEF RevisionListsOK
<1>4. DOMAIN ShownRevisions[p] = 1..m
  BY <1>2, ShownRevisionsAre DEF RowsOf
<1>5. CASE m = 0
  BY <1>1, <1>2, <1>4, <1>5 DEF T!NextRevision
<1>6. CASE m > 0
  <2>1. T!Max(1..m) = m
    BY <1>3, <1>6 DEF T!Max
  <2>2. T!NextRevision(p) = m + 1
    BY <1>3, <1>4, <1>6, <2>1 DEF T!NextRevision
  <2> QED BY <1>1, <1>2, <2>2
<1> QED BY <1>3, <1>5, <1>6

\* What is listed or found by name is what may be managed or viewed by id.
LEMMA IndexesShowTheSame ==
  ASSUME PackageMapsOK
  PROVE  /\ {packages[name] : name \in DOMAIN packages} = {packagesByID[p] : p \in DOMAIN packagesByID}
         /\ \A id : /\ ListPackagesForAccount(id)
                         = {packagesByID[p] : p \in {q \in PackageIds : CanManagePackage(q, id)}}
                    /\ ListPackagesForAccount(id) \subseteq
                         {packagesByID[p] : p \in {q \in PackageIds : CanViewPackage(q, id)}}
<1>1. \A name \in DOMAIN packages :
        /\ packages[name].id \in DOMAIN packagesByID /\ packages[name].id \in PackageIds
        /\ packagesByID[packages[name].id] = packages[name]
  BY DEF PackageMapsOK
<1>2. \A p \in DOMAIN packagesByID :
        packagesByID[p].name \in DOMAIN packages /\ packages[packagesByID[p].name] = packagesByID[p]
  BY DEF PackageMapsOK
<1>3. {packages[name] : name \in DOMAIN packages} = {packagesByID[p] : p \in DOMAIN packagesByID}
  BY <1>1, <1>2
<1>4. ASSUME NEW id
      PROVE  /\ ListPackagesForAccount(id)
                  = {packagesByID[p] : p \in {q \in PackageIds : CanManagePackage(q, id)}}
             /\ ListPackagesForAccount(id) \subseteq
                  {packagesByID[p] : p \in {q \in PackageIds : CanViewPackage(q, id)}}
  <2>1. ASSUME NEW name \in DOMAIN packages, packages[name].owner = id
        PROVE  \E p \in PackageIds :
                 /\ CanManagePackage(p, id) /\ CanViewPackage(p, id)
                 /\ packages[name] = packagesByID[p]
    BY <1>1, <2>1 DEF CanManagePackage, CanViewPackage
  <2>2. ASSUME NEW p \in PackageIds, CanManagePackage(p, id)
        PROVE  \E name \in DOMAIN packages :
                 packages[name].owner = id /\ packagesByID[p] = packages[name]
    BY <1>2, <2>2 DEF CanManagePackage
  <2> QED BY <2>1, <2>2 DEF ListPackagesForAccount
<1> QED BY <1>3, <1>4

LEMMA SearchShowsTheSame ==
  ASSUME PackageMapsOK, NEW query, query # None
  PROVE  SearchPackages(query) =
           {packagesByID[p] : p \in {q \in DOMAIN packagesByID :
                                       <<query, packagesByID[q].name>> \in Matches}}
<1> DEFINE Found == {n \in DOMAIN packages : <<query, n>> \in Matches}
           There == {q \in DOMAIN packagesByID : <<query, packagesByID[q].name>> \in Matches}
<1>1. \A name \in Found : \E p \in There : packages[name] = packagesByID[p]
  <2> SUFFICES ASSUME NEW name \in Found
               PROVE  \E p \in There : packages[name] = packagesByID[p]
    OBVIOUS
  <2>1. PICK p : p = packages[name].id
    OBVIOUS
  <2>2. /\ p \in DOMAIN packagesByID /\ packagesByID[p] = packages[name]
        /\ packagesByID[p].name = name
    BY <2>1 DEF PackageMapsOK
  <2> QED BY <2>2
<1>2. \A p \in There : \E name \in Found : packagesByID[p] = packages[name]
  BY DEF PackageMapsOK
<1>3. SearchPackages(query) = {packages[name] : name \in Found}
  BY DEF SearchPackages
<1> HIDE DEF Found, There
<1>4. SearchPackages(query) = {packagesByID[p] : p \in There}
  BY <1>1, <1>2, <1>3
<1> QED BY <1>4 DEF There

\* A revision that is asked for by its number is at its place in the list, or nowhere.
LEMMA RevisionsReadTheSame ==
  ASSUME RevisionListsOK, NEW p \in PackageIds
  PROVE  LET list == ListRevisions(p, None) IN
         /\ \A i \in DOMAIN list : list[i].revision = i /\ ListRevisions(p, i) = <<list[i]>>
         /\ \A n \in 1..MaxRevision :
              ListRevisions(p, n) = None <=> n \notin DOMAIN ShownRevisions[p]
         /\ NextNumber(p) = T!NextRevision(p)
<1>1. PICK list : list = revisions[p]
  OBVIOUS
<1>2. list \in Seq(Revision) /\ \A i \in 1..Len(list) : list[i].revision = i
  BY <1>1 DEF RevisionListsOK
<1>3. /\ NumbersOf(list) = 1..Len(list)
      /\ \A n \in 1..Len(list) : FirstOf(list, n) = list[n]
  BY <1>2, NumberedList
<1>4. ListRevisions(p, None) = list
  BY <1>1 DEF ListRevisions
<1>5. \A i \in 1..Len(list) : ListRevisions(p, i) = <<list[i]>>
  <2> SUFFICES ASSUME NEW i \in 1..Len(list) PROVE ListRevisions(p, i) = <<list[i]>>
    OBVIOUS
  <2>1. list[i] \in Revision /\ list[i].revision = i
    BY <1>2
  <2>2. i # None
    BY <2>1, ValuesAssumption DEF Revision
  <2> QED BY <1>1, <1>3, <2>2 DEF ListRevisions
<1>6. \A n \in 1..MaxRevision : ListRevisions(p, n) = None <=> n \notin 1..Len(list)
  <2> SUFFICES ASSUME NEW n \in 1..MaxRevision
               PROVE  ListRevisions(p, n) = None <=> n \notin 1..Len(list)
    OBVIOUS
  <2>1. n # None
    BY ValuesAssumption
  <2>2. CASE n \in 1..Len(list)
    <3>1. ListRevisions(p, n) = <<list[n]>>
      BY <1>5, <2>2
    <3>2. <<list[n]>> \in Seq(Revision)
      BY <1>2, <2>2
    <3> QED BY <2>2, <3>1, <3>2, ValuesAssumption
  <2>3. CASE n \notin 1..Len(list)
    BY <1>1, <1>3, <2>1, <2>3 DEF ListRevisions
  <2> QED BY <2>2, <2>3
<1>7. DOMAIN ShownRevisions[p] = 1..Len(list)
  BY <1>1, ShownRevisionsAre DEF RowsOf
<1>8. NextNumber(p) = T!NextRevision(p)
  BY LatestOfTheList
<1> QED BY <1>2, <1>4, <1>5, <1>6, <1>7, <1>8

\* Whichever of its maps a request goes through, it reads the same.
THEOREM BothIndexesAgree == MemorySpec => []IndexesAgree
<1>1. MemoryInv => IndexesAgree
  <2> SUFFICES ASSUME MemoryInv PROVE IndexesAgree
    OBVIOUS
  <2>1. PackageMapsOK /\ RevisionListsOK /\ DOMAIN packagesByID \subseteq PackageIds
    BY DEF MemoryInv, PackageMapsOK
  <2>2. /\ {packages[name] : name \in DOMAIN packages}
             = {packagesByID[p] : p \in DOMAIN packagesByID}
        /\ \A id \in DOMAIN accountsByID :
             /\ ListPackagesForAccount(id)
                  = {packagesByID[p] : p \in {q \in PackageIds : CanManagePackage(q, id)}}
             /\ ListPackagesForAccount(id) \subseteq
                  {packagesByID[p] : p \in {q \in PackageIds : CanViewPackage(q, id)}}
    BY <2>1, IndexesShowTheSame
  <2>3. /\ \A name \in DOMAIN packages : packages[name].name = name
        /\ \A p \in DOMAIN packagesByID : packagesByID[p].id = p
    BY <2>1 DEF PackageMapsOK
  <2>4. /\ \A subject \in DOMAIN accounts : accountsByID[accounts[subject]] = subject
        /\ \A id \in DOMAIN accountsByID : accounts[GetAccountByID(id)] = id
    BY DEF MemoryInv, AccountMapsOK, GetAccountByID
  <2>5. SearchPackages(None) = {packagesByID[p] : p \in DOMAIN packagesByID}
    BY <2>2 DEF SearchPackages
  <2>6. \A query \in Queries : SearchPackages(query) =
          {packagesByID[p] : p \in {q \in DOMAIN packagesByID :
                                      <<query, packagesByID[q].name>> \in Matches}}
    BY <2>1, SearchShowsTheSame, ValuesAssumption
  <2>7. RevisionReads
    BY <2>1, RevisionsReadTheSame DEF RevisionReads
  <2> QED BY <2>2, <2>3, <2>4, <2>5, <2>6, <2>7 DEF IndexesAgree
<1> QED BY <1>1, MemoryInvariance, PTL

-----------------------------------------------------------------------------
(* RunsLikePostgres: each call is a statement, or one of the differences. *)

ShownRow(pkg) == [name |-> pkg.name, private |-> pkg.private, status |-> pkg.status]
ShownTracks == [p \in PackageIds |-> ListTracks(p)]
ShownReleases == [p \in PackageIds |-> [c \in ListReleases(p) |-> ResolveRelease(p, c)]]
ShownDefinitions == [p \in PackageIds |-> ListResourceDefinitions(p)]
ShownUploads == [u \in DOMAIN uploads |-> GetUpload(u)]

\* A step of RunsLikePostgres.
Quiet == UNCHANGED <<packageMaps, uploads, revisions, resourceMaps, releases, data>>

PostgresStep ==
  Quiet \/ Statement \/ RegistersAtOnce \/ LosesResourceRevisions \/ RepeatsResourceNumber

LEMMA ShownPackagesAre ==
  ShownPackages = [p \in DOMAIN packagesByID |-> ShownRow(packagesByID[p])]
  BY DEF ShownPackages, GetPackageByID, ShownRow

LEMMA ShownRowType ==
  ASSUME NEW pkg \in Package
  PROVE  /\ ShownRow(pkg) \in T!PackageRow
         /\ [ShownRow(pkg) EXCEPT !.name = pkg.name] = ShownRow(pkg)
  BY DEF ShownRow, Package, T!PackageRow

\* What is shown depends on the maps that a read method reads.
LEMMA ShownStays ==
  /\ UNCHANGED packagesByID => UNCHANGED <<ShownPackages, ShownTracks>>
  /\ UNCHANGED revisions => UNCHANGED ShownRevisions
  /\ UNCHANGED releases => UNCHANGED ShownReleases
  /\ UNCHANGED resourceDefs => UNCHANGED ShownDefinitions
  /\ UNCHANGED uploads => UNCHANGED ShownUploads
  /\ UNCHANGED resourceMaps => UNCHANGED ShownResourceRevisions
<1>1. UNCHANGED packagesByID => UNCHANGED <<ShownPackages, ShownTracks>>
  BY DEF ShownPackages, ShownTracks, GetPackageByID, ListTracks
<1>2. UNCHANGED revisions => UNCHANGED ShownRevisions
  BY DEF ShownRevisions, ListRevisions, GetRevisionByNumber, FirstOf, FirstMatch, NumbersOf
<1>3. UNCHANGED releases => UNCHANGED ShownReleases
  BY DEF ShownReleases, ListReleases, ResolveRelease
<1>4. UNCHANGED resourceDefs => UNCHANGED ShownDefinitions
  BY DEF ShownDefinitions, ListResourceDefinitions
<1>5. UNCHANGED uploads => UNCHANGED ShownUploads
  BY DEF ShownUploads, GetUpload
<1>6. UNCHANGED resourceMaps => UNCHANGED ShownResourceRevisions
  BY DEF ShownResourceRevisions, resourceMaps, ListResourceDefinitions, GetResourceDefinition,
         ListResourceRevisions, GetResourceRevision, FirstOf, FirstMatch, NumbersOf
<1> QED BY <1>1, <1>2, <1>3, <1>4, <1>5, <1>6

\* RegisterPackage: the row and its first track at once.
LEMMA CreatesRegisters ==
  ASSUME MemoryInv, NEW p \in PackageIds, NEW pkg, Creates(p, pkg)
  PROVE  RegistersAtOnce
<1>0. PackageMapsOK
  BY DEF MemoryInv
<1>1. /\ p \in PackageIds \ issued /\ issued' = issued \cup {p} /\ pkg \in Package
      /\ pkg.tracks = {LatestTrack} /\ pkg.name \notin DOMAIN packages
      /\ packagesByID' = Put(packagesByID, p, pkg)
  BY DEF Creates, Store
<1>2. PICK row : row = ShownRow(pkg)
  OBVIOUS
<1>3. row \in T!PackageRow /\ row.name = pkg.name
  BY <1>1, <1>2, ShownRowType DEF ShownRow
<1>4. \A q \in DOMAIN ShownPackages : ShownPackages[q].name # row.name
  <2>1. \A q \in DOMAIN packagesByID : packagesByID[q].name \in DOMAIN packages
    BY <1>0 DEF PackageMapsOK
  <2> QED BY <1>1, <1>3, <2>1, ShownPackagesAre DEF ShownRow
<1>5. ShownPackages' = Put(ShownPackages, p, row)
  <2>1. ShownPackages' = [q \in DOMAIN packagesByID' |-> ShownRow(packagesByID'[q])]
    BY DEF ShownPackages, GetPackageByID, ShownRow
  <2>2. /\ DOMAIN packagesByID' = DOMAIN packagesByID \cup {p} /\ packagesByID'[p] = pkg
        /\ \A q \in DOMAIN packagesByID : q # p => packagesByID'[q] = packagesByID[q]
    BY <1>1 DEF Put
  <2> QED BY <1>2, <2>1, <2>2, ShownPackagesAre DEF Put
<1>6. ListTracks(p)' = {LatestTrack}
  BY <1>1 DEF ListTracks, Put
<1> QED BY <1>1, <1>3, <1>4, <1>5, <1>6 DEF RegistersAtOnce

\* A call that writes back a package: its row and its tracks.
LEMMA UpdatesShow ==
  ASSUME MemoryInv, NEW p \in PackageIds, NEW pkg, Updates(p, pkg)
  PROVE  /\ ShownPackages' = [ShownPackages EXCEPT ![p] = ShownRow(pkg)]
         /\ ShownTracks' = [ShownTracks EXCEPT ![p] = pkg.tracks]
         /\ p \in DOMAIN ShownPackages
         /\ ShownPackages[p] = ShownRow(packagesByID[p])
         /\ ShownTracks[p] = packagesByID[p].tracks
         /\ UNCHANGED issued
         /\ packagesByID' # packagesByID \/ UNCHANGED packageMaps
<1>0. PackageMapsOK
  BY DEF MemoryInv
<1>1. /\ p \in DOMAIN packagesByID /\ pkg.name = packagesByID[p].name /\ pkg \in Package
      /\ packages' = Put(packages, pkg.name, pkg) /\ packagesByID' = Put(packagesByID, p, pkg)
      /\ UNCHANGED issued
  BY DEF Updates, Store
<1>2. /\ DOMAIN packagesByID' = DOMAIN packagesByID /\ packagesByID'[p] = pkg
      /\ \A q \in DOMAIN packagesByID : q # p => packagesByID'[q] = packagesByID[q]
  BY <1>1 DEF Put
<1>3. ShownPackages' = [ShownPackages EXCEPT ![p] = ShownRow(pkg)]
  <2>1. ShownPackages' = [q \in DOMAIN packagesByID' |-> ShownRow(packagesByID'[q])]
    BY DEF ShownPackages, GetPackageByID, ShownRow
  <2> QED BY <1>1, <1>2, <2>1, ShownPackagesAre
<1>4. ShownTracks' = [ShownTracks EXCEPT ![p] = pkg.tracks]
  BY <1>1, <1>2 DEF ShownTracks, ListTracks
<1>5. /\ p \in DOMAIN ShownPackages /\ ShownPackages[p] = ShownRow(packagesByID[p])
      /\ ShownTracks[p] = packagesByID[p].tracks
  BY <1>1, ShownPackagesAre DEF ShownTracks, ListTracks
<1>6. ASSUME packagesByID' = packagesByID
      PROVE  UNCHANGED packageMaps
  <2>1. pkg = packagesByID[p]
    BY <1>2, <1>6
  <2>2. /\ packages \in [DOMAIN packages -> Package] /\ pkg.name \in DOMAIN packages
        /\ packages[pkg.name] = pkg
    BY <1>0, <1>1, <2>1 DEF PackageMapsOK
  <2>3. Put(packages, pkg.name, packages[pkg.name]) = packages
    BY <2>2, PutSame
  <2> QED BY <1>1, <1>6, <2>2, <2>3 DEF packageMaps
<1> QED BY <1>1, <1>3, <1>4, <1>5, <1>6

\* UpdatePackage and CreateTracks.
LEMMA UpdatesAreStatements ==
  ASSUME MemoryInv, NEW p \in PackageIds, NEW pkg, Updates(p, pkg),
         \/ pkg.tracks = packagesByID[p].tracks
         \/ \E t \in Tracks : pkg = [packagesByID[p] EXCEPT !.tracks = @ \cup {t}],
         UNCHANGED <<accountMaps, uploads, revisions, resourceMaps, releases, data, now>>
  PROVE  Quiet \/ Statement
<1>1. CASE packagesByID' = packagesByID
  BY <1>1, UpdatesShow DEF Quiet
<1>2. CASE packagesByID' # packagesByID
  <2>0. /\ UNCHANGED <<ShownRevisions, ShownReleases, ShownDefinitions, ShownUploads, data, issued>>
        /\ UNCHANGED ShownResourceRevisions
    BY ShownStays, UpdatesShow DEF resourceMaps
  <2>1. /\ p \in DOMAIN ShownPackages /\ ShownPackages[p] = ShownRow(packagesByID[p])
        /\ ShownPackages' = [ShownPackages EXCEPT ![p] = ShownRow(pkg)]
        /\ ShownTracks[p] = packagesByID[p].tracks
        /\ ShownTracks' = [ShownTracks EXCEPT ![p] = pkg.tracks]
    BY UpdatesShow
  <2>2. packagesByID[p] \in Package /\ pkg \in Package /\ pkg.name = packagesByID[p].name
    BY DEF Updates, MemoryInv, PackageMapsOK
  <2>3. CASE pkg.tracks = packagesByID[p].tracks
    <3>1. PICK row : row = ShownRow(pkg)
      OBVIOUS
    <3>2. row \in T!PackageRow /\ [row EXCEPT !.name = ShownPackages[p].name] = row
      BY <2>1, <2>2, <3>1, ShownRowType DEF ShownRow
    <3>3. UNCHANGED ShownTracks
      BY <2>1, <2>3 DEF ShownTracks
    <3>4. T!UpdatePackageRow(p, row)
      BY <2>0, <2>1, <3>1, <3>2, <3>3
      DEF T!UpdatePackageRow, T!Live, ShownTracks, ShownReleases, ShownDefinitions, ShownUploads
    <3> QED BY <1>2, <2>0, <3>2, <3>4 DEF Statement
  <2>4. CASE \E t \in Tracks : pkg = [packagesByID[p] EXCEPT !.tracks = @ \cup {t}]
    <3>1. PICK t \in Tracks : pkg = [packagesByID[p] EXCEPT !.tracks = @ \cup {t}]
      BY <2>4
    <3>2. pkg.tracks = packagesByID[p].tracks \cup {t} /\ ShownRow(pkg) = ShownRow(packagesByID[p])
      BY <2>2, <3>1 DEF ShownRow, Package
    <3>3. UNCHANGED ShownPackages
      BY <2>1, <3>2 DEF ShownPackages
    <3>4. ShownTracks' = [ShownTracks EXCEPT ![p] = @ \cup {t}]
      BY <2>1, <3>2
    <3>5. T!InsertTrackRow(p, t)
      BY <2>0, <2>1, <3>3, <3>4
      DEF T!InsertTrackRow, T!Live, ShownTracks, ShownReleases, ShownDefinitions, ShownUploads
    <3> QED BY <1>2, <2>0, <3>5 DEF Statement
  <2> QED BY <2>3, <2>4
<1> QED BY <1>1, <1>2

ItemOf(item) ==
  [upload |-> item.upload, oci |-> FALSE, image |-> None, digest |-> item.digest,
   platforms |-> item.platforms]
ItemsOf(list) == [n \in {m \in {1, 2} : m <= Len(list)} |-> ItemOf(list[n])]
ItemsShown(p, r) ==
  IF r \in DOMAIN resourceDefs[p] THEN ItemsOf(resourceRevisions[resourceDefs[p][r]]) ELSE EmptyMap
ShownItems == [p \in PackageIds |-> [r \in Resources |-> ItemsShown(p, r)]]

\* Of a resource, the first two revisions are shown.
LEMMA ShownItemsAre ==
  DefinitionMapsOK /\ ItemListsOK => ShownResourceRevisions = ShownItems
<1> SUFFICES ASSUME DefinitionMapsOK, ItemListsOK PROVE ShownResourceRevisions = ShownItems
  OBVIOUS
<1>1. ASSUME NEW d \in DefinitionIds
      PROVE  [n \in NumbersOf(ListResourceRevisions(d)) |->
                LET item == GetResourceRevision(d, n) IN
                [upload |-> item.upload, oci |-> FALSE, image |-> None, digest |-> item.digest,
                 platforms |-> item.platforms]] = ItemsOf(resourceRevisions[d])
  <2>1. PICK list : list = resourceRevisions[d]
    OBVIOUS
  <2>2. list \in Seq(ResourceRevision) /\ \A i \in 1..Len(list) : list[i].revision = NumberAt(i)
    BY <2>1 DEF ItemListsOK, NumberAt
  <2>3. /\ NumbersOf(list) = {n \in {1, 2} : n <= Len(list)}
        /\ \A n \in NumbersOf(list) : FirstOf(list, n) = list[n]
    BY <2>2, ItemList
  <2> QED BY <2>1, <2>3 DEF ListResourceRevisions, GetResourceRevision, ItemsOf, ItemOf
<1>2. \A p \in PackageIds : \A r \in DOMAIN resourceDefs[p] : resourceDefs[p][r] \in DefinitionIds
  BY DEF DefinitionMapsOK
<1>3. ASSUME NEW p \in PackageIds, NEW r \in Resources
      PROVE  (IF r \notin ListResourceDefinitions(p) THEN EmptyMap
              ELSE LET d == GetResourceDefinition(p, r) IN
                   [n \in NumbersOf(ListResourceRevisions(d)) |->
                      LET item == GetResourceRevision(d, n) IN
                      [upload |-> item.upload, oci |-> FALSE, image |-> None, digest |-> item.digest,
                       platforms |-> item.platforms]]) = ItemsShown(p, r)
  BY <1>1, <1>2 DEF ListResourceDefinitions, GetResourceDefinition, ItemsShown
<1> QED BY <1>3 DEF ShownResourceRevisions, ShownItems

\* A package without revisions has nothing that a cascade would delete.
LEMMA DeletesAreStatements ==
  ASSUME MemoryInv, NEW p \in PackageIds, Deletes(p),
         UNCHANGED <<accountMaps, uploads, revisions, resourceMaps, releases, data, now>>
  PROVE  Statement
<1>1. /\ p \in DOMAIN packagesByID /\ packagesByID' = Without(packagesByID, p)
      /\ revisions[p] = <<>> /\ UNCHANGED issued
  BY DEF Deletes, DeletePackage
<1>2. /\ DOMAIN packagesByID' = DOMAIN packagesByID \ {p}
      /\ \A q \in DOMAIN packagesByID' : packagesByID'[q] = packagesByID[q]
      /\ packagesByID' # packagesByID
  BY <1>1 DEF Without
<1>3. ShownPackages' = [q \in DOMAIN ShownPackages \ {p} |-> ShownPackages[q]]
  <2>1. ShownPackages' = [q \in DOMAIN packagesByID' |-> ShownRow(packagesByID'[q])]
    BY DEF ShownPackages, GetPackageByID, ShownRow
  <2> QED BY <1>1, <1>2, <2>1, ShownPackagesAre
<1>4. ShownTracks' = [ShownTracks EXCEPT ![p] = {}]
  BY <1>1, <1>2 DEF ShownTracks, ListTracks
<1>5. UNCHANGED <<ShownRevisions, ShownReleases, ShownDefinitions, ShownUploads, data,
                  ShownResourceRevisions>>
  BY ShownStays DEF resourceMaps
<1>6. ShownRevisions = [ShownRevisions EXCEPT ![p] = T!NoRows]
  <2>1. ShownRevisions[p] = RowsOf(<<>>)
    BY <1>1, ShownRevisionsAre DEF MemoryInv
  <2>2. RowsOf(<<>>) = T!NoRows
    BY DEF RowsOf, T!NoRows
  <2> QED BY <2>1, <2>2 DEF ShownRevisions
<1>7. ShownReleases = [ShownReleases EXCEPT ![p] = T!NoRows]
  <2>1. DOMAIN releases[p] = {}
    BY <1>1 DEF MemoryInv, ReleaseMapsOK
  <2>2. [c \in ListReleases(p) |-> ResolveRelease(p, c)] = T!NoRows
    BY <2>1 DEF ListReleases, T!NoRows
  <2> QED BY <2>2 DEF ShownReleases
<1>8. ShownDefinitions = [ShownDefinitions EXCEPT ![p] = {}]
  BY <1>1 DEF ShownDefinitions, ListResourceDefinitions, MemoryInv, DefinitionMapsOK
<1>9. T!DeletePackageRow(p)
  BY <1>1, <1>3, <1>4, <1>5, <1>6, <1>7, <1>8, ShownPackagesAre
  DEF T!DeletePackageRow, T!Live, ShownTracks, ShownReleases, ShownDefinitions, ShownUploads
<1>10. T!CascadeToResources
  <2>1. ShownResourceRevisions = [q \in PackageIds |-> [r \in Resources |-> ItemsShown(q, r)]]
    BY ShownItemsAre DEF MemoryInv, ShownItems
  <2>2. ASSUME NEW q \in PackageIds, q \notin DOMAIN ShownPackages'
        PROVE  [r \in Resources |-> ItemsShown(q, r)] = T!NoResourceRows
    <3>1. revisions[q] = <<>>
      BY <1>1, <1>3, <2>2, ShownPackagesAre DEF MemoryInv, RevisionListsOK
    <3>2. DOMAIN resourceDefs[q] = {}
      BY <3>1 DEF MemoryInv, DefinitionMapsOK
    <3> QED BY <3>2 DEF ItemsShown, EmptyMap, T!NoResourceRows, T!NoRows
  <2> QED BY <1>5, <2>1, <2>2 DEF T!CascadeToResources
<1> QED BY <1>2, <1>9, <1>10 DEF Statement

LEMMA ShownUploadsAre ==
  UploadMapsOK => ShownUploads = uploads
  BY DEF UploadMapsOK, ShownUploads, GetUpload

LEMMA UploadsAreStatements ==
  ASSUME MemoryInv, MemoryInv', UploadCall
  PROVE  Quiet \/ Statement
<1>1. /\ UNCHANGED <<packageMaps, revisions, resourceMaps, releases>>
      /\ UNCHANGED <<packagesByID, issued, resourceDefs>>
  BY DEF UploadCall, packageMaps, resourceMaps
<1>2. UNCHANGED <<ShownPackages, ShownTracks, ShownRevisions, ShownReleases, ShownDefinitions,
                  ShownResourceRevisions>>
  BY <1>1, ShownStays
<1>3. ShownUploads = uploads
  BY ShownUploadsAre DEF MemoryInv
<1>4. (UploadMapsOK => ShownUploads = uploads)'
  BY ShownUploadsAre, PTL
<1>5. ShownUploads' = uploads'
  BY <1>4 DEF MemoryInv
<1>6. /\ data \in [DOMAIN data -> Payloads]
      /\ uploads \in [DOMAIN uploads -> T!UploadRow] /\ DOMAIN uploads \subseteq Uploads
  BY DEF MemoryInv, UploadMapsOK
<1>7. CASE <<uploads, data>>' = <<uploads, data>>
  BY <1>1, <1>7 DEF Quiet
<1>8. CASE /\ <<uploads, data>>' # <<uploads, data>>
           /\ \E u \in Uploads \ (DOMAIN uploads \cup DOMAIN data), payload \in Payloads :
                PutBlob(ObjectKey(u), payload) /\ UNCHANGED uploads
  <2>1. PICK u \in Uploads, payload \in Payloads :
          data' = Put(data, ObjectKey(u), payload) /\ UNCHANGED uploads
    BY <1>8 DEF PutBlob
  <2>2. T!PutObject(u, payload)
    BY <1>1, <1>2, <1>3, <1>5, <2>1
    DEF T!PutObject, T!ObjectKey, ObjectKey, T!WithRow, Put, ShownTracks, ShownReleases, ShownDefinitions, ShownUploads
  <2> QED BY <1>2, <1>8, <2>2 DEF Statement
<1>9. CASE /\ <<uploads, data>>' # <<uploads, data>>
           /\ \E u \in Uploads \ DOMAIN uploads :
                /\ ObjectKey(u) \in DOMAIN data
                /\ CreateUpload(u, data[ObjectKey(u)]) /\ UNCHANGED data
  <2>1. PICK u \in Uploads \ DOMAIN uploads :
          /\ ObjectKey(u) \in DOMAIN data
          /\ uploads' = Put(uploads, u, [digest |-> data[ObjectKey(u)], status |-> "pending",
                                        revision |-> None])
          /\ UNCHANGED data
    BY <1>9 DEF CreateUpload
  <2>2. u \in Uploads /\ data[ObjectKey(u)] \in Payloads
    BY <1>6, <2>1
  <2>3. T!InsertUploadRow(u, data[ObjectKey(u)])
    BY <1>1, <1>2, <1>3, <1>5, <2>1
    DEF T!InsertUploadRow, T!WithRow, Put, ShownTracks, ShownReleases, ShownDefinitions, ShownUploads
  <2> QED BY <1>2, <1>9, <2>2, <2>3 DEF Statement
<1>10. CASE /\ <<uploads, data>>' # <<uploads, data>>
            /\ \E u \in DOMAIN uploads, n \in 1..MaxRevision \cup {None} :
                 ApproveUpload(u, n) /\ UNCHANGED data
  <2>1. PICK u \in DOMAIN uploads, n \in 1..MaxRevision \cup {None} :
          ApproveUpload(u, n) /\ UNCHANGED data
    BY <1>10
  <2>2. PICK verdict : verdict = IF n = None THEN "rejected" ELSE "approved"
    OBVIOUS
  <2>3. uploads' = [uploads EXCEPT ![u].revision = n, ![u].status = verdict]
    BY <2>1, <2>2 DEF ApproveUpload
  <2>4. uploads[u] \in T!UploadRow
    BY <1>6
  <2>5. uploads' = [uploads EXCEPT ![u].status = verdict, ![u].revision = n]
    BY <1>6, <2>3, <2>4 DEF T!UploadRow
  <2>6. T!ReviewUploadRow(u, verdict, n)
    BY <1>1, <1>2, <1>3, <1>5, <2>1, <2>5
    DEF T!ReviewUploadRow, ShownTracks, ShownReleases, ShownDefinitions, ShownUploads
  <2>7. \/ \E m \in 1..MaxRevision : T!ReviewUploadRow(u, "approved", m)
        \/ T!ReviewUploadRow(u, "rejected", None)
    BY <2>1, <2>2, <2>6
  <2> QED BY <1>2, <1>6, <1>10, <2>1, <2>7 DEF Statement
<1> QED BY <1>7, <1>8, <1>9, <1>10 DEF UploadCall

LEMMA ShownReleasesAre ==
  ReleaseMapsOK => ShownReleases = [p \in PackageIds |-> releases[p]]
<1> SUFFICES ASSUME ReleaseMapsOK PROVE ShownReleases = [p \in PackageIds |-> releases[p]]
  OBVIOUS
<1>1. \A p \in PackageIds : [c \in ListReleases(p) |-> ResolveRelease(p, c)] = releases[p]
  BY DEF ReleaseMapsOK, ListReleases, ResolveRelease
<1> QED BY <1>1 DEF ShownReleases

LEMMA RevisionsAreStatements ==
  ASSUME MemoryInv, MemoryInv', RevisionCall
  PROVE  Quiet \/ Statement
<1>1. /\ UNCHANGED <<packageMaps, uploads, resourceMaps, data>>
      /\ UNCHANGED <<packagesByID, issued, resourceDefs>>
  BY DEF RevisionCall, packageMaps, resourceMaps
<1>2. UNCHANGED <<ShownPackages, ShownTracks, ShownUploads, ShownDefinitions, ShownResourceRevisions>>
  BY <1>1, ShownStays
<1>3. /\ ShownReleases = [p \in PackageIds |-> releases[p]]
      /\ ShownRevisions = [p \in PackageIds |-> RowsOf(revisions[p])]
  BY ShownReleasesAre, ShownRevisionsAre DEF MemoryInv
<1>4. RevisionListsOK /\ ReleaseMapsOK /\ RevisionListsOK' /\ ReleaseMapsOK'
  BY DEF MemoryInv
<1>5. (ReleaseMapsOK => ShownReleases = [p \in PackageIds |-> releases[p]])'
  BY ShownReleasesAre, PTL
<1>6. (RevisionListsOK => ShownRevisions = [p \in PackageIds |-> RowsOf(revisions[p])])'
  BY ShownRevisionsAre, PTL
<1>7. /\ ShownReleases' = [p \in PackageIds |-> releases'[p]]
      /\ ShownRevisions' = [p \in PackageIds |-> RowsOf(revisions'[p])]
  BY <1>4, <1>5, <1>6 DEF RowsOf, RowOf
<1>8. CASE <<revisions, releases>>' = <<revisions, releases>>
  BY <1>1, <1>8 DEF Quiet
<1>9. ASSUME NEW p \in PackageIds, NEW row, Pushes(p, row)
      PROVE  Quiet \/ Statement
  <2>1. PICK list : list = revisions[p]
    OBVIOUS
  <2>2. /\ p \in DOMAIN packagesByID /\ row \in Revision /\ row.revision = Len(list) + 1
        /\ revisions' = [revisions EXCEPT ![p] = Append(list, row)] /\ UNCHANGED releases
    BY <1>9, <2>1 DEF Pushes
  <2>3. revisions \in [PackageIds -> Seq(Revision)] /\ list \in Seq(Revision)
    BY <1>4, <2>1 DEF RevisionListsOK
  <2>4. PICK n : n = Len(list) + 1
    OBVIOUS
  <2>5. n \in 1..MaxRevision /\ RowOf(row) \in Rows
    BY <2>2, <2>4 DEF Revision, RowOf, Rows
  <2>6. RowsOf(Append(list, row)) = T!WithRow(RowsOf(list), n, RowOf(row))
    BY <2>3, <2>4, <2>2 DEF RowsOf, T!WithRow
  <2>7. ShownRevisions' = [ShownRevisions EXCEPT ![p] = T!WithRow(@, n, RowOf(row))]
    BY <1>3, <1>4, <1>7, <2>1, <2>2, <2>3, <2>6
  <2>8. n \notin DOMAIN ShownRevisions[p] /\ p \in DOMAIN ShownPackages
    BY <1>3, <2>1, <2>2, <2>3, <2>4, ShownPackagesAre DEF RowsOf
  <2>9. T!InsertRevisionRow(p, n, RowOf(row))
    BY <1>1, <1>2, <2>2, <2>5, <2>7, <2>8, ShownStays
    DEF T!InsertRevisionRow, T!Live, T!RevisionNumber, ShownTracks, ShownReleases, ShownDefinitions,
        ShownUploads
  <2>10. revisions' # revisions
    BY <2>1, <2>2, <2>3
  <2> QED BY <1>2, <2>5, <2>9, <2>10 DEF Statement
<1>10. ASSUME NEW p \in PackageIds, NEW c, NEW n, Releases(p, c, n),
              <<revisions, releases>>' # <<revisions, releases>>
       PROVE  Quiet \/ Statement
  <2>1. /\ p \in DOMAIN packagesByID /\ c \in Channels /\ n \in 1..Len(revisions[p])
        /\ releases' = [releases EXCEPT ![p] = Put(@, c, n)] /\ UNCHANGED revisions
    BY <1>10 DEF Releases
  <2>2. n \in 1..MaxRevision
    <3>1. /\ revisions[p] \in Seq(Revision) /\ revisions[p][n].revision = n
      BY <1>4, <2>1 DEF RevisionListsOK
    <3>2. revisions[p][n] \in Revision
      BY <2>1, <3>1
    <3> QED BY <3>1, <3>2 DEF Revision
  <2>3. ShownReleases' = [ShownReleases EXCEPT ![p] = T!WithRow(@, c, n)]
    BY <1>3, <1>4, <1>7, <2>1 DEF Put, T!WithRow, ReleaseMapsOK
  <2>4. p \in DOMAIN ShownPackages
    BY <2>1, ShownPackagesAre
  <2>5. UNCHANGED ShownRevisions
    BY <2>1, ShownStays
  <2>6. T!UpsertReleaseRow(p, c, n)
    BY <1>1, <1>2, <2>3, <2>4, <2>5
    DEF T!UpsertReleaseRow, T!Live, ShownTracks, ShownReleases, ShownDefinitions, ShownUploads
  <2> QED BY <1>2, <1>10, <2>1, <2>2, <2>6 DEF Statement
<1> QED BY <1>8, <1>9, <1>10, RevisionCallIs

\* A call about one resource changes what is shown of that one.
LEMMA OneResourceShows ==
  ASSUME MemoryInv, MemoryInv', NEW p \in PackageIds, NEW r \in Resources, NEW rows,
         ItemsShown(p, r)' = rows,
         \A q \in PackageIds : \A s \in Resources :
           q # p \/ s # r => ItemsShown(q, s)' = ItemsShown(q, s)
  PROVE  /\ ShownResourceRevisions[p][r] = ItemsShown(p, r)
         /\ ShownResourceRevisions' = [ShownResourceRevisions EXCEPT ![p][r] = rows]
<1>1. ShownResourceRevisions = [q \in PackageIds |-> [s \in Resources |-> ItemsShown(q, s)]]
  BY ShownItemsAre DEF MemoryInv, ShownItems
<1>2. (DefinitionMapsOK /\ ItemListsOK => ShownResourceRevisions = ShownItems)'
  BY ShownItemsAre, PTL
<1>3. ShownResourceRevisions' = [q \in PackageIds |-> [s \in Resources |-> ItemsShown(q, s)']]
  BY <1>2 DEF MemoryInv, ShownItems
<1> QED BY <1>1, <1>3

\* The rows of a resource come and go; what else is shown stays.
LEMMA ResourceCallsKeepTheRest ==
  ASSUME UNCHANGED <<accountMaps, packageMaps, uploads, revisions, releases, data, now>>
  PROVE  /\ UNCHANGED <<ShownPackages, ShownTracks, ShownRevisions, ShownReleases, ShownUploads>>
         /\ UNCHANGED <<data, issued>>
         /\ UNCHANGED ShownDefinitions => UNCHANGED T!tables
<1>1. UNCHANGED <<ShownPackages, ShownTracks, ShownRevisions, ShownReleases, ShownUploads>>
  BY ShownStays DEF packageMaps
<1>2. UNCHANGED <<data, issued>>
  BY DEF packageMaps
<1>3. UNCHANGED ShownDefinitions => UNCHANGED T!tables
  BY <1>1, <1>2 DEF T!tables, ShownTracks, ShownReleases, ShownDefinitions, ShownUploads
<1> QED BY <1>1, <1>2, <1>3

\* UpsertResourceDefinition: the rows of the old definition cannot be found any more.
LEMMA DefinesIsAStep ==
  ASSUME MemoryInv, MemoryInv', NEW p \in PackageIds, NEW r \in Resources,
         NEW d \in DefinitionIds, Defines(p, r, d),
         UNCHANGED <<accountMaps, packageMaps, uploads, revisions, releases, data, now>>
  PROVE  Statement \/ LosesResourceRevisions
<1>1. /\ p \in DOMAIN packagesByID /\ d \notin Defined /\ resourceRevisions[d] = <<>>
      /\ resourceDefs' = [resourceDefs EXCEPT ![p] = Put(@, r, d)] /\ UNCHANGED resourceRevisions
  BY DEF Defines
<1>2. DOMAIN resourceDefs = PackageIds /\ DOMAIN resourceDefs' = PackageIds
  BY DEF MemoryInv, DefinitionMapsOK
<1>3. /\ DOMAIN resourceDefs'[p] = DOMAIN resourceDefs[p] \cup {r} /\ resourceDefs'[p][r] = d
      /\ \A s \in DOMAIN resourceDefs[p] : s # r => resourceDefs'[p][s] = resourceDefs[p][s]
      /\ \A q \in PackageIds : q # p => resourceDefs'[q] = resourceDefs[q]
  BY <1>1, <1>2 DEF Put
<1>4. ItemsShown(p, r)' = EmptyMap
  <2>1. ItemsOf(<<>>) = EmptyMap
    BY DEF ItemsOf, EmptyMap
  <2> QED BY <1>1, <1>3, <2>1 DEF ItemsShown
<1>5. ASSUME NEW q \in PackageIds, NEW s \in Resources, q # p \/ s # r
      PROVE  ItemsShown(q, s)' = ItemsShown(q, s)
  <2>1. /\ s \in DOMAIN resourceDefs'[q] <=> s \in DOMAIN resourceDefs[q]
        /\ s \in DOMAIN resourceDefs[q] => resourceDefs'[q][s] = resourceDefs[q][s]
    BY <1>3, <1>5
  <2> QED BY <1>1, <2>1 DEF ItemsShown, EmptyMap
<1>6. /\ ShownResourceRevisions[p][r] = ItemsShown(p, r)
      /\ ShownResourceRevisions' = [ShownResourceRevisions EXCEPT ![p][r] = EmptyMap]
  BY <1>4, <1>5, OneResourceShows
<1>7. ShownDefinitions' = [ShownDefinitions EXCEPT ![p] = @ \cup {r}]
  BY <1>2, <1>3 DEF ShownDefinitions, ListResourceDefinitions
<1>8. CASE DOMAIN ShownResourceRevisions[p][r] = {}
  <2>1. ShownResourceRevisions[p][r] = EmptyMap
    BY <1>6, <1>8 DEF ItemsShown, ItemsOf, EmptyMap
  <2>2. UNCHANGED ShownResourceRevisions
    <3>1. ShownResourceRevisions = [q \in PackageIds |-> [s \in Resources |-> ItemsShown(q, s)]]
      BY ShownItemsAre DEF MemoryInv, ShownItems
    <3> QED BY <1>6, <2>1, <3>1
  <2>3. resourceDefs' # resourceDefs
    BY <1>1, <1>3 DEF Defined
  <2>4. p \in DOMAIN ShownPackages
    BY <1>1, ShownPackagesAre
  <2>5. T!UpsertDefinitionRow(p, r)
    BY <1>7, <2>4, ResourceCallsKeepTheRest
    DEF T!UpsertDefinitionRow, T!Live, ShownTracks, ShownReleases, ShownDefinitions, ShownUploads
  <2> QED BY <2>2, <2>3, <2>5 DEF Statement
<1>9. CASE DOMAIN ShownResourceRevisions[p][r] # {}
  <2>1. r \in DOMAIN resourceDefs[p]
    BY <1>6, <1>9 DEF ItemsShown, EmptyMap
  <2>2. UNCHANGED ShownDefinitions
    BY <1>7, <2>1 DEF ShownDefinitions, ListResourceDefinitions
  <2>3. UNCHANGED T!tables
    BY <2>2, ResourceCallsKeepTheRest
  <2> QED BY <1>6, <1>9, <2>3 DEF LosesResourceRevisions
<1> QED BY <1>8, <1>9

\* Two resources never have one definition id: a change of its rows shows once.
LEMMA OneListShows ==
  ASSUME MemoryInv, MemoryInv', NEW p \in PackageIds, NEW r \in Resources,
         NEW d \in DefinitionIds, r \in DOMAIN resourceDefs[p], d = resourceDefs[p][r],
         NEW list2, resourceRevisions'[d] = list2,
         \A e \in DefinitionIds : e # d => resourceRevisions'[e] = resourceRevisions[e],
         UNCHANGED resourceDefs
  PROVE  /\ ShownResourceRevisions[p][r] = ItemsOf(resourceRevisions[d])
         /\ ShownResourceRevisions' = [ShownResourceRevisions EXCEPT ![p][r] = ItemsOf(list2)]
         /\ UNCHANGED ShownDefinitions
<1>3. ItemsShown(p, r)' = ItemsOf(list2)
  BY DEF ItemsShown, ItemsOf, ItemOf
<1>4. ASSUME NEW q \in PackageIds, NEW s \in Resources, q # p \/ s # r
      PROVE  ItemsShown(q, s)' = ItemsShown(q, s)
  <2>1. CASE s \in DOMAIN resourceDefs[q]
    <3>1. resourceDefs[q][s] \in DefinitionIds /\ resourceDefs[q][s] # d
      BY <1>4, <2>1 DEF MemoryInv, DefinitionMapsOK
    <3> QED BY <2>1, <3>1 DEF ItemsShown, ItemsOf, ItemOf
  <2>2. CASE s \notin DOMAIN resourceDefs[q]
    BY <2>2 DEF ItemsShown, EmptyMap
  <2> QED BY <2>1, <2>2
<1>5. /\ ShownResourceRevisions[p][r] = ItemsShown(p, r)
      /\ ShownResourceRevisions' = [ShownResourceRevisions EXCEPT ![p][r] = ItemsOf(list2)]
  BY <1>3, <1>4, OneResourceShows
<1> QED BY <1>5, ShownStays DEF ItemsShown

LEMMA ItemOfType ==
  ASSUME NEW item \in ResourceRevision
  PROVE  ItemOf(item) \in Items
  BY DEF ResourceRevision, ItemOf, Items

\* PushResource: the first two pushes insert a row, the others do not show.
LEMMA PushesItemIsAStep ==
  ASSUME MemoryInv, MemoryInv', NEW p \in PackageIds, NEW r \in Resources,
         NEW d \in DefinitionIds, NEW item, PushesItem(p, r, d, item),
         UNCHANGED <<accountMaps, packageMaps, uploads, revisions, releases, data, now>>
  PROVE  Statement \/ RepeatsResourceNumber
<1>1. PICK list : list = resourceRevisions[d]
  OBVIOUS
<1>2. /\ r \in DOMAIN resourceDefs[p] /\ d = resourceDefs[p][r]
      /\ item \in ResourceRevision /\ item.revision = NumberAt(Len(list) + 1)
      /\ resourceRevisions' = [resourceRevisions EXCEPT ![d] = Append(list, item)]
      /\ UNCHANGED resourceDefs
  BY <1>1 DEF PushesItem
<1>3. /\ list \in Seq(ResourceRevision) /\ Append(list, item) \in Seq(ResourceRevision)
      /\ Len(Append(list, item)) = Len(list) + 1
      /\ \A i \in 1..Len(list) : Append(list, item)[i] = list[i]
      /\ Append(list, item)[Len(list) + 1] = item
  BY <1>1, PushedList
<1>4. /\ ShownResourceRevisions[p][r] = ItemsOf(list)
      /\ ShownResourceRevisions'
           = [ShownResourceRevisions EXCEPT ![p][r] = ItemsOf(Append(list, item))]
      /\ UNCHANGED ShownDefinitions
  <2>1. PICK list2 : list2 = Append(list, item)
    OBVIOUS
  <2>2. /\ resourceRevisions'[d] = list2
        /\ \A e \in DefinitionIds : e # d => resourceRevisions'[e] = resourceRevisions[e]
    BY <1>2, <2>1 DEF MemoryInv, ItemListsOK
  <2>3. /\ ShownResourceRevisions[p][r] = ItemsOf(resourceRevisions[d])
        /\ ShownResourceRevisions' = [ShownResourceRevisions EXCEPT ![p][r] = ItemsOf(list2)]
        /\ UNCHANGED ShownDefinitions
    BY SMTT(30), ZenonT(60), <1>2, <2>2, OneListShows
  <2> QED BY <1>1, <2>1, <2>3
<1>5. UNCHANGED T!tables
  BY <1>4, ResourceCallsKeepTheRest
<1>6. resourceRevisions'[d] = Append(list, item) /\ Len(list) \in Nat
  BY <1>2, <1>3 DEF MemoryInv, ItemListsOK
<1>7. CASE Len(list) < 2
  <2>1. PICK n : n = Len(list) + 1
    OBVIOUS
  <2>2. n \in {1, 2} /\ n \in 1..MaxRevision
    BY <1>6, <1>7, <2>1, NumbersAssumption
  <2>3. PICK list2 : list2 = Append(list, item)
    OBVIOUS
  <2>4. ItemsOf(list2) = T!WithRow(ItemsOf(list), n, ItemOf(item))
    BY <1>3, <1>6, <1>7, <2>1, <2>2, <2>3 DEF ItemsOf, T!WithRow
  <2>5. n \notin DOMAIN ItemsOf(list)
    BY <1>6, <2>1 DEF ItemsOf
  <2>6. r \in ShownDefinitions[p]
    BY <1>2 DEF ShownDefinitions, ListResourceDefinitions
  <2>7. ShownResourceRevisions'
          = [ShownResourceRevisions EXCEPT ![p][r] = T!WithRow(@, n, ItemOf(item))]
    BY <1>4, <2>3, <2>4
  <2>8. T!InsertResourceRow(p, r, n, ItemOf(item))
    BY <1>4, <2>2, <2>5, <2>6, <2>7
    DEF T!InsertResourceRow, T!RevisionNumber, ShownDefinitions
  <2>9. resourceRevisions' # resourceRevisions
    BY <1>1, <1>3, <1>6
  <2> QED BY <1>2, <1>5, <2>2, <2>8, <2>9, ItemOfType DEF Statement
<1>8. CASE Len(list) >= 2
  <2>1. PICK list2 : list2 = Append(list, item)
    OBVIOUS
  <2>2. ItemsOf(list2) = ItemsOf(list)
    BY <1>3, <1>6, <1>8, <2>1 DEF ItemsOf
  <2>3. UNCHANGED ShownResourceRevisions
    <3>1. ShownResourceRevisions = [q \in PackageIds |-> [s \in Resources |-> ItemsShown(q, s)]]
      BY ShownItemsAre DEF MemoryInv, ShownItems
    <3> QED BY <1>4, <2>1, <2>2, <3>1
  <2>4. Len(resourceRevisions[d]) > 1 /\ Len(resourceRevisions'[d]) > Len(resourceRevisions[d])
    BY <1>1, <1>3, <1>6, <1>8
  <2> QED BY <1>5, <2>3, <2>4 DEF RepeatsResourceNumber
<1> QED BY <1>6, <1>7, <1>8

\* UpdateResourceRevision: of what is shown, the platforms change.
LEMMA UpdatesItemIsAStep ==
  ASSUME MemoryInv, MemoryInv', NEW p \in PackageIds, NEW r \in Resources,
         NEW d \in DefinitionIds, NEW n, NEW item, UpdatesItem(p, r, d, n, item),
         UNCHANGED <<accountMaps, packageMaps, uploads, revisions, releases, data, now>>
  PROVE  Quiet \/ Statement
<1>1. PICK list : list = resourceRevisions[d]
  OBVIOUS
<1>2. /\ r \in DOMAIN resourceDefs[p] /\ d = resourceDefs[p][r] /\ n \in {1, 2}
      /\ item \in ResourceRevision
      /\ item.upload = list[n].upload /\ item.digest = list[n].digest
      /\ resourceRevisions' = [resourceRevisions EXCEPT ![d] = [list EXCEPT ![n] = item]]
      /\ UNCHANGED resourceDefs
  BY <1>1 DEF UpdatesItem
<1>3. PICK list2 : list2 = [list EXCEPT ![n] = item]
  OBVIOUS
<1>4. /\ list \in Seq(ResourceRevision) /\ Len(list2) = Len(list) /\ n \in 1..Len(list)
      /\ list2[n] = item /\ \A i \in 1..Len(list) : i # n => list2[i] = list[i]
  BY <1>1, <1>3, UpdatedList
<1>5. /\ ShownResourceRevisions[p][r] = ItemsOf(list)
      /\ ShownResourceRevisions' = [ShownResourceRevisions EXCEPT ![p][r] = ItemsOf(list2)]
      /\ UNCHANGED ShownDefinitions
  <2>1. /\ resourceRevisions'[d] = list2
        /\ \A e \in DefinitionIds : e # d => resourceRevisions'[e] = resourceRevisions[e]
    BY <1>2, <1>3 DEF MemoryInv, ItemListsOK
  <2>2. /\ ShownResourceRevisions[p][r] = ItemsOf(resourceRevisions[d])
        /\ ShownResourceRevisions' = [ShownResourceRevisions EXCEPT ![p][r] = ItemsOf(list2)]
        /\ UNCHANGED ShownDefinitions
    BY <1>2, <2>1, OneListShows
  <2> QED BY <1>1, <2>2
<1>6. UNCHANGED T!tables
  BY <1>5, ResourceCallsKeepTheRest
<1>7. CASE resourceRevisions' = resourceRevisions
  BY <1>2, <1>7 DEF Quiet, resourceMaps
<1>8. CASE resourceRevisions' # resourceRevisions
  <2>1. PICK row : row = ItemOf(item)
    OBVIOUS
  <2>2. PICK rows : rows = ItemsOf(list)
    OBVIOUS
  <2>3. n \in DOMAIN rows /\ rows[n] = ItemOf(list[n])
    BY <1>2, <1>4, <2>2 DEF ItemsOf
  <2>4. row = [[rows[n] EXCEPT !.platforms = row.platforms] EXCEPT !.image = row.image]
    <3>1. list[n] \in ResourceRevision
      BY <1>4
    <3>2. rows[n] \in Items /\ row \in Items
      BY <1>2, <2>1, <2>3, <3>1, ItemOfType
    <3>3. rows[n].upload = row.upload /\ rows[n].digest = row.digest
      BY <1>2, <2>1, <2>3 DEF ItemOf
    <3> QED BY <3>2, <3>3 DEF Items
  <2>5. ItemsOf(list2) = [rows EXCEPT ![n] = row]
    BY SMTT(30), ZenonT(60), <1>2, <1>4, <2>1, <2>2, <2>3 DEF ItemsOf
  <2>6. ItemsOf(list2) = [rows EXCEPT ![n].platforms = row.platforms, ![n].image = row.image]
    BY <2>2, <2>3, <2>4, <2>5 DEF ItemsOf
  <2>7. ShownResourceRevisions = [q \in PackageIds |-> [s \in Resources |-> ItemsShown(q, s)]]
    BY ShownItemsAre DEF MemoryInv, ShownItems
  <2>8. [ShownResourceRevisions EXCEPT ![p][r][n].platforms = row.platforms,
                                       ![p][r][n].image = row.image]
          = [ShownResourceRevisions EXCEPT ![p][r] =
               [rows EXCEPT ![n].platforms = row.platforms, ![n].image = row.image]]
    <3>1. PICK shown : shown = ShownResourceRevisions
      OBVIOUS
    <3>2. PICK one : one = [rows EXCEPT ![n].platforms = row.platforms]
      OBVIOUS
    <3>3. PICK next : next = [shown EXCEPT ![p][r] = one]
      OBVIOUS
    <3>4. [shown EXCEPT ![p][r][n].platforms = row.platforms] = next
      BY <1>5, <2>2, <3>1, <3>2, <3>3
    <3>5. next[p][r] = one
      BY <2>7, <3>1, <3>3
    <3>6. [next EXCEPT ![p][r][n].image = row.image]
            = [shown EXCEPT ![p][r] = [one EXCEPT ![n].image = row.image]]
      BY <2>7, <3>1, <3>3, <3>5
    <3> QED BY <3>1, <3>2, <3>4, <3>6
  <2>9. T!UpdateResourceRow(p, r, n, row)
    BY <1>5, <2>2, <2>3, <2>6, <2>8 DEF T!UpdateResourceRow
  <2>10. n \in 1..MaxRevision /\ row \in Items
    BY <1>2, <2>1, ItemOfType, NumbersAssumption
  <2> QED BY <1>6, <1>8, <2>9, <2>10 DEF Statement
<1> QED BY <1>7, <1>8

LEMMA ResourcesAreSteps ==
  ASSUME MemoryInv, MemoryInv', ResourceCall
  PROVE  PostgresStep
<1>1. PICK p \in PackageIds, r \in Resources, d \in DefinitionIds :
        \/ Defines(p, r, d)
        \/ \E item : PushesItem(p, r, d, item)
        \/ \E n, item : UpdatesItem(p, r, d, n, item)
  BY ResourceCallIs
<1>2. UNCHANGED <<accountMaps, packageMaps, uploads, revisions, releases, data, now>>
  BY ResourceCallIs
<1>3. CASE Defines(p, r, d)
  BY <1>2, <1>3, DefinesIsAStep DEF PostgresStep
<1>4. CASE \E item : PushesItem(p, r, d, item)
  BY <1>2, <1>4, PushesItemIsAStep DEF PostgresStep
<1>5. CASE \E n, item : UpdatesItem(p, r, d, n, item)
  BY <1>2, <1>5, UpdatesItemIsAStep DEF PostgresStep
<1> QED BY <1>1, <1>3, <1>4, <1>5

LEMMA PackagesAreSteps ==
  ASSUME MemoryInv, PackageCall
  PROVE  PostgresStep
<1>1. UNCHANGED <<accountMaps, uploads, revisions, resourceMaps, releases, data, now>>
  BY PackageCallIs
<1>2. CASE \E p \in PackageIds : \E pkg : Creates(p, pkg)
  BY <1>2, CreatesRegisters DEF PostgresStep
<1>3. CASE \E p \in PackageIds : \E pkg : Updates(p, pkg) /\ pkg.tracks = packagesByID[p].tracks
  BY <1>1, <1>3, UpdatesAreStatements DEF PostgresStep
<1>4. CASE \E p \in PackageIds : \E t \in Tracks :
             Updates(p, [packagesByID[p] EXCEPT !.tracks = @ \cup {t}])
  BY <1>1, <1>4, UpdatesAreStatements DEF PostgresStep
<1>5. CASE \E p \in PackageIds : Deletes(p)
  BY <1>1, <1>5, DeletesAreStatements DEF PostgresStep
<1> QED BY <1>2, <1>3, <1>4, <1>5, PackageCallIs

\* Every call on this store is one statement of Postgres on the tables it shows, or one
\* of the three differences: no foreign key, UNIQUE or cascade is ever missed.
THEOREM CallsRunLikePostgres == MemorySpec => RunsLikePostgres
<1>1. MemoryInv /\ MemoryInv' /\ [MemoryNext]_memoryVars => PostgresStep
  <2> SUFFICES ASSUME MemoryInv, MemoryInv', [MemoryNext]_memoryVars PROVE PostgresStep
    OBVIOUS
  <2>1. CASE AccountCall \/ Tick \/ UNCHANGED memoryVars
    BY <2>1 DEF AccountCall, Tick, memoryVars, PostgresStep, Quiet
  <2>2. CASE PackageCall
    BY <2>2, PackagesAreSteps
  <2>3. CASE UploadCall
    BY <2>3, UploadsAreStatements DEF PostgresStep
  <2>4. CASE RevisionCall
    BY <2>4, RevisionsAreStatements DEF PostgresStep
  <2>5. CASE ResourceCall
    BY <2>5, ResourcesAreSteps
  <2> QED BY <2>1, <2>2, <2>3, <2>4, <2>5 DEF MemoryNext
<1>2. MemoryInv /\ MemoryInv' /\ [MemoryNext]_memoryVars
        => [PostgresStep]_memoryVars
  BY <1>1
<1> QED BY <1>2, MemoryInvariance, PTL DEF MemorySpec, RunsLikePostgres, PostgresStep, Quiet

=============================================================================
