--------------------------- MODULE DownloadsProofs ---------------------------
(***************************************************************************)
(* Proofs about Consumer and Downloads, for every value of the constants.  *)
(* Readers and clients write nothing, and publishers are nothing but their *)
(* statements, so there are two halves that meet in Lasts: what no         *)
(* statement takes from a package that lives (the first half), and what a  *)
(* reader has gathered, which survives whatever Lasts (the second half).   *)
(* The statements are those of ResourcesProofs and PublishingProofs, and   *)
(* so are the lemmas about them.  The second half does not ask who writes: *)
(* RegistryProofs uses it with the handlers of those modules.              *)
(***************************************************************************)
EXTENDS Downloads, ResourcesProofs, SequenceTheorems

-----------------------------------------------------------------------------
(* The tables. *)

ColumnsOK ==
  /\ DOMAIN refs = PackageIds /\ DOMAIN defaults = PackageIds
  /\ \A p \in PackageIds :
       /\ refs[p] \in [DOMAIN releases[p] -> References]
       /\ defaults[p] \in Tracks \cup {None}

ConsumerTablesOK == TablesOK /\ ResourceTablesOK /\ ColumnsOK

\* A revision that was read stays what it was, unless its package goes.
RevisionsStay ==
  \A p \in minted \cap DOMAIN packages' : \A n \in DOMAIN revisions[p] :
    n \in DOMAIN revisions'[p] /\ revisions'[p][n] = revisions[p][n]

Lasts == Keeps /\ RevisionsStay

\* A release without resources
LEMMA NoReferences ==
  /\ NoRows \in References /\ DOMAIN NoRows = {}
  /\ \A f \in References : DOMAIN f \subseteq Resources
                           /\ \A r \in DOMAIN f : f[r] \in RevisionNumber \cup {None}
<1>1. NoRows \in [{} -> RevisionNumber \cup {None}] /\ {} \in SUBSET Resources
  BY DEF NoRows
<1> QED BY <1>1 DEF References, NoRows

\* A statement that leaves packages, revisions and releases there leaves the columns.
LEMMA ColumnsStay ==
  ASSUME ColumnsOK, UNCHANGED <<releases, refs, defaults>>
  PROVE  ColumnsOK'
BY DEF ColumnsOK

\* The resource revisions stay in order when nothing is deleted.
LEMMA ResourcesStay ==
  ASSUME TablesOK, ResourceTablesOK, TablesGrow, DOMAIN packages \subseteq DOMAIN packages',
         UNCHANGED resourceRevisions
  PROVE  ResourceTablesOK' /\ Keeps
<1>1. ResourceRowsOK' /\ ResourceRevisionsContiguous'
  BY DEF ResourceTablesOK, ResourceRowsOK, ResourceRevisionsContiguous
<1>2. ASSUME NEW p \in PackageIds, NEW r \in Resources, r \notin definitions'[p]
      PROVE  DOMAIN resourceRevisions'[p][r] = {}
  <2>1. r \notin definitions[p]
    <3>1. CASE p \in DOMAIN packages'
      BY <1>2, <3>1 DEF TablesGrow
    <3>2. CASE p \notin DOMAIN packages'
      BY <3>2 DEF TablesOK, NoOrphanRows
    <3> QED BY <3>1, <3>2
  <2> QED BY <2>1 DEF ResourceTablesOK, NoOrphanResources
<1>3. ResourcesServeTheirHash'
  <2> SUFFICES ASSUME NEW p \in PackageIds, NEW r \in Resources,
                      NEW n \in DOMAIN resourceRevisions[p][r],
                      NEW row, row = resourceRevisions[p][r][n]
               PROVE  /\ row.oci \/ ObjectKey(row.upload) \in DOMAIN blobs'
                      /\ Own(row.upload) =>
                           (IF row.oci THEN row.image ELSE blobs'[row.upload]) = row.digest
    BY DEF ResourcesServeTheirHash, ServedContent, ObjectKey, Own
  <2>1. row.upload \in Uploads
    BY DEF ResourceTablesOK, ResourceRowsOK, IsTable, ResourceRow
  <2>2. /\ row.oci \/ ObjectKey(row.upload) \in DOMAIN blobs
        /\ Own(row.upload) => (IF row.oci THEN row.image ELSE blobs[row.upload]) = row.digest
    BY DEF ResourcesServeTheirHash, ResourceTablesOK, ServedContent, ObjectKey, Own
  <2> QED BY <2>1, <2>2, KeyOfAnUpload DEF TablesGrow
<1>4. ContentStays
  BY DEF ContentStays, SameContent
<1> QED BY <1>1, <1>2, <1>3, <1>4 DEF ResourceTablesOK, NoOrphanResources, Keeps

\* What a publisher computed from the object of an upload is its hash, if it is its own.
LEMMA DigestsOfAnUpload ==
  ASSUME TablesOK, NEW u \in Uploads, NEW digest \in Digests(u)
  PROVE  /\ ObjectKey(u) \in DOMAIN blobs /\ digest \in Payloads
         /\ Own(u) => blobs[u] = digest
<1>1. \A k \in DOMAIN blobs : blobs[k] \in Payloads
  BY DEF TablesOK, UploadsTypeOK, IsTable
<1>2. ObjectKey(u) \in DOMAIN blobs
  BY DEF Digests
<1>3. CASE Own(u)
  BY <1>1, <1>2, <1>3, KeyOfAnUpload DEF Digests
<1>4. CASE ~Own(u)
  BY <1>2, <1>4 DEF Digests
<1> QED BY <1>2, <1>3, <1>4

\* Statements that insert a row or set metadata
LEMMA PublishRowKeeps ==
  ASSUME ConsumerTablesOK, PublishRow
  PROVE  ConsumerTablesOK' /\ Lasts
<1> USE DEF ConsumerTablesOK
<1>1. ASSUME TablesOK', TablesGrow, RevisionsStay, DOMAIN packages \subseteq DOMAIN packages',
             UNCHANGED releases
      PROVE  ConsumerTablesOK' /\ Lasts
  BY <1>1, ResourcesStay, ColumnsStay DEF PublishRow, Lasts
<1>2. minted \subseteq PackageIds /\ DOMAIN packages \subseteq PackageIds
      /\ DOMAIN packages \subseteq minted /\ DOMAIN revisions = PackageIds
  BY DEF TablesOK, PackagesTypeOK, RevisionsTypeOK, IsTable
<1>3. ASSUME NEW p \in PackageIds, NEW n \in Names, NEW private \in BOOLEAN,
             InsertPackage(p, [name |-> n, private |-> private, status |-> "registered"])
      PROVE  ConsumerTablesOK' /\ Lasts
  <2>1. PICK row \in PackageRow : InsertPackage(p, row)
    BY <1>3 DEF PackageRow
  <2>2. TablesOK' /\ TablesGrow
    BY <2>1, InsertPackageKeepsTables, StatementGrows DEF Statement
  <2>3. /\ RevisionsStay /\ DOMAIN packages \subseteq DOMAIN packages'
        /\ UNCHANGED <<releases, blobs>>
    BY <2>1 DEF InsertPackage, WithRow, RevisionsStay
  <2> QED BY <1>1, <2>2, <2>3
<1>4. ASSUME NEW p \in DOMAIN packages, NEW private \in BOOLEAN,
             UpdatePackageRow(p, [packages[p] EXCEPT !.private = private])
      PROVE  ConsumerTablesOK' /\ Lasts
  <2>1. PICK row \in PackageRow : UpdatePackageRow(p, row)
    BY <1>4 DEF PackageRow, TablesOK, PackagesTypeOK, IsTable
  <2>2. TablesOK' /\ TablesGrow
    BY <1>2, <2>1, UpdatePackageRowKeepsTables, StatementGrows DEF Statement, InvisibleStatement
  <2>3. /\ RevisionsStay /\ DOMAIN packages \subseteq DOMAIN packages'
        /\ UNCHANGED <<releases, blobs>>
    BY <2>1 DEF UpdatePackageRow, RevisionsStay
  <2> QED BY <1>1, <2>2, <2>3
<1>5. ASSUME NEW u \in Uploads, NEW payload \in Payloads, NewUpload(u), PutObject(u, payload)
      PROVE  ConsumerTablesOK' /\ Lasts
  <2>1. TablesOK' /\ TablesGrow
    BY <1>5, PutObjectKeepsTables, StatementGrows DEF Statement, InvisibleStatement
  <2>2. /\ RevisionsStay /\ DOMAIN packages \subseteq DOMAIN packages' /\ UNCHANGED releases
    BY <1>5 DEF PutObject, WithRow, RevisionsStay
  <2> QED BY <1>1, <2>1, <2>2
<1>6. ASSUME NEW p \in DOMAIN packages, NEW u \in Uploads, NEW digest \in Digests(u),
             Own(u) => digest \in Charms,
             InsertRevisionRow(p, NextRevision(p), [upload |-> u, digest |-> digest])
      PROVE  ConsumerTablesOK' /\ Lasts
  <2>1. PICK m \in 0..MaxRevision : DOMAIN revisions[p] = 1..m
    BY <1>2 DEF TablesOK, RevisionsContiguous
  <2>2. /\ NextRevision(p) \in Nat \ {0}
        /\ 1..(NextRevision(p) - 1) \subseteq DOMAIN revisions[p]
    BY <2>1, NextRevisionOf, MaxRevisionAssumption
  <2>0. /\ ObjectKey(u) \in DOMAIN blobs /\ digest \in Payloads
        /\ Own(u) => blobs[u] = digest /\ digest \in Charms
    BY <1>6, DigestsOfAnUpload
  <2>3. TablesOK'
    BY <1>2, <1>6, <2>0, <2>2, InsertRevisionRowKeepsTables
  <2>4. TablesGrow
    BY <1>2, <1>6 DEF InsertRevisionRow, TablesGrow
  <2>5. /\ RevisionsStay /\ DOMAIN packages \subseteq DOMAIN packages'
        /\ UNCHANGED <<releases, blobs>>
    BY <1>2, <1>6 DEF InsertRevisionRow, WithRow, RevisionsStay
  <2> QED BY <1>1, <2>3, <2>4, <2>5
<1>7. ASSUME NEW p \in DOMAIN packages, NEW r \in Resources, UpsertDefinitionRow(p, r)
      PROVE  ConsumerTablesOK' /\ Lasts
  <2>1. TablesOK' /\ TablesGrow
    BY <1>2, <1>7, UpsertDefinitionRowKeepsTables, StatementGrows DEF Statement, InvisibleStatement
  <2>2. /\ RevisionsStay /\ DOMAIN packages \subseteq DOMAIN packages'
        /\ UNCHANGED <<releases, blobs>>
    BY <1>7 DEF UpsertDefinitionRow, RevisionsStay
  <2> QED BY <1>1, <2>1, <2>2
<1> QED BY <1>3, <1>4, <1>5, <1>6, <1>7 DEF PublishRow

\* PushResource: the row names an object or has an image, and the digest of it.
LEMMA PublishResourceKeeps ==
  ASSUME ConsumerTablesOK, PublishResource
  PROVE  ConsumerTablesOK' /\ Lasts
<1> DEFINE Row(u, oci, digest, payload, platforms) ==
      [upload |-> u, oci |-> oci, image |-> IF oci THEN payload ELSE None,
       digest |-> digest, platforms |-> platforms]
<1>0. PICK p \in DOMAIN packages, r \in Resources, u \in Uploads, platforms \in Platforms,
           oci \in BOOLEAN :
        \E digest \in Digests(u), payload \in Digests(u) :
          InsertResourceRow(p, r, NextResourceRevision(p, r),
                            Row(u, oci, digest, payload, platforms))
  BY DEF PublishResource
<1>1. PICK digest \in Digests(u), payload \in Digests(u) :
        InsertResourceRow(p, r, NextResourceRevision(p, r),
                          Row(u, oci, digest, payload, platforms))
  BY <1>0
<1>2. /\ TablesOK /\ ResourceTablesOK /\ ColumnsOK /\ UNCHANGED <<tables, refs, defaults>>
      /\ p \in PackageIds
  BY DEF ConsumerTablesOK, PublishResource, TablesOK, PackagesTypeOK, IsTable
<1>3. PICK row \in ResourceRow :
        /\ InsertResourceRow(p, r, NextResourceRevision(p, r), row)
        /\ row.oci \/ ObjectKey(row.upload) \in DOMAIN blobs
        /\ Own(row.upload) => ServedContent(row) = row.digest
  <2> DEFINE row == Row(u, oci, digest, payload, platforms)
  <2>1. /\ ObjectKey(u) \in DOMAIN blobs /\ {digest, payload} \subseteq Payloads
        /\ Own(u) => blobs[u] = digest /\ payload = digest
    BY <1>2, DigestsOfAnUpload
  <2>2. row \in ResourceRow
    BY <2>1 DEF ResourceRow
  <2>3. Own(u) => ServedContent(row) = digest
    BY <2>1, KeyOfAnUpload DEF ServedContent
  <2> QED BY <1>1, <2>1, <2>2, <2>3
<1>4. PICK m \in 0..MaxRevision : DOMAIN resourceRevisions[p][r] = 1..m
  BY <1>2 DEF ResourceTablesOK, ResourceRevisionsContiguous
<1>5. /\ NextResourceRevision(p, r) \in Nat
      /\ 1..(NextResourceRevision(p, r) - 1) \subseteq DOMAIN resourceRevisions[p][r]
  BY <1>4, NextResourceRevisionOf, MaxRevisionAssumption
<1>6. ResourceTablesOK' /\ Keeps
  BY <1>2, <1>3, <1>5, InsertResourceRowKeepsTables
<1>7. TablesOK' /\ ColumnsOK' /\ RevisionsStay
  BY <1>2, ReadsKeepTables, ColumnsStay DEF tables, RevisionsStay
<1> QED BY <1>2, <1>6, <1>7 DEF ConsumerTablesOK, Lasts, tables

\* ReplaceRelease of a revision that is there, and default_track
LEMMA PublishReleaseKeeps ==
  ASSUME ConsumerTablesOK, PublishRelease \/ SetDefaultTrack
  PROVE  ConsumerTablesOK' /\ Lasts
<1>1. TablesOK /\ ResourceTablesOK /\ ColumnsOK
      /\ DOMAIN packages \subseteq PackageIds /\ DOMAIN releases = PackageIds
  BY DEF ConsumerTablesOK, TablesOK, PackagesTypeOK, RevisionsTypeOK, IsTable
<1>2. CASE PublishRelease
  <2>1. PICK p \in DOMAIN packages, c \in Channels, f \in References :
          \E n \in DOMAIN revisions[p] :
            UpsertReleaseRow(p, c, n) /\ refs' = [refs EXCEPT ![p] = WithRow(@, c, f)]
    BY <1>2 DEF PublishRelease
  <2>2. PICK n \in DOMAIN revisions[p] : UpsertReleaseRow(p, c, n)
    BY <2>1
  <2>3. TablesOK' /\ TablesGrow
    BY <1>1, <2>2, UpsertReleaseRowKeepsTables, StatementGrows DEF Statement
  <2>4. UNCHANGED <<packages, revisions, blobs, resourceRevisions, defaults>>
    BY <1>2, <2>2 DEF PublishRelease, UpsertReleaseRow
  <2>5. ColumnsOK'
    BY <1>1, <2>1, <2>2, <2>4 DEF ColumnsOK, UpsertReleaseRow, WithRow
  <2>6. ResourceTablesOK' /\ Keeps
    BY <1>1, <2>3, <2>4, ResourcesStay
  <2> QED BY <2>3, <2>4, <2>5, <2>6 DEF ConsumerTablesOK, Lasts, RevisionsStay
<1>3. CASE SetDefaultTrack
  <2>1. UNCHANGED <<tables, packages, revisions, releases, blobs, resourceRevisions, refs>>
    BY <1>3 DEF SetDefaultTrack, tables
  <2>2. TablesOK' /\ TablesGrow
    BY <1>1, <2>1, ReadsKeepTables, StatementGrows
  <2>3. ColumnsOK'
    BY <1>1, <1>3, <2>1 DEF ColumnsOK, SetDefaultTrack
  <2>4. ResourceTablesOK' /\ Keeps
    BY <1>1, <2>1, <2>2, ResourcesStay
  <2> QED BY <2>1, <2>2, <2>3, <2>4 DEF ConsumerTablesOK, Lasts, RevisionsStay
<1> QED BY <1>2, <1>3

\* UnregisterPackage: the cascade reaches every table.
LEMMA UnpublishKeeps ==
  ASSUME ConsumerTablesOK, Unpublish
  PROVE  ConsumerTablesOK' /\ Lasts
<1>1. PICK p \in DOMAIN packages :
        /\ DeletePackageRow(p)
        /\ refs' = [refs EXCEPT ![p] = NoRows] /\ defaults' = [defaults EXCEPT ![p] = None]
  BY DEF Unpublish
<1>2. TablesOK /\ ResourceTablesOK /\ ColumnsOK /\ CascadeToResources
      /\ p \in PackageIds /\ DOMAIN releases = PackageIds /\ minted \subseteq PackageIds
      /\ DOMAIN revisions = PackageIds
  BY DEF ConsumerTablesOK, Unpublish, TablesOK, PackagesTypeOK, RevisionsTypeOK, IsTable
<1>3. TablesOK' /\ TablesGrow
  BY <1>1, <1>2, DeletePackageRowKeepsTables, StatementGrows DEF Statement
<1>4. ResourceTablesOK' /\ Keeps
  BY <1>2, <1>3, CascadeKeepsResources
<1>5. ColumnsOK'
  <2>1. NoRows \in [DOMAIN NoRows -> References]
    BY DEF NoRows
  <2> QED BY <1>1, <1>2, <2>1 DEF ColumnsOK, DeletePackageRow
<1>6. RevisionsStay /\ UNCHANGED blobs
  BY <1>1, <1>2 DEF RevisionsStay, DeletePackageRow
<1> QED BY <1>3, <1>4, <1>5, <1>6 DEF ConsumerTablesOK, Lasts

\* Readers and clients write nothing.
LEMMA ReadersKeep ==
  ASSUME ConsumerTablesOK, UNCHANGED consumerTables
  PROVE  ConsumerTablesOK'
<1>1. TablesOK /\ ResourceTablesOK /\ ColumnsOK
      /\ UNCHANGED <<tables, packages, releases, blobs, resourceRevisions, refs, defaults>>
  BY DEF ConsumerTablesOK, consumerTables, tables
<1>2. TablesOK' /\ TablesGrow
  BY <1>1, ReadsKeepTables, StatementGrows
<1>3. ColumnsOK' /\ ResourceTablesOK'
  BY <1>1, <1>2, ColumnsStay, ResourcesStay
<1> QED BY <1>1, <1>2, <1>3 DEF ConsumerTablesOK

LEMMA PublisherKeeps ==
  ASSUME ConsumerTablesOK, Publisher
  PROVE  ConsumerTablesOK' /\ Lasts
BY PublishRowKeeps, PublishResourceKeeps, PublishReleaseKeeps, UnpublishKeeps DEF Publisher

-----------------------------------------------------------------------------
(* What a reader has gathered. *)

Hash == Payloads \cup {None}
Hashes == UNION {[N -> Hash] : N \in SUBSET Resources}
ReleaseTables == UNION {[S -> RevisionNumber] : S \in SUBSET Channels}
Outcomes == {"none", "200", "404", "unavailable"}

EntityRow == [id        : PackageIds \cup {None},
              revision  : 0..MaxRevision,
              hash      : Hash,
              resources : References,
              hashes    : Hashes]

ReadRow ==
  [step       : ReaderSteps,
   op         : {"refresh", "find", "info", "none"},
   actions    : 0..MaxActions,
   left       : 0..MaxActions,
   found      : SUBSET (PackageIds \X BOOLEAN),
   id         : PackageIds \cup {None},
   private    : BOOLEAN,
   asked      : Channels \cup {None},
   wanted     : 0..MaxRevision,
   overrides  : References,
   revision   : 0..MaxRevision,
   hash       : Hash,
   bundle     : References,
   todo       : SUBSET Resources,
   resource   : Resources \cup {None},
   overriding : BOOLEAN,
   resources  : References,
   hashes     : Hashes,
   others     : ReleaseTables,
   results    : Seq(EntityRow),
   outcome    : Outcomes]

\* The revision n of p is there as announced, unless p has been unregistered.
CharmIsThere(p, n, hash) ==
  Live(p) => n \in DOMAIN revisions[p] /\ revisions[p][n].digest = hash

\* So is a resource revision.
ResourceIsThere(p, r, n, hash) ==
  /\ r \in Resources /\ n \in RevisionNumber
  /\ Live(p) => n \in DOMAIN resourceRevisions[p][r] /\ resourceRevisions[p][r][n].digest = hash

\* What an entity names, be it complete or not.
EntityHolds(e) ==
  /\ e.id \in minted /\ e.revision \in RevisionNumber /\ CharmIsThere(e.id, e.revision, e.hash)
  /\ DOMAIN e.hashes = DOMAIN e.resources
  /\ \A r \in DOMAIN e.resources : ResourceIsThere(e.id, r, e.resources[r], e.hashes[r])

\* The calls for one package, up to its resources.
Resolving == {"CanViewPackage", "GetWantedRevision", "ResolveRelease", "ResolveDefaultRelease",
              "ResolveAnyRelease", "GetRevisionByNumber"}
Gathering == {"Resources", "GetResourceRevision"}

\* Nothing of the package has been gathered yet.
Fresh(q) ==
  /\ q.resources = NoRows /\ q.hashes = NoRows /\ q.todo = {} /\ ~q.overriding
  /\ q.step # "GetRevisionByNumber" => q.bundle = NoRows
  /\ q.op = "find" => q.overrides = NoRows

\* The names that are still to be looked up, the one at hand included.
Pending(q) == q.todo \cup (IF q.step = "GetResourceRevision" THEN {q.resource} ELSE {})

\* How far the resources of the release, and then the overrides, have been read.
GatheredSoFar(q) ==
  IF ~q.overriding
  THEN /\ Pending(q) \subseteq DOMAIN q.bundle
       /\ q.step = "GetResourceRevision" => q.bundle[q.resource] # None
       /\ DOMAIN q.resources = Named(q.bundle) \ Pending(q)
       /\ \A r \in DOMAIN q.resources : q.resources[r] = q.bundle[r]
  ELSE /\ DOMAIN q.resources = Named(q.bundle)
       /\ Pending(q) \subseteq DOMAIN q.resources \cap Named(q.overrides)
       /\ \A r \in DOMAIN q.resources :
            q.resources[r] = IF r \in Named(q.overrides) \ Pending(q) THEN q.overrides[r]
                             ELSE q.bundle[r]

\* The result of each action of a refresh, counted.
Accounted(q) ==
  CASE q.step = "Next"     -> Len(q.results) + q.left = q.actions
    [] q.step = "Answered" -> q.outcome = "200" => Len(q.results) = q.actions
    [] OTHER               -> Len(q.results) + q.left + 1 = q.actions

ReaderHolds(q) ==
  /\ q.step # "Idle" <=> q.op # "none"
  /\ q.step = "Idle" => q = Quiet
  /\ q.step # "Answered" => q.outcome = "none"
  /\ q.step = "Answered" => q.hashes = q.resources
  /\ q.left <= q.actions
  /\ q.found # {} => q.op = "find"
  /\ \A pair \in q.found : pair[1] \in minted
  /\ q.step \in Resolving \cup Gathering \cup {"ListReleases"} => q.id \in minted
  /\ q.step = "Next" /\ q.op = "info" => q.id \in minted
  /\ q.step \in Resolving \cup {"ListReleases", "Next"} => Fresh(q)
  /\ q.step = "GetRevisionByNumber" /\ Live(q.id) => q.revision \in DOMAIN revisions[q.id]
  /\ q.step \in Gathering => EntityHolds(q)
  /\ q.step = "GetResourceRevision" => q.resource \in Resources \ q.todo
  /\ q.step = "ListReleases" => q.op = "info"
  /\ q.step \in Gathering /\ q.op # "find" => GatheredSoFar(q)
  /\ \A i \in DOMAIN q.results :
       \/ q.results[i] = ErrorEntry /\ q.op # "info"
       \/ EntityHolds(q.results[i])
  /\ q.op = "info" /\ q.step \in {"ListReleases", "Next"} =>
       \A i \in DOMAIN q.results : q.results[i].id = q.id
  /\ q.op = "info" /\ q.step \notin {"ListReleases", "Next", "Answered"} => q.results = <<>>
  /\ q.op = "refresh" => Accounted(q)
  /\ q.op = "find" => q.outcome # "404"

ConsumerInv ==
  /\ ConsumerTablesOK
  /\ read \in [Readers -> ReadRow]
  /\ \A h \in Readers : ReaderHolds(read[h])

-----------------------------------------------------------------------------
(* What publishers leave of it. *)

LEMMA EntityLasts ==
  ASSUME ConsumerTablesOK, Lasts, NEW e, EntityHolds(e)
  PROVE  EntityHolds(e)'
<1>1. minted \subseteq minted' /\ minted \subseteq PackageIds
  BY DEF Lasts, Keeps, TablesGrow, ConsumerTablesOK, TablesOK, PackagesTypeOK
<1>2. Live(e.id)' => Live(e.id) /\ e.id \in minted \cap DOMAIN packages'
  BY DEF Lasts, Keeps, TablesGrow, Live, EntityHolds
<1>3. CharmIsThere(e.id, e.revision, e.hash)'
  BY <1>2 DEF EntityHolds, CharmIsThere, Lasts, RevisionsStay
<1>4. ASSUME NEW r \in DOMAIN e.resources
      PROVE  ResourceIsThere(e.id, r, e.resources[r], e.hashes[r])'
  BY <1>2 DEF EntityHolds, ResourceIsThere, Lasts, Keeps, ContentStays, SameContent
<1> QED BY <1>1, <1>3, <1>4 DEF EntityHolds

LEMMA ReaderLasts ==
  ASSUME ConsumerTablesOK, Lasts, NEW q \in ReadRow, ReaderHolds(q)
  PROVE  ReaderHolds(q)'
<1>1. minted \subseteq minted'
  BY DEF Lasts, Keeps, TablesGrow
<1>2. EntityHolds(q) => EntityHolds(q)'
  BY EntityLasts
<1>3. \A e : EntityHolds(e) => EntityHolds(e)'
  BY EntityLasts
<1>4. ASSUME q.step = "GetRevisionByNumber", Live(q.id)'
      PROVE  q.revision \in DOMAIN revisions'[q.id]
  <2>1. q.id \in minted
    BY <1>4 DEF ReaderHolds, Resolving
  <2>2. Live(q.id) /\ q.id \in minted \cap DOMAIN packages'
    BY <1>4, <2>1 DEF Lasts, Keeps, TablesGrow, Live
  <2> QED BY <1>4, <2>2 DEF ReaderHolds, Lasts, RevisionsStay
<1> QED BY <1>1, <1>2, <1>3, <1>4 DEF ReaderHolds

\* Whoever writes moves no reader.
LEMMA WriterKeepsReaders ==
  ASSUME ConsumerInv, ConsumerTablesOK', Lasts, UNCHANGED read
  PROVE  ConsumerInv'
<1>1. ASSUME NEW h \in Readers PROVE ReaderHolds(read[h])'
  <2>1. PICK q \in ReadRow : q = read[h] /\ q = read'[h] /\ ReaderHolds(q)
    BY DEF ConsumerInv
  <2>2. ReaderHolds(q)'
    BY <2>1, ReaderLasts DEF ConsumerInv
  <2> QED BY <2>1, <2>2
<1> QED BY <1>1 DEF ConsumerInv

\* What holds of an entity or of a reader is about four tables and nothing else.
LEMMA HoldsWhileTablesStay ==
  ASSUME UNCHANGED <<minted, packages, revisions, resourceRevisions>>
  PROVE  \A q : ReaderHolds(q) => ReaderHolds(q)'
<1>1. ASSUME NEW p, NEW n, NEW hash, CharmIsThere(p, n, hash) PROVE CharmIsThere(p, n, hash)'
  BY <1>1 DEF CharmIsThere, Live
<1>2. ASSUME NEW p, NEW r, NEW n, NEW hash, ResourceIsThere(p, r, n, hash)
      PROVE  ResourceIsThere(p, r, n, hash)'
  BY <1>2 DEF ResourceIsThere, Live
<1>3. ASSUME NEW e, EntityHolds(e) PROVE EntityHolds(e)'
  <2>1. e.id \in minted' /\ CharmIsThere(e.id, e.revision, e.hash)'
    BY <1>1, <1>3 DEF EntityHolds
  <2>2. ASSUME NEW r \in DOMAIN e.resources
        PROVE  ResourceIsThere(e.id, r, e.resources[r], e.hashes[r])'
    BY <1>2, <1>3 DEF EntityHolds
  <2> QED BY <1>3, <2>1, <2>2 DEF EntityHolds
<1>4. ASSUME NEW q, ReaderHolds(q) PROVE ReaderHolds(q)'
  <2>1. q.step \in Gathering => EntityHolds(q)'
    BY <1>3, <1>4 DEF ReaderHolds
  <2>2. \A i \in DOMAIN q.results :
          \/ q.results[i] = ErrorEntry /\ q.op # "info"
          \/ EntityHolds(q.results[i])'
    BY <1>3, <1>4 DEF ReaderHolds
  <2>3. q.step = "GetRevisionByNumber" /\ Live(q.id)' => q.revision \in DOMAIN revisions'[q.id]
    BY <1>4 DEF ReaderHolds, Live
  <2> QED BY <1>4, <2>1, <2>2, <2>3 DEF ReaderHolds
<1> QED BY <1>4

-----------------------------------------------------------------------------
(* Readers. *)

\* A reader moves itself only, and its next state is in order.
LEMMA ReaderStep ==
  ASSUME ConsumerInv, UNCHANGED consumerTables, NEW h \in Readers, NEW q \in ReadRow,
         read' = [read EXCEPT ![h] = q], ReaderHolds(q)
  PROVE  ConsumerInv'
<1>1. ConsumerTablesOK' /\ UNCHANGED <<minted, packages, revisions, resourceRevisions>>
  BY ReadersKeep DEF ConsumerInv, consumerTables, tables
<1>2. \A r : ReaderHolds(r) => ReaderHolds(r)'
  BY <1>1, HoldsWhileTablesStay
<1>3. ASSUME NEW k \in Readers PROVE ReaderHolds(read[k])'
  <2>1. PICK r : r = read'[k] /\ ReaderHolds(r)
    BY DEF ConsumerInv
  <2> QED BY <1>2, <2>1
<1> QED BY <1>1, <1>3 DEF ConsumerInv

\* The values of a reader at rest
LEMMA QuietValues ==
  /\ 0 \in 0..MaxActions /\ 0 \in 0..MaxRevision /\ None \in Hash
  /\ NoRows \in References /\ NoRows \in Hashes
  /\ NoRows \in ReleaseTables
<1>1. NoRows \in [{} -> Hash] /\ NoRows \in [{} -> RevisionNumber]
      /\ {} \in SUBSET Resources /\ {} \in SUBSET Channels
  BY DEF NoRows
<1>2. NoRows \in Hashes /\ NoRows \in ReleaseTables
  BY <1>1 DEF Hashes, ReleaseTables
<1> QED BY <1>2, NoReferences, MaxActionsAssumption, MaxRevisionAssumption
    DEF Hash

\* A reader at rest
LEMMA QuietIsFine ==
  /\ Quiet \in ReadRow /\ ReaderHolds(Quiet) /\ Quiet.step = "Idle" /\ Quiet.op = "none"
  /\ ErrorEntry \in EntityRow /\ ErrorEntry.id = None /\ ErrorEntry.revision = 0
<1>3. Quiet \in ReadRow
  BY QuietValues DEF Quiet, ReadRow, ReaderSteps, Outcomes
<1>4. ReaderHolds(Quiet)
  <2>1. /\ Quiet.step = "Idle" /\ Quiet.op = "none" /\ Quiet.outcome = "none" /\ Quiet.found = {}
        /\ Quiet.results = <<>> /\ Quiet.left = 0 /\ Quiet.actions = 0
    BY DEF Quiet
  <2> QED BY <2>1 DEF ReaderHolds, Resolving, Gathering
<1>5. ErrorEntry \in EntityRow
  BY QuietValues DEF ErrorEntry, Entity, Quiet, EntityRow
<1> QED BY <1>3, <1>4, <1>5 DEF Quiet, ErrorEntry, Entity

\* The results of an answer, with one more
LEMMA OneMoreResult ==
  ASSUME NEW s \in Seq(EntityRow), NEW e \in EntityRow
  PROVE  /\ Append(s, e) \in Seq(EntityRow) /\ Len(Append(s, e)) = Len(s) + 1
         /\ \A i \in DOMAIN Append(s, e) :
              \/ Append(s, e)[i] = e
              \/ i \in DOMAIN s /\ Append(s, e)[i] = s[i]
OBVIOUS

\* The shape of what is left of a request, and of what goes on
LEMMA EndedIsTyped ==
  ASSUME NEW q, q.op \in {"refresh", "find", "info", "none"}, q.actions \in 0..MaxActions,
         q.results \in Seq(EntityRow), NEW outcome \in Outcomes
  PROVE  Ended(q, outcome) \in ReadRow
BY ZenonT(60), QuietValues DEF Ended, Quiet, ReadRow, ReaderSteps

LEMMA GoesOnIsTyped ==
  ASSUME NEW q, q.op \in {"refresh", "find", "info", "none"}, q.actions \in 0..MaxActions,
         q.left \in 0..MaxActions, q.found \in SUBSET (PackageIds \X BOOLEAN),
         q.id \in PackageIds \cup {None}, NEW results \in Seq(EntityRow)
  PROVE  GoesOn(q, results) \in ReadRow
<1>1. CASE q.op = "info"
  BY ZenonT(60), <1>1, QuietValues DEF GoesOn, Quiet, ReadRow, ReaderSteps, Outcomes
<1>2. CASE q.op # "info"
  BY ZenonT(60), <1>2, QuietValues DEF GoesOn, Quiet, ReadRow, ReaderSteps, Outcomes
<1> QED BY <1>1, <1>2

\* The end of a request
LEMMA EndIsFine ==
  ASSUME NEW q \in ReadRow, ReaderHolds(q), q.op # "none",
         NEW outcome \in {"200", "404", "unavailable"},
         q.op = "refresh" /\ outcome = "200" => Len(q.results) = q.actions,
         q.op = "find" => outcome # "404"
  PROVE  Ended(q, outcome) \in ReadRow /\ ReaderHolds(Ended(q, outcome))
<1>1. PICK r : r = Ended(q, outcome)
  OBVIOUS
<1>2. /\ r.step = "Answered" /\ r.op = q.op /\ r.actions = q.actions /\ r.results = q.results
      /\ r.outcome = outcome /\ r.found = {} /\ r.left = 0 /\ q.actions \in Nat
      /\ r.hashes = r.resources
  BY <1>1 DEF Ended, Quiet, ReadRow
<1>3. r \in ReadRow
  <2>1. /\ q.op \in {"refresh", "find", "info", "none"} /\ q.actions \in 0..MaxActions
        /\ q.results \in Seq(EntityRow)
    BY DEF ReadRow
  <2> QED BY <1>1, <2>1, EndedIsTyped DEF Outcomes
<1>4. ReaderHolds(r)
  BY <1>2 DEF ReaderHolds, Resolving, Gathering, Accounted
<1> QED BY <1>1, <1>3, <1>4

\* The end of an action of a refresh, of a package of a search, of Info's first look
LEMMA GoingOnIsFine ==
  ASSUME NEW q \in ReadRow, ReaderHolds(q), q.op # "none", NEW results \in Seq(EntityRow),
         \A i \in DOMAIN results :
           \/ results[i] = ErrorEntry /\ q.op # "info"
           \/ EntityHolds(results[i]),
         q.op = "refresh" => Len(results) + q.left = q.actions,
         q.op = "info" => q.id \in minted /\ \A i \in DOMAIN results : results[i].id = q.id
  PROVE  GoesOn(q, results) \in ReadRow /\ ReaderHolds(GoesOn(q, results))
<1>1. PICK r : r = GoesOn(q, results)
  OBVIOUS
<1>2. /\ r.step = (IF q.op = "info" THEN "ListReleases" ELSE "Next")
      /\ r.op = q.op /\ r.actions = q.actions /\ r.left = q.left /\ r.found = q.found
      /\ r.id = (IF q.op = "info" THEN q.id ELSE None) /\ r.results = results
      /\ r.outcome = "none" /\ r.resources = NoRows /\ r.hashes = NoRows /\ r.todo = {}
      /\ ~r.overriding /\ r.bundle = NoRows /\ r.overrides = NoRows
  BY <1>1 DEF GoesOn, Quiet
<1>3. r \in ReadRow
  <2>1. /\ q.op \in {"refresh", "find", "info", "none"} /\ q.actions \in 0..MaxActions
        /\ q.left \in 0..MaxActions /\ q.found \in SUBSET (PackageIds \X BOOLEAN)
        /\ q.id \in PackageIds \cup {None}
    BY DEF ReadRow
  <2> QED BY <1>1, <2>1, GoesOnIsTyped
<1>4. ReaderHolds(r)
  <2>1. r.step \in {"ListReleases", "Next"} /\ r.step \notin Resolving \cup Gathering
    BY <1>2 DEF Resolving, Gathering
  <2>2. \A pair \in r.found : pair[1] \in minted
    BY <1>2 DEF ReaderHolds
  <2>3. Fresh(r)
    BY <1>2 DEF Fresh
  <2> QED BY <1>2, <2>1, <2>2, <2>3 DEF ReaderHolds, Accounted
<1> QED BY <1>1, <1>3, <1>4

\* A service error for one package
LEMMA NotFoundStep ==
  ASSUME ConsumerInv, UNCHANGED consumerTables, NEW h \in Readers, NotFound(h),
         read[h].step \in Resolving
  PROVE  ConsumerInv'
<1>1. PICK q \in ReadRow : q = read[h] /\ ReaderHolds(q)
  BY DEF ConsumerInv
<1>2. /\ q.step \in Resolving /\ q.step \notin {"Idle", "Next", "Answered", "ListReleases"}
      /\ q.op \in {"refresh", "find", "info"}
  BY <1>1 DEF Resolving, ReaderHolds, ReadRow
<1>3. CASE q.op = "refresh"
  <2>1. PICK results : results = Append(q.results, ErrorEntry)
    OBVIOUS
  <2>2. results \in Seq(EntityRow) /\ Len(results) + q.left = q.actions
    <3>1. Len(q.results) + q.left + 1 = q.actions
      BY <1>2, <1>3, <1>1 DEF ReaderHolds, Accounted
    <3>2. Len(q.results) \in Nat /\ q.left \in Int
      BY DEF ReadRow
    <3> QED BY <2>1, <3>1, <3>2, OneMoreResult, QuietIsFine DEF ReadRow
  <2>3. \A i \in DOMAIN results : results[i] = ErrorEntry \/ EntityHolds(results[i])
    BY SMTT(30), ZenonT(60), <1>1, <2>1, OneMoreResult, QuietIsFine DEF ReaderHolds, ReadRow
  <2>4. GoesOn(q, results) \in ReadRow /\ ReaderHolds(GoesOn(q, results))
    BY <1>1, <1>3, <2>2, <2>3, GoingOnIsFine
  <2>5. read' = [read EXCEPT ![h] = GoesOn(q, results)]
    BY <1>1, <1>3, <2>1 DEF NotFound
  <2> QED BY <2>4, <2>5, ReaderStep
<1>4. CASE q.op = "find"
  <2>1. GoesOn(q, q.results) \in ReadRow /\ ReaderHolds(GoesOn(q, q.results))
    BY ZenonT(60), <1>1, <1>4, GoingOnIsFine DEF ReaderHolds, ReadRow
  <2>2. read' = [read EXCEPT ![h] = GoesOn(q, q.results)]
    BY <1>1, <1>4 DEF NotFound
  <2> QED BY <2>1, <2>2, ReaderStep
<1>5. CASE q.op = "info"
  <2>1. Ended(q, "404") \in ReadRow /\ ReaderHolds(Ended(q, "404"))
    BY <1>1, <1>5, EndIsFine
  <2>2. read' = [read EXCEPT ![h] = Ended(q, "404")]
    BY <1>1, <1>5 DEF NotFound
  <2> QED BY <2>1, <2>2, ReaderStep
<1> QED BY <1>2, <1>3, <1>4, <1>5

\* A row that a reader has seen named, and that is not there
LEMMA MissingRowStep ==
  ASSUME ConsumerInv, UNCHANGED consumerTables, NEW h \in Readers, MissingRow(h),
         read[h].step \in Resolving \cup Gathering
  PROVE  ConsumerInv'
<1>1. PICK q \in ReadRow : q = read[h] /\ ReaderHolds(q)
  BY DEF ConsumerInv
<1>2. q.op \in {"refresh", "find", "info"}
  BY <1>1 DEF Resolving, Gathering, ReaderHolds, ReadRow
<1>3. CASE q.op = "find"
  <2>1. GoesOn(q, q.results) \in ReadRow /\ ReaderHolds(GoesOn(q, q.results))
    BY SMTT(30), ZenonT(60), <1>1, <1>3, GoingOnIsFine DEF ReaderHolds, ReadRow
  <2>2. read' = [read EXCEPT ![h] = GoesOn(q, q.results)]
    BY <1>1, <1>3 DEF MissingRow
  <2> QED BY <2>1, <2>2, ReaderStep
<1>4. CASE q.op # "find"
  <2>1. Ended(q, "404") \in ReadRow /\ ReaderHolds(Ended(q, "404"))
    BY <1>1, <1>2, <1>4, EndIsFine
  <2>2. read' = [read EXCEPT ![h] = Ended(q, "404")]
    BY <1>1, <1>4 DEF MissingRow, Ends
  <2> QED BY <2>1, <2>2, ReaderStep
<1> QED BY <1>3, <1>4

\* A request arrives.
LEMMA AskStep ==
  ASSUME ConsumerInv, UNCHANGED consumerTables, NEW h \in Readers, Ask(h)
  PROVE  ConsumerInv'
<1>1. DOMAIN packages \subseteq minted /\ minted \subseteq PackageIds
      /\ \A p \in DOMAIN packages : packages[p].private \in BOOLEAN
  BY DEF ConsumerInv, ConsumerTablesOK, TablesOK, PackagesTypeOK, IsTable, PackageRow
<1>0. PICK z \in ReadRow : z = Quiet
  BY QuietIsFine
<1>2. CASE StartRefresh(h)
  <2>1. PICK n \in 0..MaxActions :
          read' = [read EXCEPT ![h] =
            [Quiet EXCEPT !.step = "Next", !.op = "refresh", !.actions = n, !.left = n]]
    BY <1>2 DEF StartRefresh
  <2>2. PICK r : r = [z EXCEPT !.step = "Next", !.op = "refresh", !.actions = n, !.left = n]
    OBVIOUS
  <2>3. r \in ReadRow
    BY ZenonT(60), <2>2 DEF ReadRow, ReaderSteps, Outcomes
  <2>4. /\ r.step = "Next" /\ r.op = "refresh" /\ r.left = n /\ r.actions = n /\ r.found = {}
        /\ r.results = <<>> /\ r.outcome = "none" /\ r.resources = NoRows /\ r.hashes = NoRows
        /\ r.todo = {} /\ ~r.overriding /\ r.bundle = NoRows
    BY <1>0, <2>2 DEF Quiet
  <2>5. ReaderHolds(r)
    BY <2>4 DEF ReaderHolds, Fresh, Resolving, Gathering, Accounted
  <2> QED BY <2>1, <2>2, <2>3, <2>5, ReaderStep, <1>0
<1>3. CASE SearchPackages(h)
  <2>1. PICK P \in SUBSET DOMAIN packages :
          read' = [read EXCEPT ![h] =
            [Quiet EXCEPT !.step = "Next", !.op = "find",
                          !.found = {<<p, packages[p].private>> : p \in P}]]
    BY <1>3 DEF SearchPackages
  <2>2. PICK found : found = {<<p, packages[p].private>> : p \in P}
    OBVIOUS
  <2>3. found \in SUBSET (PackageIds \X BOOLEAN) /\ \A pair \in found : pair[1] \in minted
    BY <1>1, <2>2
  <2>4. PICK r : r = [z EXCEPT !.step = "Next", !.op = "find", !.found = found]
    OBVIOUS
  <2>5. r \in ReadRow
    BY ZenonT(60), <2>3, <2>4 DEF ReadRow, ReaderSteps, Outcomes
  <2>6. /\ r.step = "Next" /\ r.op = "find" /\ r.left = 0 /\ r.actions = 0 /\ r.found = found
        /\ r.results = <<>> /\ r.outcome = "none" /\ r.resources = NoRows /\ r.hashes = NoRows
        /\ r.todo = {} /\ ~r.overriding /\ r.bundle = NoRows /\ r.overrides = NoRows
    BY <1>0, <2>4 DEF Quiet
  <2>7. ReaderHolds(r)
    BY <2>3, <2>6 DEF ReaderHolds, Fresh, Resolving, Gathering
  <2> QED BY <2>1, <2>2, <2>4, <2>5, <2>7, ReaderStep, <1>0
<1>4. CASE StartInfo(h)
  <2>1. CASE \E p \in DOMAIN packages :
               read' = [read EXCEPT ![h] =
                 [Quiet EXCEPT !.step = "CanViewPackage", !.op = "info", !.id = p,
                               !.private = packages[p].private]]
    <3>1. PICK p \in DOMAIN packages :
            read' = [read EXCEPT ![h] =
              [Quiet EXCEPT !.step = "CanViewPackage", !.op = "info", !.id = p,
                            !.private = packages[p].private]]
      BY <2>1
    <3>2. PICK r : r = [z EXCEPT !.step = "CanViewPackage", !.op = "info", !.id = p,
                                     !.private = packages[p].private]
      OBVIOUS
    <3>3. r \in ReadRow
      BY ZenonT(60), <1>1, <3>2 DEF ReadRow, ReaderSteps, Outcomes
    <3>4. /\ r.step = "CanViewPackage" /\ r.op = "info" /\ r.left = 0 /\ r.actions = 0
          /\ r.found = {} /\ r.id = p
          /\ r.results = <<>> /\ r.outcome = "none" /\ r.resources = NoRows /\ r.hashes = NoRows
          /\ r.todo = {} /\ ~r.overriding /\ r.bundle = NoRows
      BY <1>0, <3>2 DEF Quiet
    <3>5. ReaderHolds(r)
      BY <1>1, <3>4 DEF ReaderHolds, Fresh, Resolving, Gathering
    <3> QED BY <3>1, <3>2, <3>3, <3>5, ReaderStep, <1>0
  <2>2. CASE read' = [read EXCEPT ![h] =
               [Quiet EXCEPT !.step = "Answered", !.op = "info", !.outcome = "404"]]
    <3>1. PICK r : r = [z EXCEPT !.step = "Answered", !.op = "info", !.outcome = "404"]
      OBVIOUS
    <3>2. r \in ReadRow
      BY ZenonT(60), <3>1 DEF ReadRow, ReaderSteps, Outcomes
    <3>3. /\ r.step = "Answered" /\ r.op = "info" /\ r.left = 0 /\ r.actions = 0
          /\ r.found = {} /\ r.results = <<>> /\ r.hashes = r.resources
      BY <1>0, <3>1 DEF Quiet
    <3>4. ReaderHolds(r)
      BY <3>3 DEF ReaderHolds, Resolving, Gathering
    <3> QED BY <2>2, <3>1, <3>2, <3>4, ReaderStep, <1>0
  <2> QED BY <1>4, <2>1, <2>2 DEF StartInfo
<1> QED BY <1>2, <1>3, <1>4 DEF Ask

\* The end of a request, and the next one
LEMMA EndStep ==
  ASSUME ConsumerInv, UNCHANGED consumerTables, NEW h \in Readers,
         Answer(h) \/ Unavailable(h) \/ Forget(h)
  PROVE  ConsumerInv'
<1>1. PICK q \in ReadRow : q = read[h] /\ ReaderHolds(q)
  BY DEF ConsumerInv
<1>2. CASE Answer(h)
  <2>1. q.step = "Next" /\ q.left = 0 /\ Ends(h, "200")
    BY <1>1, <1>2 DEF Answer, AtRead
  <2>2. q.op # "none" /\ (q.op = "refresh" => Len(q.results) = q.actions)
    <3>1. Len(q.results) \in Nat
      BY DEF ReadRow
    <3> QED BY <1>1, <2>1, <3>1 DEF ReaderHolds, Accounted
  <2>3. Ended(q, "200") \in ReadRow /\ ReaderHolds(Ended(q, "200"))
    BY <1>1, <2>2, EndIsFine
  <2> QED BY <1>1, <2>1, <2>3, ReaderStep DEF Ends
<1>3. CASE Unavailable(h)
  <2>1. q.op # "none"
    BY <1>1, <1>3 DEF Unavailable, ReaderHolds
  <2>2. Ended(q, "unavailable") \in ReadRow /\ ReaderHolds(Ended(q, "unavailable"))
    BY <1>1, <2>1, EndIsFine
  <2> QED BY <1>1, <1>3, <2>2, ReaderStep DEF Ends, Unavailable
<1>4. CASE Forget(h)
  BY <1>4, QuietIsFine, ReaderStep DEF Forget
<1> QED BY <1>2, <1>3, <1>4

\* The next package of a request
LEMMA NextStep ==
  ASSUME ConsumerInv, UNCHANGED consumerTables, NEW h \in Readers, NextAction(h) \/ NextPackage(h)
  PROVE  ConsumerInv'
<1>1. PICK q \in ReadRow : q = read[h] /\ ReaderHolds(q)
  BY DEF ConsumerInv
<1>2. DOMAIN packages \subseteq minted /\ minted \subseteq PackageIds
      /\ \A p \in DOMAIN packages : packages[p].private \in BOOLEAN
  BY DEF ConsumerInv, ConsumerTablesOK, TablesOK, PackagesTypeOK, IsTable, PackageRow
<1>3. q.left \in Nat /\ q.left <= q.actions /\ q.actions \in 0..MaxActions
      /\ Len(q.results) \in Nat
  BY <1>1 DEF ReadRow, ReaderHolds
<1>4. CASE NextAction(h)
  <2>1. q.step = "Next" /\ q.op = "refresh" /\ q.left > 0
    BY <1>1, <1>4 DEF NextAction, AtRead
  <2>2. Fresh(q) /\ q.bundle = NoRows /\ Len(q.results) + q.left = q.actions
        /\ q.left - 1 \in 0..MaxActions /\ q.outcome = "none" /\ q.found = {}
    BY <1>1, <1>3, <2>1, MaxActionsAssumption DEF ReaderHolds, Fresh, Accounted
  <2>3. CASE \E p \in DOMAIN packages, c \in Channels \cup {None}, n \in 0..MaxRevision,
                f \in References :
               read' = [read EXCEPT ![h].step = "CanViewPackage", ![h].left = @ - 1, ![h].id = p,
                                    ![h].private = packages[p].private,
                                    ![h].asked = c, ![h].wanted = n, ![h].overrides = f]
    <3>1. PICK p \in DOMAIN packages, c \in Channels \cup {None}, n \in 0..MaxRevision,
                f \in References :
               read' = [read EXCEPT ![h].step = "CanViewPackage", ![h].left = @ - 1, ![h].id = p,
                                    ![h].private = packages[p].private,
                                    ![h].asked = c, ![h].wanted = n, ![h].overrides = f]
      BY <2>3
    <3>2. PICK r : r = [q EXCEPT !.step = "CanViewPackage", !.left = @ - 1, !.id = p,
                                 !.private = packages[p].private,
                                 !.asked = c, !.wanted = n, !.overrides = f]
      OBVIOUS
    <3>3. read' = [read EXCEPT ![h] = r]
      BY <1>1, <3>1, <3>2 DEF ConsumerInv
    <3>4. r \in ReadRow
      BY ZenonT(60), <1>2, <2>2, <3>2 DEF ReadRow, ReaderSteps
    <3>5. /\ r.step = "CanViewPackage" /\ r.op = "refresh" /\ r.left = q.left - 1
          /\ r.actions = q.actions /\ r.found = {} /\ r.id = p
          /\ r.results = q.results /\ r.outcome = "none" /\ r.resources = q.resources
          /\ r.hashes = q.hashes /\ r.todo = q.todo /\ r.overriding = q.overriding
          /\ r.bundle = NoRows
      BY <2>1, <2>2, <3>2 DEF ReadRow
    <3>6. Fresh(r)
      BY <2>2, <3>5 DEF Fresh
    <3>7. Accounted(r)
      BY <1>3, <2>2, <3>5 DEF Accounted
    <3>8. ReaderHolds(r)
      BY <1>1, <1>2, <1>3, <2>1, <3>5, <3>6, <3>7 DEF ReaderHolds, Resolving, Gathering
    <3> QED BY <3>3, <3>4, <3>8, ReaderStep
  <2>4. CASE read' = [read EXCEPT ![h].left = @ - 1, ![h].results = Append(@, ErrorEntry)]
    <3>1. PICK results : results = Append(q.results, ErrorEntry)
      OBVIOUS
    <3>2. PICK r : r = [q EXCEPT !.left = @ - 1, !.results = results]
      OBVIOUS
    <3>3. read' = [read EXCEPT ![h] = r]
      BY <1>1, <2>4, <3>1, <3>2 DEF ConsumerInv
    <3>4. results \in Seq(EntityRow) /\ Len(results) = Len(q.results) + 1
          /\ \A i \in DOMAIN results : results[i] = ErrorEntry
               \/ (i \in DOMAIN q.results /\ results[i] = q.results[i])
      BY SMTT(30), ZenonT(60), <3>1, OneMoreResult, QuietIsFine DEF ReadRow
    <3>5. r \in ReadRow
      BY ZenonT(60), <2>2, <3>2, <3>4 DEF ReadRow
    <3>6. /\ r.step = "Next" /\ r.op = "refresh" /\ r.left = q.left - 1
          /\ r.actions = q.actions /\ r.found = {}
          /\ r.results = results /\ r.outcome = "none" /\ r.resources = q.resources
          /\ r.hashes = q.hashes /\ r.todo = q.todo /\ r.overriding = q.overriding
          /\ r.bundle = NoRows
      BY <2>1, <2>2, <3>2 DEF ReadRow
    <3>7. Fresh(r)
      BY <2>2, <3>6 DEF Fresh
    <3>8. Accounted(r)
      BY SMTT(30), ZenonT(60), <1>3, <2>2, <3>4, <3>6 DEF Accounted
    <3>9. \A i \in DOMAIN results : results[i] = ErrorEntry \/ EntityHolds(results[i])
      BY <1>1, <3>4 DEF ReaderHolds
    <3>10. ReaderHolds(r)
      BY <1>3, <3>6, <3>7, <3>8, <3>9 DEF ReaderHolds, Resolving, Gathering
    <3> QED BY <3>3, <3>5, <3>10, ReaderStep
  <2> QED BY ZenonT(60), <1>4, <2>3, <2>4 DEF NextAction
<1>5. CASE NextPackage(h)
  <2>1. PICK pair \in q.found :
          read' = [read EXCEPT ![h].step = "CanViewPackage", ![h].found = @ \ {pair},
                               ![h].id = pair[1], ![h].private = pair[2]]
    BY <1>1, <1>5 DEF NextPackage
  <2>2. q.step = "Next" /\ q.op = "find" /\ pair[1] \in minted /\ pair[2] \in BOOLEAN
    BY <1>1, <1>5 DEF NextPackage, AtRead, ReaderHolds, ReadRow
  <2>3. PICK r : r = [q EXCEPT !.step = "CanViewPackage", !.found = @ \ {pair},
                               !.id = pair[1], !.private = pair[2]]
    OBVIOUS
  <2>4. read' = [read EXCEPT ![h] = r]
    BY <1>1, <2>1, <2>3 DEF ConsumerInv
  <2>5. r \in ReadRow
    BY ZenonT(60), <1>2, <2>2, <2>3 DEF ReadRow, ReaderSteps
  <2>6. Fresh(q) /\ q.outcome = "none"
    BY <1>1, <2>2 DEF ReaderHolds
  <2>7. /\ r.step = "CanViewPackage" /\ r.op = "find" /\ r.left = q.left
        /\ r.actions = q.actions /\ r.found \subseteq q.found /\ r.id = pair[1]
        /\ r.results = q.results /\ r.outcome = "none" /\ r.resources = q.resources
        /\ r.hashes = q.hashes /\ r.todo = q.todo /\ r.overriding = q.overriding
        /\ r.bundle = q.bundle /\ r.overrides = q.overrides
    BY <2>2, <2>3, <2>6 DEF ReadRow
  <2>8. Fresh(r)
    BY <2>2, <2>6, <2>7 DEF Fresh
  <2>9. ReaderHolds(r)
    BY <1>1, <2>2, <2>7, <2>8 DEF ReaderHolds, Resolving, Gathering
  <2> QED BY <2>4, <2>5, <2>9, ReaderStep
<1> QED BY <1>4, <1>5

\* Where nothing but the step changes
LEMMA GoesStep ==
  ASSUME ConsumerInv, UNCHANGED consumerTables, NEW h \in Readers,
         NEW step \in Resolving \ {"GetRevisionByNumber"}, Goes(h, step),
         read[h].step \in Resolving \ {"GetRevisionByNumber"}
  PROVE  ConsumerInv'
<1>1. PICK q \in ReadRow : q = read[h] /\ ReaderHolds(q)
  BY DEF ConsumerInv
<1>2. PICK r : r = [q EXCEPT !.step = step]
  OBVIOUS
<1>3. read' = [read EXCEPT ![h] = r]
  BY <1>1, <1>2 DEF Goes, ConsumerInv
<1>4. r \in ReadRow
  <2>1. step \in ReaderSteps
    BY DEF Resolving, ReaderSteps
  <2> QED BY <1>2, <2>1 DEF ReadRow
<1>5. /\ r.step = step /\ r.op = q.op /\ r.left = q.left /\ r.actions = q.actions
      /\ r.found = q.found /\ r.id = q.id
      /\ r.results = q.results /\ r.outcome = q.outcome /\ r.resources = q.resources
      /\ r.hashes = q.hashes /\ r.todo = q.todo /\ r.overriding = q.overriding
      /\ r.bundle = q.bundle /\ r.overrides = q.overrides
  BY <1>2 DEF ReadRow
<1>6. /\ q.step \notin {"Idle", "Next", "ListReleases", "Answered"} \cup Gathering
      /\ step \notin {"Idle", "Next", "ListReleases", "Answered"} \cup Gathering
      /\ q.step \in Resolving
  BY <1>1 DEF Resolving, Gathering
<1>7. Fresh(r)
  BY <1>1, <1>5, <1>6 DEF ReaderHolds, Fresh
<1>8. q.op = "refresh" => Accounted(r)
  BY <1>1, <1>5, <1>6 DEF ReaderHolds, Accounted
<1>9. ReaderHolds(r)
  BY <1>1, <1>5, <1>6, <1>7, <1>8 DEF ReaderHolds, Gathering
<1> QED BY <1>3, <1>4, <1>9, ReaderStep

LEMMA ViewStep ==
  ASSUME ConsumerInv, UNCHANGED consumerTables, NEW h \in Readers, RequirePackageView(h)
  PROVE  ConsumerInv'
<1>1. read[h].step = "CanViewPackage"
      /\ {"CanViewPackage", "GetWantedRevision", "ResolveRelease", "ResolveDefaultRelease"}
           \subseteq Resolving \ {"GetRevisionByNumber"}
  BY DEF RequirePackageView, AtRead, Resolving
<1>2. \/ NotFound(h) \/ MissingRow(h) \/ Goes(h, "GetWantedRevision")
      \/ Goes(h, "ResolveRelease") \/ Goes(h, "ResolveDefaultRelease")
  BY DEF RequirePackageView
<1> QED BY <1>1, <1>2, NotFoundStep, MissingRowStep, GoesStep

\* A release row was found.
LEMMA SelectsStep ==
  ASSUME ConsumerInv, UNCHANGED consumerTables, NEW h \in Readers,
         read[h].step \in Resolving \ {"GetRevisionByNumber"},
         NEW c \in DOMAIN releases[read[h].id], Selects(h, c)
  PROVE  ConsumerInv'
<1>1. PICK q \in ReadRow : q = read[h] /\ ReaderHolds(q)
  BY DEF ConsumerInv
<1>2. /\ q.step \notin {"Idle", "Next", "ListReleases", "Answered"} \cup Gathering
      /\ q.step \in Resolving \ {"GetRevisionByNumber"} /\ "GetRevisionByNumber" \in Resolving
      /\ "GetRevisionByNumber" \notin Gathering
  BY <1>1 DEF Resolving, Gathering
<1>3. q.id \in PackageIds
  BY <1>1, <1>2 DEF ReaderHolds, ConsumerInv, ConsumerTablesOK, TablesOK, PackagesTypeOK
<1>4. PICK n : n = releases[q.id][c]
  OBVIOUS
<1>5. n \in 0..MaxRevision /\ n \in DOMAIN revisions[q.id]
  <2>1. n \in DOMAIN revisions[q.id] /\ IsTable(revisions[q.id], RevisionNumber, RevisionRow)
    BY <1>1, <1>3, <1>4 DEF ConsumerInv, ConsumerTablesOK, TablesOK, ReleasesResolve, RevisionsTypeOK
  <2> QED BY <2>1, MaxRevisionAssumption DEF IsTable, RevisionNumber
<1>6. PICK f \in References : f = refs[q.id][c]
  BY <1>1, <1>3 DEF ConsumerInv, ConsumerTablesOK, ColumnsOK
<1>7. PICK r : r = [q EXCEPT !.step = "GetRevisionByNumber", !.revision = n, !.bundle = f]
  OBVIOUS
<1>8. read' = [read EXCEPT ![h] = r]
  BY <1>1, <1>4, <1>6, <1>7 DEF Selects, ConsumerInv
<1>9. r \in ReadRow
  BY ZenonT(60), <1>5, <1>7 DEF ReadRow, ReaderSteps
<1>10. /\ r.step = "GetRevisionByNumber" /\ r.revision = n /\ r.op = q.op /\ r.left = q.left /\ r.actions = q.actions
       /\ r.found = q.found /\ r.id = q.id
       /\ r.results = q.results /\ r.outcome = q.outcome /\ r.resources = q.resources
       /\ r.hashes = q.hashes /\ r.todo = q.todo /\ r.overriding = q.overriding
       /\ r.overrides = q.overrides
  BY <1>7 DEF ReadRow
<1>11. Fresh(r)
  BY <1>1, <1>2, <1>10 DEF ReaderHolds, Fresh
<1>12. q.op = "refresh" => Accounted(r)
  BY <1>1, <1>2, <1>10 DEF ReaderHolds, Accounted
<1>13. ReaderHolds(r)
  BY <1>1, <1>2, <1>5, <1>10, <1>11, <1>12 DEF ReaderHolds
<1> QED BY <1>8, <1>9, <1>13, ReaderStep

LEMMA ResolveStep ==
  ASSUME ConsumerInv, UNCHANGED consumerTables, NEW h \in Readers,
         ResolveRelease(h) \/ ResolveDefaultRelease(h) \/ ResolveAnyRelease(h)
  PROVE  ConsumerInv'
<1>1. read[h].step \in Resolving \ {"GetRevisionByNumber"}
      /\ "ResolveAnyRelease" \in Resolving \ {"GetRevisionByNumber"}
  BY DEF ResolveRelease, ResolveDefaultRelease, ResolveAnyRelease, AtRead, Resolving
<1>2. \/ NotFound(h) \/ Goes(h, "ResolveAnyRelease")
      \/ \E c \in DOMAIN releases[read[h].id] : Selects(h, c)
  BY DEF ResolveRelease, ResolveDefaultRelease, ResolveAnyRelease
<1> QED BY <1>1, <1>2, NotFoundStep, GoesStep, SelectsStep

\* A revision row was found: the resources come next.
LEMMA RevisionStep ==
  ASSUME ConsumerInv, UNCHANGED consumerTables, NEW h \in Readers,
         GetWantedRevision(h) \/ GetReleasedRevision(h)
  PROVE  ConsumerInv'
<1>1. PICK q \in ReadRow : q = read[h] /\ ReaderHolds(q)
  BY DEF ConsumerInv
<1>2. q.step \in {"GetWantedRevision", "GetRevisionByNumber"}
  BY <1>1 DEF GetWantedRevision, GetReleasedRevision, AtRead
<1>3. /\ q.step \notin {"Idle", "Next", "ListReleases", "Answered"} \cup Gathering
      /\ q.step \in Resolving /\ "Resources" \notin Resolving
      /\ "Resources" \in Gathering
  BY <1>2 DEF Resolving, Gathering
<1>4. q.id \in PackageIds /\ q.id \in minted
  BY <1>1, <1>3 DEF ReaderHolds, ConsumerInv, ConsumerTablesOK, TablesOK, PackagesTypeOK
<1>5. ASSUME NEW n \in DOMAIN revisions[q.id]
      PROVE  n \in RevisionNumber /\ n \in 0..MaxRevision /\ revisions[q.id][n].digest \in Hash
  <2>1. IsTable(revisions[q.id], RevisionNumber, RevisionRow)
    BY <1>4 DEF ConsumerInv, ConsumerTablesOK, TablesOK, RevisionsTypeOK
  <2> QED BY <2>1, MaxRevisionAssumption DEF IsTable, RevisionNumber, RevisionRow, Hash
<1>6. ASSUME NEW n \in DOMAIN revisions[q.id], NEW T,
             T = {} \/ (T = DOMAIN q.bundle /\ q.step = "GetRevisionByNumber"),
             q.step = "GetRevisionByNumber" /\ q.op # "find" => T = DOMAIN q.bundle,
             read' = [read EXCEPT ![h] =
               [q EXCEPT !.step = "Resources", !.revision = n,
                         !.hash = revisions[q.id][n].digest, !.todo = T]]
      PROVE  ConsumerInv'
  <2>1. PICK x \in Hash : x = revisions[q.id][n].digest
    BY <1>5
  <2>2. PICK r : r = [q EXCEPT !.step = "Resources", !.revision = n, !.hash = x, !.todo = T]
    OBVIOUS
  <2>3. read' = [read EXCEPT ![h] = r]
    BY <1>1, <1>6, <2>1, <2>2 DEF ConsumerInv
  <2>4. T \in SUBSET Resources /\ n \in 0..MaxRevision
    BY <1>5, <1>6, NoReferences DEF ReadRow
  <2>5. r \in ReadRow
    BY ZenonT(60), <2>2, <2>4 DEF ReadRow, ReaderSteps
  <2>6. /\ r.step = "Resources" /\ r.op = q.op /\ r.left = q.left /\ r.actions = q.actions
        /\ r.found = q.found /\ r.id = q.id /\ r.revision = n /\ r.hash = x
        /\ r.results = q.results /\ r.outcome = q.outcome /\ r.resources = q.resources
        /\ r.hashes = q.hashes /\ r.todo = T /\ r.overriding = q.overriding
        /\ r.bundle = q.bundle /\ r.overrides = q.overrides
    BY <2>2 DEF ReadRow
  <2>7. /\ r.resources = NoRows /\ r.hashes = NoRows /\ ~r.overriding
        /\ q.step # "GetRevisionByNumber" => r.bundle = NoRows
    BY <1>1, <1>3, <2>6 DEF ReaderHolds, Fresh
  <2>8. EntityHolds(r)
    BY <1>4, <1>5, <2>1, <2>6, <2>7, NoReferences DEF EntityHolds, CharmIsThere
  <2>9. q.op # "find" => GatheredSoFar(r)
    <3>1. Pending(r) = T
      BY <2>6 DEF Pending
    <3> SUFFICES ASSUME q.op # "find" PROVE GatheredSoFar(r)
      OBVIOUS
    <3>2. T = DOMAIN r.bundle
      BY <1>2, <1>6, <2>6, <2>7, NoReferences
    <3>3. Named(r.bundle) \ Pending(r) = {} /\ DOMAIN r.resources = {}
      BY <2>7, <3>1, <3>2, NoReferences DEF Named
    <3> QED BY <2>6, <2>7, <3>1, <3>2, <3>3 DEF GatheredSoFar
  <2>10. q.op = "refresh" => Accounted(r)
    BY <1>1, <1>3, <2>6 DEF ReaderHolds, Accounted
  <2>11. ReaderHolds(r)
    BY <1>1, <1>3, <1>4, <2>6, <2>8, <2>9, <2>10 DEF ReaderHolds
  <2> QED BY <2>3, <2>5, <2>11, ReaderStep
<1>7. CASE GetWantedRevision(h)
  <2>1. q.step = "GetWantedRevision"
    BY <1>1, <1>7 DEF GetWantedRevision, AtRead
  <2>2. CASE NotFound(h)
    BY <1>1, <1>3, <2>2, NotFoundStep
  <2>3. CASE q.wanted \in DOMAIN revisions[q.id]
    <3>1. q.todo = {}
      BY <1>1, <1>3 DEF ReaderHolds, Fresh
    <3>2. read' = [read EXCEPT ![h] =
                     [q EXCEPT !.step = "Resources", !.revision = q.wanted,
                               !.hash = revisions[q.id][q.wanted].digest]]
      BY <1>1, <1>7, <2>3 DEF GetWantedRevision, ConsumerInv
    <3>3. ASSUME NEW x
          PROVE  [q EXCEPT !.step = "Resources", !.revision = q.wanted, !.hash = x]
                   = [q EXCEPT !.step = "Resources", !.revision = q.wanted, !.hash = x, !.todo = {}]
      BY <3>1 DEF ReadRow
    <3> QED BY <1>6, <2>1, <2>3, <3>2, <3>3
  <2> QED BY <1>1, <1>7, <2>2, <2>3 DEF GetWantedRevision
<1>8. CASE GetReleasedRevision(h)
  <2>1. q.step = "GetRevisionByNumber"
    BY <1>1, <1>8 DEF GetReleasedRevision, AtRead
  <2>2. CASE MissingRow(h)
    BY <1>1, <1>3, <2>2, MissingRowStep
  <2>3. CASE q.revision \in DOMAIN revisions[q.id]
    <3>1. PICK T : T = IF q.op = "find" THEN {} ELSE DOMAIN q.bundle
      OBVIOUS
    <3>2. read' = [read EXCEPT ![h] =
                     [q EXCEPT !.step = "Resources", !.hash = revisions[q.id][q.revision].digest,
                               !.todo = T]]
      BY <1>1, <1>8, <2>3, <3>1 DEF GetReleasedRevision, ConsumerInv
    <3>3. ASSUME NEW x
          PROVE  [q EXCEPT !.step = "Resources", !.hash = x, !.todo = T]
                   = [q EXCEPT !.step = "Resources", !.revision = q.revision, !.hash = x, !.todo = T]
      BY DEF ReadRow
    <3> QED BY <1>6, <2>1, <2>3, <3>1, <3>2, <3>3
  <2> QED BY <1>1, <1>8, <2>2, <2>3 DEF GetReleasedRevision
<1> QED BY <1>7, <1>8

\* A reader that gathers: what has to be shown of its next state
LEMMA GatherStep ==
  ASSUME ConsumerInv, UNCHANGED consumerTables, NEW h \in Readers, NEW q \in ReadRow,
         q = read[h], q.step \in Gathering, NEW r \in ReadRow, read' = [read EXCEPT ![h] = r],
         r.step \in Gathering, r.op = q.op, r.left = q.left, r.actions = q.actions,
         r.found = q.found, r.id = q.id, r.results = q.results, r.outcome = q.outcome,
         EntityHolds(r), q.op # "find" => GatheredSoFar(r),
         r.step = "GetResourceRevision" => r.resource \in Resources \ r.todo
  PROVE  ConsumerInv'
<1>1. ReaderHolds(q)
  BY DEF ConsumerInv
<1>2. /\ q.step \notin {"Idle", "Next", "ListReleases", "Answered"} \cup Resolving
      /\ r.step \notin {"Idle", "Next", "ListReleases", "Answered"} \cup Resolving
      /\ r.step # "GetRevisionByNumber"
  BY DEF Resolving, Gathering
<1>3. q.op = "refresh" => Accounted(r)
  BY <1>1, <1>2 DEF ReaderHolds, Accounted
<1>4. ReaderHolds(r)
  BY <1>1, <1>2, <1>3 DEF ReaderHolds
<1> QED BY <1>4, ReaderStep

\* The definition of a resource that the release or the request names
LEMMA DefinitionStep ==
  ASSUME ConsumerInv, UNCHANGED consumerTables, NEW h \in Readers, GetReferencedDefinition(h)
  PROVE  ConsumerInv'
<1>1. PICK q \in ReadRow : q = read[h] /\ ReaderHolds(q)
  BY DEF ConsumerInv
<1>2. q.step = "Resources" /\ q.step \in Gathering /\ "GetResourceRevision" \in Gathering
  BY <1>1 DEF GetReferencedDefinition, AtRead, Gathering
<1>3. PICK x \in q.todo :
        \/ MissingRow(h)
        \/ /\ ~q.overriding /\ q.bundle[x] = None
           /\ read' = [read EXCEPT ![h] = [q EXCEPT !.todo = @ \ {x}]]
        \/ /\ q.overriding \/ q.bundle[x] # None
           /\ read' = [read EXCEPT ![h] =
                        [q EXCEPT !.step = "GetResourceRevision", !.resource = x, !.todo = @ \ {x}]]
  <2>1. PICK x \in q.todo :
          IF x \notin definitions[q.id] THEN MissingRow(h)
          ELSE IF ~q.overriding /\ q.bundle[x] = None
          THEN read' = [read EXCEPT ![h].todo = @ \ {x}]
          ELSE read' = [read EXCEPT ![h].step = "GetResourceRevision", ![h].resource = x,
                                    ![h].todo = @ \ {x}]
    BY <1>1 DEF GetReferencedDefinition
  <2>2. CASE x \notin definitions[q.id]
    BY <2>1, <2>2
  <2>3. CASE x \in definitions[q.id] /\ ~q.overriding /\ q.bundle[x] = None
    <3>1. read' = [read EXCEPT ![h] = [q EXCEPT !.todo = @ \ {x}]]
      BY <1>1, <2>1, <2>3
    <3> QED BY <2>3, <3>1
  <2>4. CASE x \in definitions[q.id] /\ (q.overriding \/ q.bundle[x] # None)
    <3>1. read' = [read EXCEPT ![h] =
                     [q EXCEPT !.step = "GetResourceRevision", !.resource = x, !.todo = @ \ {x}]]
      BY <1>1, <2>1, <2>4 DEF ConsumerInv
    <3> QED BY <2>4, <3>1
  <2> QED BY <2>2, <2>3, <2>4
<1>4. /\ x \in Resources /\ q.todo \ {x} \in SUBSET Resources /\ q.bundle \in References
  BY DEF ReadRow
<1>5. EntityHolds(q) /\ (q.op # "find" => GatheredSoFar(q)) /\ Pending(q) = q.todo
  BY <1>1, <1>2 DEF ReaderHolds, Pending
<1>6. CASE MissingRow(h)
  BY <1>1, <1>2, <1>6, MissingRowStep
<1>7. CASE /\ ~q.overriding /\ q.bundle[x] = None
           /\ read' = [read EXCEPT ![h] = [q EXCEPT !.todo = @ \ {x}]]
  <2>1. PICK r : r = [q EXCEPT !.todo = @ \ {x}]
    OBVIOUS
  <2>2. r \in ReadRow
    BY <1>4, <2>1 DEF ReadRow
  <2>3. /\ r.step = q.step /\ r.op = q.op /\ r.left = q.left /\ r.actions = q.actions
        /\ r.found = q.found /\ r.id = q.id /\ r.revision = q.revision /\ r.hash = q.hash
        /\ r.results = q.results /\ r.outcome = q.outcome /\ r.resources = q.resources
        /\ r.hashes = q.hashes /\ r.todo = q.todo \ {x} /\ r.overriding = q.overriding
        /\ r.bundle = q.bundle /\ r.overrides = q.overrides
    BY <2>1 DEF ReadRow
  <2>4. EntityHolds(r)
    BY <1>5, <2>3 DEF EntityHolds
  <2>5. q.op # "find" => GatheredSoFar(r)
    <3>1. Pending(r) = q.todo \ {x} /\ x \notin Named(q.bundle)
      BY <1>2, <1>7, <2>3 DEF Pending, Named
    <3> QED BY <1>2, <1>5, <1>7, <2>3, <3>1 DEF GatheredSoFar
  <2> QED BY <1>1, <1>2, <1>7, <2>1, <2>2, <2>3, <2>4, <2>5, GatherStep
<1>8. CASE /\ q.overriding \/ q.bundle[x] # None
           /\ read' = [read EXCEPT ![h] =
                        [q EXCEPT !.step = "GetResourceRevision", !.resource = x, !.todo = @ \ {x}]]
  <2>1. PICK r : r = [q EXCEPT !.step = "GetResourceRevision", !.resource = x, !.todo = @ \ {x}]
    OBVIOUS
  <2>2. r \in ReadRow
    BY ZenonT(60), <1>4, <2>1 DEF ReadRow, ReaderSteps
  <2>3. /\ r.step = "GetResourceRevision" /\ r.op = q.op /\ r.left = q.left /\ r.actions = q.actions
        /\ r.found = q.found /\ r.id = q.id /\ r.revision = q.revision /\ r.hash = q.hash
        /\ r.results = q.results /\ r.outcome = q.outcome /\ r.resources = q.resources
        /\ r.hashes = q.hashes /\ r.todo = q.todo \ {x} /\ r.overriding = q.overriding
        /\ r.bundle = q.bundle /\ r.overrides = q.overrides /\ r.resource = x
    BY <2>1 DEF ReadRow
  <2>4. EntityHolds(r)
    BY <1>5, <2>3 DEF EntityHolds
  <2>5. q.op # "find" => GatheredSoFar(r)
    <3>1. Pending(r) = Pending(q)
      BY <1>5, <2>3 DEF Pending
    <3> QED BY <1>5, <1>8, <2>3, <3>1 DEF GatheredSoFar
  <2> QED BY ZenonT(60), <1>1, <1>2, <1>4, <1>8, <2>1, <2>2, <2>3, <2>4, <2>5, GatherStep
<1> QED BY <1>3, <1>6, <1>7, <1>8

\* One more entry of a table of references or hashes
LEMMA OneMoreReference ==
  ASSUME NEW f, NEW r \in Resources, NEW x
  PROVE  /\ f \in References /\ x \in RevisionNumber => WithRow(f, r, x) \in References
         /\ f \in Hashes /\ x \in Hash => WithRow(f, r, x) \in Hashes
         /\ DOMAIN WithRow(f, r, x) = DOMAIN f \cup {r}
         /\ WithRow(f, r, x)[r] = x
         /\ \A s \in DOMAIN f \ {r} : WithRow(f, r, x)[s] = f[s]
<1>1. /\ DOMAIN WithRow(f, r, x) = DOMAIN f \cup {r} /\ WithRow(f, r, x)[r] = x
      /\ \A s \in DOMAIN f \ {r} : WithRow(f, r, x)[s] = f[s]
  BY DEF WithRow
<1>2. ASSUME f \in References, x \in RevisionNumber PROVE WithRow(f, r, x) \in References
  <2>1. PICK N \in SUBSET Resources : f \in [N -> RevisionNumber \cup {None}]
    BY <1>2 DEF References
  <2>2. WithRow(f, r, x) \in [N \cup {r} -> RevisionNumber \cup {None}]
    BY <1>2, <2>1 DEF WithRow
  <2> QED BY <2>1, <2>2 DEF References
<1>3. ASSUME f \in Hashes, x \in Hash PROVE WithRow(f, r, x) \in Hashes
  <2>1. PICK N \in SUBSET Resources : f \in [N -> Hash]
    BY <1>3 DEF Hashes
  <2>2. WithRow(f, r, x) \in [N \cup {r} -> Hash]
    BY <1>3, <2>1 DEF WithRow
  <2> QED BY <2>1, <2>2 DEF Hashes
<1> QED BY <1>1, <1>2, <1>3

\* A resource revision was found, of the release or of the request.
LEMMA ReferenceStep ==
  ASSUME ConsumerInv, UNCHANGED consumerTables, NEW h \in Readers, GetReferencedRevision(h)
  PROVE  ConsumerInv'
<1>1. PICK q \in ReadRow : q = read[h] /\ ReaderHolds(q)
  BY DEF ConsumerInv
<1>2. PICK x : x = q.resource
  OBVIOUS
<1>3. PICK n : n = IF q.overriding THEN q.overrides[x] ELSE q.bundle[x]
  OBVIOUS
<1>4. q.step = "GetResourceRevision" /\ q.step \in Gathering /\ "Resources" \in Gathering
  BY <1>1 DEF GetReferencedRevision, AtRead, Gathering
<1>5. EntityHolds(q) /\ (q.op # "find" => GatheredSoFar(q)) /\ Pending(q) = q.todo \cup {x}
      /\ x \in Resources \ q.todo /\ q.id \in minted
  BY <1>1, <1>2, <1>4 DEF ReaderHolds, Pending
<1>6. CASE MissingRow(h)
  BY <1>1, <1>4, <1>6, MissingRowStep
<1>7. CASE /\ n \in DOMAIN resourceRevisions[q.id][x]
           /\ read' = [read EXCEPT ![h] =
                [q EXCEPT !.step = "Resources", !.resource = None,
                          !.resources = WithRow(@, x, n),
                          !.hashes = WithRow(@, x, resourceRevisions[q.id][x][n].digest)]]
  <2>1. PICK d : d = resourceRevisions[q.id][x][n].digest
    OBVIOUS
  <2>2. n \in RevisionNumber /\ d \in Hash
    <3>1. q.id \in PackageIds
      BY <1>5 DEF ConsumerInv, ConsumerTablesOK, TablesOK, PackagesTypeOK
    <3>2. IsTable(resourceRevisions[q.id][x], RevisionNumber, ResourceRow)
      BY <1>5, <3>1 DEF ConsumerInv, ConsumerTablesOK, ResourceTablesOK, ResourceRowsOK
    <3> QED BY <1>7, <2>1, <3>2 DEF IsTable, ResourceRow, Hash
  <2>3. PICK resources \in References : resources = WithRow(q.resources, x, n)
    BY <1>5, <2>2, OneMoreReference DEF ReadRow
  <2>4. PICK hashes \in Hashes : hashes = WithRow(q.hashes, x, d)
    BY <1>5, <2>2, OneMoreReference DEF ReadRow
  <2>5. PICK r : r = [q EXCEPT !.step = "Resources", !.resource = None,
                               !.resources = resources, !.hashes = hashes]
    OBVIOUS
  <2>6. read' = [read EXCEPT ![h] = r]
    BY <1>7, <2>1, <2>3, <2>4, <2>5
  <2>7. r \in ReadRow
    BY ZenonT(60), <2>5 DEF ReadRow, ReaderSteps
  <2>8. /\ r.step = "Resources" /\ r.op = q.op /\ r.left = q.left /\ r.actions = q.actions
        /\ r.found = q.found /\ r.id = q.id /\ r.revision = q.revision /\ r.hash = q.hash
        /\ r.results = q.results /\ r.outcome = q.outcome /\ r.resources = resources
        /\ r.hashes = hashes /\ r.todo = q.todo /\ r.overriding = q.overriding
        /\ r.bundle = q.bundle /\ r.overrides = q.overrides
    BY <2>5 DEF ReadRow
  <2>9. /\ DOMAIN resources = DOMAIN q.resources \cup {x} /\ resources[x] = n
        /\ \A s \in DOMAIN q.resources \ {x} : resources[s] = q.resources[s]
        /\ DOMAIN hashes = DOMAIN q.hashes \cup {x} /\ hashes[x] = d
        /\ \A s \in DOMAIN q.hashes \ {x} : hashes[s] = q.hashes[s]
    <3>1. /\ DOMAIN resources = DOMAIN q.resources \cup {x} /\ resources[x] = n
          /\ \A s \in DOMAIN q.resources \ {x} : resources[s] = q.resources[s]
      BY <2>3 DEF WithRow
    <3>2. /\ DOMAIN hashes = DOMAIN q.hashes \cup {x} /\ hashes[x] = d
          /\ \A s \in DOMAIN q.hashes \ {x} : hashes[s] = q.hashes[s]
      BY <2>4 DEF WithRow
    <3> QED BY <3>1, <3>2
  <2>10. EntityHolds(r)
    <3>1. ResourceIsThere(q.id, x, n, d)
      BY <1>5, <1>7, <2>1, <2>2 DEF ResourceIsThere
    <3>2. ASSUME NEW s \in DOMAIN resources
          PROVE  ResourceIsThere(q.id, s, resources[s], hashes[s])
      <4>1. CASE s = x
        BY <2>9, <3>1, <4>1
      <4>2. CASE s # x
        BY <1>5, <2>9, <4>2 DEF EntityHolds
      <4> QED BY <4>1, <4>2
    <3> QED BY <1>5, <2>8, <2>9, <3>2 DEF EntityHolds
  <2>11. q.op # "find" => GatheredSoFar(r)
    <3> SUFFICES ASSUME q.op # "find" PROVE GatheredSoFar(r)
      OBVIOUS
    <3>1. Pending(r) = q.todo
      BY <2>8 DEF Pending
    <3>2. CASE ~q.overriding
      <4>1. x \in Named(q.bundle) /\ n = q.bundle[x]
        BY <1>2, <1>3, <1>4, <1>5, <3>2 DEF GatheredSoFar, Named
      <4>2. q.todo \subseteq DOMAIN q.bundle
            /\ DOMAIN q.resources = Named(q.bundle) \ (q.todo \cup {x})
            /\ \A s \in DOMAIN q.resources : q.resources[s] = q.bundle[s]
        BY <1>5, <3>2 DEF GatheredSoFar
      <4>3. DOMAIN resources = Named(q.bundle) \ q.todo
        BY <1>5, <2>9, <4>1, <4>2
      <4>4. \A s \in DOMAIN resources : resources[s] = q.bundle[s]
        BY <2>9, <4>1, <4>2
      <4> QED BY <2>8, <3>1, <3>2, <4>2, <4>3, <4>4 DEF GatheredSoFar
    <3>3. CASE q.overriding
      <4>1. /\ DOMAIN q.resources = Named(q.bundle)
            /\ q.todo \cup {x} \subseteq DOMAIN q.resources \cap Named(q.overrides)
            /\ \A s \in DOMAIN q.resources :
                 q.resources[s] = IF s \in Named(q.overrides) \ (q.todo \cup {x}) THEN q.overrides[s]
                                  ELSE q.bundle[s]
        BY <1>5, <3>3 DEF GatheredSoFar
      <4>2. DOMAIN resources = Named(q.bundle) /\ n = q.overrides[x]
        BY <1>3, <2>9, <3>3, <4>1
      <4>3. ASSUME NEW s \in DOMAIN resources
            PROVE  resources[s] = IF s \in Named(q.overrides) \ q.todo THEN q.overrides[s]
                                  ELSE q.bundle[s]
        BY <1>5, <2>9, <4>1, <4>2
      <4> QED BY <2>8, <3>1, <3>3, <4>1, <4>2, <4>3 DEF GatheredSoFar
    <3> QED BY <3>2, <3>3
  <2> QED BY <1>1, <1>4, <2>6, <2>7, <2>8, <2>10, <2>11, GatherStep
<1> QED
  <2>1. MissingRow(h) \/ n \in DOMAIN resourceRevisions[q.id][x]
    BY SMTT(30), ZenonT(60), <1>1, <1>2, <1>3 DEF GetReferencedRevision
  <2>2. MissingRow(h) \/
        read' = [read EXCEPT ![h] =
                [q EXCEPT !.step = "Resources", !.resource = None,
                          !.resources = WithRow(@, x, n),
                          !.hashes = WithRow(@, x, resourceRevisions[q.id][x][n].digest)]]
    BY ZenonT(60), <1>1, <1>2, <1>3 DEF GetReferencedRevision, ConsumerInv
  <2> QED BY <1>6, <1>7, <2>1, <2>2

\* The resources of the release are there.
LEMMA OverridesStep ==
  ASSUME ConsumerInv, UNCHANGED consumerTables, NEW h \in Readers, StartOverrides(h)
  PROVE  ConsumerInv'
<1>1. PICK q \in ReadRow : q = read[h] /\ ReaderHolds(q)
  BY DEF ConsumerInv
<1>2. q.step = "Resources" /\ q.todo = {} /\ ~q.overriding /\ q.step \in Gathering
  BY <1>1 DEF StartOverrides, AtRead, Gathering
<1>3. EntityHolds(q) /\ (q.op # "find" => GatheredSoFar(q)) /\ Pending(q) = {}
  BY <1>1, <1>2 DEF ReaderHolds, Pending
<1>4. PICK T : T = DOMAIN q.resources \cap Named(q.overrides)
  OBVIOUS
<1>5. T \in SUBSET Resources
  BY <1>4, NoReferences DEF ReadRow
<1>6. PICK r : r = [q EXCEPT !.overriding = TRUE, !.todo = T]
  OBVIOUS
<1>7. read' = [read EXCEPT ![h] = r]
  BY <1>1, <1>4, <1>6 DEF StartOverrides, ConsumerInv
<1>8. r \in ReadRow
  BY <1>5, <1>6 DEF ReadRow
<1>9. /\ r.step = q.step /\ r.op = q.op /\ r.left = q.left /\ r.actions = q.actions
      /\ r.found = q.found /\ r.id = q.id /\ r.revision = q.revision /\ r.hash = q.hash
      /\ r.results = q.results /\ r.outcome = q.outcome /\ r.resources = q.resources
      /\ r.hashes = q.hashes /\ r.todo = T /\ r.overriding
      /\ r.bundle = q.bundle /\ r.overrides = q.overrides
  BY <1>6 DEF ReadRow
<1>10. EntityHolds(r)
  BY <1>3, <1>9 DEF EntityHolds
<1>11. q.op # "find" => GatheredSoFar(r)
  <2>1. Pending(r) = T
    BY <1>2, <1>9 DEF Pending
  <2>2. q.op # "find" => /\ DOMAIN q.resources = Named(q.bundle)
                         /\ \A s \in DOMAIN q.resources : q.resources[s] = q.bundle[s]
    BY <1>2, <1>3 DEF GatheredSoFar
  <2> QED BY <1>4, <1>9, <2>1, <2>2 DEF GatheredSoFar
<1> QED BY <1>1, <1>2, <1>7, <1>8, <1>9, <1>10, <1>11, GatherStep

\* The entity is complete.
LEMMA ComposeStep ==
  ASSUME ConsumerInv, UNCHANGED consumerTables, NEW h \in Readers, Compose(h)
  PROVE  ConsumerInv'
<1>1. PICK q \in ReadRow : q = read[h] /\ ReaderHolds(q)
  BY DEF ConsumerInv
<1>2. q.step = "Resources" /\ q.step \in Gathering /\ q.step \notin Resolving
      /\ q.step \notin {"Idle", "Next", "Answered", "ListReleases"}
  BY <1>1 DEF Compose, AtRead, Gathering, Resolving
<1>3. EntityHolds(q) /\ q.op # "none" /\ q.id \in minted
      /\ (q.op = "info" => q.results = <<>>)
  BY <1>1, <1>2 DEF ReaderHolds
<1>4. PICK e : e = Entity(q)
  OBVIOUS
<1>5. e \in EntityRow /\ e.id = q.id
  BY <1>4 DEF Entity, EntityRow, ReadRow
<1>6. EntityHolds(e)
  <2>1. e.id = q.id /\ e.revision = q.revision /\ e.hash = q.hash /\ e.resources = q.resources
        /\ e.hashes = q.hashes
    BY <1>4 DEF Entity
  <2> QED BY <1>3, <2>1 DEF EntityHolds
<1>7. PICK results : results = Append(q.results, e)
  OBVIOUS
<1>8. /\ results \in Seq(EntityRow) /\ Len(results) = Len(q.results) + 1
      /\ \A i \in DOMAIN results :
           results[i] = e \/ (i \in DOMAIN q.results /\ results[i] = q.results[i])
  BY <1>5, <1>7, OneMoreResult DEF ReadRow
<1>9. \A i \in DOMAIN results :
        \/ results[i] = ErrorEntry /\ q.op # "info"
        \/ EntityHolds(results[i])
  BY <1>1, <1>6, <1>8 DEF ReaderHolds
<1>10. q.op = "refresh" => Len(results) + q.left = q.actions
  <2>1. q.op = "refresh" => Len(q.results) + q.left + 1 = q.actions
    BY <1>1, <1>2 DEF ReaderHolds, Accounted
  <2>2. Len(q.results) \in Nat /\ q.left \in Nat
    BY DEF ReadRow
  <2> QED BY <1>8, <2>1, <2>2
<1>11. q.op = "info" => \A i \in DOMAIN results : results[i].id = q.id
  BY <1>3, <1>5, <1>8
<1>12. GoesOn(q, results) \in ReadRow /\ ReaderHolds(GoesOn(q, results))
  BY <1>1, <1>3, <1>8, <1>9, <1>10, <1>11, GoingOnIsFine
<1>13. read' = [read EXCEPT ![h] = GoesOn(q, results)]
  BY <1>1, <1>4, <1>7 DEF Compose
<1> QED BY <1>12, <1>13, ReaderStep

\* Info: what of its second look changes
LEMMA InfoStep ==
  ASSUME ConsumerInv, UNCHANGED consumerTables, NEW h \in Readers, NEW q \in ReadRow,
         q = read[h], q.op = "info", q.step \in {"ListReleases", "Next"},
         NEW others \in ReleaseTables, NEW results \in Seq(EntityRow),
         \A i \in DOMAIN results : EntityHolds(results[i]) /\ results[i].id = q.id,
         NEW r, r = [q EXCEPT !.step = "Next", !.others = others, !.results = results],
         read' = [read EXCEPT ![h] = r]
  PROVE  ConsumerInv'
<1>1. ReaderHolds(q)
  BY DEF ConsumerInv
<1>3. r \in ReadRow
  BY ZenonT(60) DEF ReadRow, ReaderSteps
<1>4. /\ r.step = "Next" /\ r.op = "info" /\ r.left = q.left /\ r.actions = q.actions
      /\ r.found = q.found /\ r.id = q.id
      /\ r.results = results /\ r.outcome = q.outcome /\ r.resources = q.resources
      /\ r.hashes = q.hashes /\ r.todo = q.todo /\ r.overriding = q.overriding
      /\ r.bundle = q.bundle /\ r.overrides = q.overrides
  BY DEF ReadRow
<1>5. Fresh(r)
  BY <1>1, <1>4 DEF ReaderHolds, Fresh
<1>6. q.id \in minted
  BY <1>1 DEF ReaderHolds
<1>7. ReaderHolds(r)
  BY <1>1, <1>4, <1>5, <1>6 DEF ReaderHolds, Resolving, Gathering
<1> QED BY <1>3, <1>7, ReaderStep

LEMMA ReleasesStep ==
  ASSUME ConsumerInv, UNCHANGED consumerTables, NEW h \in Readers, ListReleases(h)
  PROVE  ConsumerInv'
<1>1. PICK q \in ReadRow : q = read[h] /\ ReaderHolds(q)
  BY DEF ConsumerInv
<1>2. q.step = "ListReleases" /\ q.op = "info" /\ q.id \in minted
  BY <1>1 DEF ListReleases, AtRead, ReaderHolds
<1>3. q.id \in PackageIds
  BY <1>2 DEF ConsumerInv, ConsumerTablesOK, TablesOK, PackagesTypeOK
<1>4. PICK others \in ReleaseTables : others = releases[q.id]
  <2>1. IsTable(releases[q.id], Channels, RevisionNumber)
    BY <1>3 DEF ConsumerInv, ConsumerTablesOK, TablesOK, RevisionsTypeOK
  <2> QED BY <2>1 DEF IsTable, ReleaseTables
<1>5. PICK results \in Seq(EntityRow) : results = q.results
  BY DEF ReadRow
<1>6. \A i \in DOMAIN results : EntityHolds(results[i]) /\ results[i].id = q.id
  BY <1>1, <1>2, <1>5 DEF ReaderHolds
<1>7. PICK r : r = [q EXCEPT !.step = "Next", !.others = others]
  OBVIOUS
<1>8. r = [q EXCEPT !.step = "Next", !.others = others, !.results = results]
  BY <1>5, <1>7 DEF ReadRow
<1>9. read' = [read EXCEPT ![h] = r]
  BY <1>1, <1>4, <1>7 DEF ListReleases, ConsumerInv
<1> QED BY <1>1, <1>2, <1>6, <1>8, <1>9, InfoStep

LEMMA ChannelStep ==
  ASSUME ConsumerInv, UNCHANGED consumerTables, NEW h \in Readers, LookAtChannel(h)
  PROVE  ConsumerInv'
<1>1. PICK q \in ReadRow : q = read[h] /\ ReaderHolds(q)
  BY DEF ConsumerInv
<1>2. q.step = "Next" /\ q.op = "info" /\ q.id \in minted
  BY <1>1 DEF LookAtChannel, AtRead, ReaderHolds
<1>3. q.id \in PackageIds
  BY <1>2 DEF ConsumerInv, ConsumerTablesOK, TablesOK, PackagesTypeOK
<1>4. \A i \in DOMAIN q.results : EntityHolds(q.results[i]) /\ q.results[i].id = q.id
  BY <1>1, <1>2 DEF ReaderHolds
<1>5. q.results \in Seq(EntityRow) /\ q.others \in ReleaseTables
  BY DEF ReadRow
<1>6. PICK c \in DOMAIN read[h].others, fails \in BOOLEAN :
        read' = [read EXCEPT
          ![h].others = [d \in DOMAIN read[h].others \ {c} |-> read[h].others[d]],
          ![h].results =
            IF {i \in DOMAIN read[h].results : read[h].results[i].revision = read[h].others[c]} # {}
            THEN Append(@, Entity([[Quiet EXCEPT !.id = read[h].id, !.revision = read[h].others[c]]
                   EXCEPT !.hash = read[h].results[CHOOSE i \in {j \in DOMAIN read[h].results :
                            read[h].results[j].revision = read[h].others[c]} : TRUE].hash]))
            ELSE IF read[h].others[c] \in DOMAIN revisions[read[h].id] /\ ~fails
            THEN Append(@, Entity([[Quiet EXCEPT !.id = read[h].id, !.revision = read[h].others[c]]
                   EXCEPT !.hash = revisions[read[h].id][read[h].others[c]].digest]))
            ELSE @]
  BY DEF LookAtChannel
<1>7. PICK n : n = read[h].others[c]
  OBVIOUS
<1>8. n \in RevisionNumber /\ n \in 0..MaxRevision
  BY <1>1, <1>5, <1>7, MaxRevisionAssumption DEF ReleaseTables, RevisionNumber
<1>9. PICK rest \in ReleaseTables :
        rest = [d \in DOMAIN read[h].others \ {c} |-> read[h].others[d]]
  <2>1. PICK S \in SUBSET Channels : q.others \in [S -> RevisionNumber]
    BY <1>5 DEF ReleaseTables
  <2>2. [d \in DOMAIN q.others \ {c} |-> q.others[d]] \in [S \ {c} -> RevisionNumber]
        /\ S \ {c} \in SUBSET Channels
    BY <2>1
  <2> QED BY <1>1, <2>2 DEF ReleaseTables
<1>10. ASSUME NEW x \in Hash, CharmIsThere(q.id, n, x),
              read' = [read EXCEPT ![h] =
                [q EXCEPT !.others = rest,
                   !.results = Append(@, Entity([Quiet EXCEPT !.id = q.id, !.revision = n, !.hash = x]))]]
       PROVE  ConsumerInv'
  <2>1. PICK e : e = Entity([Quiet EXCEPT !.id = q.id, !.revision = n, !.hash = x])
    OBVIOUS
  <2>2. /\ e = [id |-> q.id, revision |-> n, hash |-> x, resources |-> NoRows, hashes |-> NoRows]
    BY <2>1 DEF Entity, Quiet
  <2>3. e \in EntityRow
    BY <1>3, <1>8, <2>2, QuietValues DEF EntityRow
  <2>4. EntityHolds(e) /\ e.id = q.id
    BY <1>2, <1>8, <1>10, <2>2, NoReferences DEF EntityHolds
  <2>5. PICK results \in Seq(EntityRow) : results = Append(q.results, e)
    BY <1>5, <2>3, OneMoreResult
  <2>6. \A i \in DOMAIN results : EntityHolds(results[i]) /\ results[i].id = q.id
    <3>1. \A i \in DOMAIN results :
            results[i] = e \/ (i \in DOMAIN q.results /\ results[i] = q.results[i])
      BY <1>5, <2>3, <2>5, OneMoreResult
    <3> QED BY <1>4, <2>4, <3>1
  <2>7. PICK r : r = [q EXCEPT !.others = rest, !.results = results]
    OBVIOUS
  <2>8. r = [q EXCEPT !.step = "Next", !.others = rest, !.results = results]
    BY <1>2, <2>7 DEF ReadRow
  <2>9. read' = [read EXCEPT ![h] = r]
    BY <1>10, <2>1, <2>5, <2>7
  <2> QED BY <1>1, <1>2, <2>6, <2>8, <2>9, InfoStep
<1>11. PICK cached :
         cached = {i \in DOMAIN read[h].results : read[h].results[i].revision = read[h].others[c]}
  OBVIOUS
<1>12. CASE cached # {}
  <2>1. PICK i : i = CHOOSE j \in cached : TRUE
    OBVIOUS
  <2>2. i \in DOMAIN q.results /\ q.results[i].revision = n
    BY <1>1, <1>7, <1>11, <1>12, <2>1
  <2>3. PICK x \in Hash : x = q.results[i].hash
    <3>1. q.results[i] \in EntityRow
      BY <1>5, <2>2
    <3> QED BY <3>1 DEF EntityRow
  <2>4. CharmIsThere(q.id, n, x)
    BY <1>4, <2>2, <2>3 DEF EntityHolds
  <2>5. read' = [read EXCEPT ![h].others = rest,
                   ![h].results = Append(@, Entity([[Quiet EXCEPT !.id = q.id, !.revision = n] EXCEPT !.hash = x]))]
    BY <1>1, <1>6, <1>7, <1>9, <1>11, <1>12, <2>1, <2>3
  <2>6. [[Quiet EXCEPT !.id = q.id, !.revision = n] EXCEPT !.hash = x]
          = [Quiet EXCEPT !.id = q.id, !.revision = n, !.hash = x]
    OBVIOUS
  <2>7. read' = [read EXCEPT ![h] =
                [q EXCEPT !.others = rest,
                   !.results = Append(@, Entity([Quiet EXCEPT !.id = q.id, !.revision = n, !.hash = x]))]]
    BY <1>1, <2>5, <2>6 DEF ConsumerInv
  <2> QED BY <1>10, <2>4, <2>7
<1>13. CASE cached = {} /\ n \in DOMAIN revisions[q.id] /\ ~fails
  <2>1. PICK x \in Hash : x = revisions[q.id][n].digest
    <3>1. IsTable(revisions[q.id], RevisionNumber, RevisionRow)
      BY <1>3 DEF ConsumerInv, ConsumerTablesOK, TablesOK, RevisionsTypeOK
    <3> QED BY <1>13, <3>1 DEF IsTable, RevisionRow, Hash
  <2>2. CharmIsThere(q.id, n, x)
    BY <1>13, <2>1 DEF CharmIsThere
  <2>3. read' = [read EXCEPT ![h].others = rest,
                   ![h].results = Append(@, Entity([[Quiet EXCEPT !.id = q.id, !.revision = n] EXCEPT !.hash = x]))]
    BY <1>1, <1>6, <1>7, <1>9, <1>11, <1>13, <2>1
  <2>4. [[Quiet EXCEPT !.id = q.id, !.revision = n] EXCEPT !.hash = x]
          = [Quiet EXCEPT !.id = q.id, !.revision = n, !.hash = x]
    OBVIOUS
  <2>5. read' = [read EXCEPT ![h] =
                [q EXCEPT !.others = rest,
                   !.results = Append(@, Entity([Quiet EXCEPT !.id = q.id, !.revision = n, !.hash = x]))]]
    BY <1>1, <2>3, <2>4 DEF ConsumerInv
  <2> QED BY <1>10, <2>2, <2>5
<1>14. CASE cached = {} /\ (n \notin DOMAIN revisions[q.id] \/ fails)
  <2>1. read' = [read EXCEPT ![h].others = rest, ![h].results = @]
    BY <1>1, <1>6, <1>7, <1>9, <1>11, <1>14
  <2>2. PICK results \in Seq(EntityRow) : results = q.results
    BY <1>5
  <2>3. PICK r : r = [q EXCEPT !.others = rest, !.results = results]
    OBVIOUS
  <2>4. r = [q EXCEPT !.step = "Next", !.others = rest, !.results = results]
    BY <1>2, <2>3 DEF ReadRow
  <2>5. read' = [read EXCEPT ![h] = r]
    BY <1>1, <2>1, <2>2, <2>3 DEF ConsumerInv
  <2> QED BY ZenonT(60), <1>1, <1>2, <1>4, <2>2, <2>4, <2>5, InfoStep
<1> QED BY <1>12, <1>13, <1>14

\* Any step of a reader
LEMMA ReaderKeepsInv ==
  ASSUME ConsumerInv, NEW h \in Readers, Reader(h)
  PROVE  ConsumerInv'
<1>1. UNCHANGED consumerTables
  BY DEF Reader
<1>2. CASE Reads(h)
  BY <1>1, <1>2, EndStep, NextStep, ViewStep, ResolveStep, RevisionStep, DefinitionStep,
     ReferenceStep, OverridesStep, ComposeStep, ReleasesStep, ChannelStep DEF Reads
<1> QED BY <1>1, <1>2, AskStep, EndStep DEF Reader

LEMMA InitConsumerInv == ConsumerInit => ConsumerInv
<1> SUFFICES ASSUME ConsumerInit PROVE ConsumerInv
  OBVIOUS
<1>1. TablesOK
  <2> USE DEF ConsumerInit, InitRepository, NoRows
  <2>1. PackagesTypeOK /\ RevisionsTypeOK /\ UploadsTypeOK
    BY DEF PackagesTypeOK, RevisionsTypeOK, UploadsTypeOK, IsTable
  <2>2. RevisionsContiguous
    <3>1. 0 \in 0..MaxRevision /\ DOMAIN NoRows = 1..0
      BY MaxRevisionAssumption
    <3> QED BY <3>1 DEF RevisionsContiguous
  <2>3. ReleasesResolve /\ NoOrphanRows /\ ArtifactsStored
    BY DEF ReleasesResolve, NoOrphanRows, ArtifactsStored
  <2> QED BY <2>1, <2>2, <2>3 DEF TablesOK
<1>2. ResourceTablesOK
  <2>1. \A p \in PackageIds : resourceRevisions[p] = NoResourceRows
    BY DEF ConsumerInit, InitResourceTables
  <2>2. \A r \in Resources : NoResourceRows[r] = NoRows /\ DOMAIN NoRows = {}
    BY DEF NoResourceRows, NoRows
  <2>3. ResourceRowsOK
    BY <2>2 DEF ConsumerInit, InitResourceTables, ResourceRowsOK, NoResourceRows, NoRows, IsTable
  <2>4. ResourceRevisionsContiguous
    <3>1. 0 \in 0..MaxRevision /\ DOMAIN NoRows = 1..0
      BY <2>2, MaxRevisionAssumption DEF NoRows
    <3> QED BY <2>1, <2>2, <3>1 DEF ResourceRevisionsContiguous
  <2>5. NoOrphanResources /\ ResourcesServeTheirHash
    BY <2>1, <2>2 DEF NoOrphanResources, ResourcesServeTheirHash
  <2> QED BY <2>3, <2>4, <2>5 DEF ResourceTablesOK
<1>3. ColumnsOK
  BY DEF ConsumerInit, InitRepository, ColumnsOK, NoRows
<1>4. read \in [Readers -> ReadRow] /\ \A h \in Readers : ReaderHolds(read[h])
  BY QuietIsFine DEF ConsumerInit
<1> QED BY <1>1, <1>2, <1>3, <1>4 DEF ConsumerInv, ConsumerTablesOK

-----------------------------------------------------------------------------
(* What the answers of consumer requests are worth. *)

\* What an entity names is there to download, as it was announced.
LEMMA EntityIsDownloadable ==
  ASSUME ConsumerTablesOK, NEW e, EntityHolds(e), Live(e.id)
  PROVE  /\ e.revision \in DOMAIN revisions[e.id]
         /\ LET row == revisions[e.id][e.revision] IN
              /\ ObjectKey(row.upload) \in DOMAIN blobs /\ e.hash = row.digest
              /\ Own(row.upload) => blobs[row.upload] = row.digest
         /\ \A r \in DOMAIN e.resources :
              /\ r \in definitions[e.id]
              /\ e.resources[r] \in DOMAIN resourceRevisions[e.id][r]
              /\ LET row == resourceRevisions[e.id][r][e.resources[r]] IN
                   /\ row.oci \/ ObjectKey(row.upload) \in DOMAIN blobs
                   /\ e.hashes[r] = row.digest
                   /\ Own(row.upload) => ServedContent(row) = row.digest
<1>1. e.id \in PackageIds
  BY DEF EntityHolds, ConsumerTablesOK, TablesOK, PackagesTypeOK
<1>2. /\ e.revision \in DOMAIN revisions[e.id]
      /\ e.hash = revisions[e.id][e.revision].digest
  BY DEF EntityHolds, CharmIsThere
<1>3. LET row == revisions[e.id][e.revision] IN
        /\ ObjectKey(row.upload) \in DOMAIN blobs
        /\ Own(row.upload) => blobs[row.upload] = row.digest
  BY <1>1, <1>2 DEF ConsumerTablesOK, TablesOK, ArtifactsStored
<1>4. ASSUME NEW r \in DOMAIN e.resources
      PROVE  /\ r \in definitions[e.id]
             /\ e.resources[r] \in DOMAIN resourceRevisions[e.id][r]
             /\ LET row == resourceRevisions[e.id][r][e.resources[r]] IN
                  /\ row.oci \/ ObjectKey(row.upload) \in DOMAIN blobs
                  /\ e.hashes[r] = row.digest
                  /\ Own(row.upload) => ServedContent(row) = row.digest
  <2>1. /\ r \in Resources /\ e.resources[r] \in DOMAIN resourceRevisions[e.id][r]
        /\ resourceRevisions[e.id][r][e.resources[r]].digest = e.hashes[r]
    BY DEF EntityHolds, ResourceIsThere
  <2>2. r \in definitions[e.id]
    BY <1>1, <2>1 DEF ConsumerTablesOK, ResourceTablesOK, NoOrphanResources
  <2>3. LET row == resourceRevisions[e.id][r][e.resources[r]] IN
          /\ row.oci \/ ObjectKey(row.upload) \in DOMAIN blobs
          /\ Own(row.upload) => ServedContent(row) = row.digest
    BY <1>1, <2>1 DEF ConsumerTablesOK, ResourceTablesOK, ResourcesServeTheirHash
  <2> QED BY <2>1, <2>2, <2>3
<1> QED BY <1>2, <1>3, <1>4

LEMMA AnswersAreDownloadable == ConsumerInv => AnswersStayDownloadable
<1> SUFFICES ASSUME ConsumerInv, NEW h \in Readers, NEW i \in DOMAIN read[h].results,
                    NEW e, e = read[h].results[i], e # ErrorEntry, Live(e.id)
             PROVE  /\ e.revision \in DOMAIN revisions[e.id]
                    /\ LET row == revisions[e.id][e.revision] IN
                         /\ ObjectKey(row.upload) \in DOMAIN blobs /\ e.hash = row.digest
                         /\ Own(row.upload) => blobs[row.upload] = row.digest
                    /\ \A r \in DOMAIN e.resources :
                         /\ r \in definitions[e.id]
                         /\ e.resources[r] \in DOMAIN resourceRevisions[e.id][r]
                         /\ LET row == resourceRevisions[e.id][r][e.resources[r]] IN
                              /\ row.oci \/ ObjectKey(row.upload) \in DOMAIN blobs
                              /\ e.hashes[r] = row.digest
                              /\ Own(row.upload) => ServedContent(row) = row.digest
  BY ZenonT(60) DEF AnswersStayDownloadable
<1>1. EntityHolds(e)
  BY DEF ConsumerInv, ReaderHolds
<1> QED BY <1>1, EntityIsDownloadable DEF ConsumerInv

LEMMA ReferencesAreResolved == ConsumerInv => ResourcesAsReleased
<1> SUFFICES ASSUME ConsumerInv, NEW h \in Readers, NEW q \in ReadRow, q = read[h], ReaderHolds(q),
                    q.step = "Resources", q.todo = {}, q.overriding, q.op # "find"
             PROVE  q.resources = [r \in Named(q.bundle) |->
                      IF r \in Named(q.overrides) THEN q.overrides[r] ELSE q.bundle[r]]
  BY DEF ResourcesAsReleased, ConsumerInv
<1>1. Pending(q) = {} /\ GatheredSoFar(q)
  BY DEF ReaderHolds, Pending, Gathering
<1>2. /\ DOMAIN q.resources = Named(q.bundle)
      /\ \A r \in DOMAIN q.resources :
           q.resources[r] = IF r \in Named(q.overrides) THEN q.overrides[r] ELSE q.bundle[r]
  BY <1>1 DEF GatheredSoFar
<1>3. q.resources = [r \in DOMAIN q.resources |-> q.resources[r]]
  BY DEF ReadRow, References
<1> QED BY <1>2, <1>3

LEMMA PartsAreCounted == ConsumerInv => OneResultPerAction /\ SearchesSurviveDeletion
<1> SUFFICES ASSUME ConsumerInv PROVE OneResultPerAction /\ SearchesSurviveDeletion
  OBVIOUS
<1>1. ASSUME NEW h \in Readers, read[h].op = "refresh", read[h].outcome = "200"
      PROVE  Len(read[h].results) = read[h].actions
  <2>1. ReaderHolds(read[h])
    BY DEF ConsumerInv
  <2>2. read[h].step = "Answered"
    BY <1>1, <2>1 DEF ReaderHolds
  <2>3. Accounted(read[h])
    BY <1>1, <2>1 DEF ReaderHolds
  <2> QED BY <1>1, <2>2, <2>3 DEF Accounted
<1>2. SearchesSurviveDeletion
  BY DEF SearchesSurviveDeletion, ConsumerInv, ReaderHolds
<1> QED BY <1>1, <1>2 DEF OneResultPerAction

\* A reader moves no other.
LEMMA OthersRest ==
  ASSUME read \in [Readers -> ReadRow], NEW k \in Readers, Reader(k), NEW h \in Readers \ {k}
  PROVE  read'[h] = read[h]
<1>1. CASE Ask(k) \/ Unavailable(k) \/ Forget(k)
  BY <1>1 DEF Ask, StartRefresh, SearchPackages, StartInfo, Unavailable, Ends, Forget
<1>2. CASE Reads(k)
  <2>1. CASE NextAction(k) \/ NextPackage(k)
    <3>1. CASE NextAction(k)
      <4>1. CASE read' = [read EXCEPT ![k].left = @ - 1, ![k].results = Append(@, ErrorEntry)]
        BY <4>1
      <4>2. CASE \E p \in DOMAIN packages, c \in Channels \cup {None}, n \in 0..MaxRevision,
                    f \in References :
                   read' = [read EXCEPT ![k].step = "CanViewPackage", ![k].left = @ - 1,
                                        ![k].id = p, ![k].private = packages[p].private,
                                        ![k].asked = c, ![k].wanted = n, ![k].overrides = f]
        BY <4>2
      <4> QED BY <3>1, <4>1, <4>2 DEF NextAction
    <3>2. CASE NextPackage(k)
      BY <3>2 DEF NextPackage
    <3> QED BY <2>1, <3>1, <3>2
  <2>5. CASE Answer(k)
    BY <2>5 DEF Answer, Ends
  <2>6. CASE RequirePackageView(k)
    <3>1. (\E s : Goes(k, s)) \/ NotFound(k) \/ MissingRow(k)
      BY <2>6 DEF RequirePackageView
    <3>2. \A s : Goes(k, s) => read'[h] = read[h]
      BY DEF Goes
    <3>3. NotFound(k) => read'[h] = read[h]
      BY DEF NotFound
    <3>4. MissingRow(k) => read'[h] = read[h]
      BY DEF MissingRow, Ends
    <3> QED BY <3>1, <3>2, <3>3, <3>4
  <2>2. CASE \/ GetWantedRevision(k) \/ ResolveRelease(k) \/ ResolveDefaultRelease(k)
             \/ ResolveAnyRelease(k) \/ GetReleasedRevision(k)
    BY <2>2 DEF GetWantedRevision, ResolveRelease, ResolveDefaultRelease, ResolveAnyRelease,
                GetReleasedRevision, Selects, Goes, NotFound, MissingRow, Ends
  <2>3. CASE GetReferencedDefinition(k) \/ GetReferencedRevision(k)
    BY <2>3 DEF GetReferencedDefinition, GetReferencedRevision, MissingRow, Ends
  <2>4. CASE \/ StartOverrides(k) \/ Compose(k) \/ ListReleases(k) \/ LookAtChannel(k)
    BY <2>4 DEF StartOverrides, Compose, ListReleases, LookAtChannel
  <2> QED BY <1>2, <2>1, <2>2, <2>3, <2>4, <2>5, <2>6 DEF Reads
<1> QED BY <1>1, <1>2 DEF Reader

\* Only a missing row ends a refresh with 404.
LEMMA OnlyMissingRowsFail ==
  ASSUME read \in [Readers -> ReadRow], NEW h \in Readers, Reader(h),
         read[h].step # "Idle", read[h].op = "refresh", read[h].outcome # "404",
         read'[h].outcome = "404"
  PROVE  LET q == read[h] IN
         \/ ~Live(q.id)
         \/ q.step = "GetRevisionByNumber" /\ q.revision \notin DOMAIN revisions[q.id]
         \/ q.step = "Resources" /\ \E r \in q.todo : r \notin definitions[q.id]
         \/ /\ q.step = "GetResourceRevision"
            /\ (IF q.overriding THEN q.overrides[q.resource] ELSE q.bundle[q.resource])
                 \notin DOMAIN resourceRevisions[q.id][q.resource]
<1>1. PICK q \in ReadRow : q = read[h] /\ q.op = "refresh" /\ q.outcome # "404"
  OBVIOUS
<1>0. "outcome" \in DOMAIN q /\ "outcome" \in DOMAIN Quiet
  BY DEF ReadRow, Quiet
<1>2. Quiet.outcome = "none" /\ \A s : GoesOn(q, s).outcome = "none"
  BY <1>1 DEF Quiet, GoesOn
<1>3. \A x : Ends(h, x) => read'[h].outcome = x
  BY DEF Ends, Ended, Quiet
<1>4. ~NotFound(h)
  BY <1>1, <1>2 DEF NotFound
<1>5. ~(\E s : Goes(h, s)) /\ ~(\E c : Selects(h, c))
  BY <1>0, <1>1 DEF Goes, Selects
<1>6. ~Ask(h) /\ ~Forget(h)
  BY <1>0, <1>2 DEF Ask, StartRefresh, SearchPackages, StartInfo, Forget, AtRead
<1>7. ~Unavailable(h) /\ ~Answer(h)
  BY <1>3 DEF Unavailable, Answer
<1>8. ~NextAction(h) /\ ~NextPackage(h) /\ ~StartOverrides(h) /\ ~ListReleases(h) /\ ~LookAtChannel(h)
  <2>1. ~NextAction(h)
    <3> SUFFICES ASSUME NextAction(h) PROVE FALSE
      OBVIOUS
    <3>1. CASE \E p \in DOMAIN packages, c \in Channels \cup {None}, n \in 0..MaxRevision,
                  f \in References :
                 read' = [read EXCEPT ![h].step = "CanViewPackage", ![h].left = @ - 1, ![h].id = p,
                                      ![h].private = packages[p].private,
                                      ![h].asked = c, ![h].wanted = n, ![h].overrides = f]
      <4>1. PICK p \in DOMAIN packages, c \in Channels \cup {None}, n \in 0..MaxRevision,
                 f \in References :
               read' = [read EXCEPT ![h].step = "CanViewPackage", ![h].left = @ - 1, ![h].id = p,
                                    ![h].private = packages[p].private,
                                    ![h].asked = c, ![h].wanted = n, ![h].overrides = f]
        BY <3>1
      <4>2. PICK r : r = [q EXCEPT !.step = "CanViewPackage", !.left = @ - 1, !.id = p,
                                   !.private = packages[p].private,
                                   !.asked = c, !.wanted = n, !.overrides = f]
        OBVIOUS
      <4>3. read' = [read EXCEPT ![h] = r]
        BY <1>1, <4>1, <4>2
      <4>4. r.outcome = q.outcome
        BY <4>2 DEF ReadRow
      <4> QED BY <1>1, <4>3, <4>4
    <3>2. CASE read' = [read EXCEPT ![h].left = @ - 1, ![h].results = Append(@, ErrorEntry)]
      <4>1. PICK results : results = Append(q.results, ErrorEntry)
        OBVIOUS
      <4>2. PICK r : r = [q EXCEPT !.left = @ - 1, !.results = results]
        OBVIOUS
      <4>3. read' = [read EXCEPT ![h] = r]
        BY <1>1, <3>2, <4>1, <4>2
      <4>4. r.outcome = q.outcome
        BY <4>2 DEF ReadRow
      <4> QED BY <1>1, <4>3, <4>4
    <3> QED BY <3>1, <3>2 DEF NextAction
  <2>4. ~NextPackage(h)
    <3> SUFFICES ASSUME NextPackage(h) PROVE FALSE
      OBVIOUS
    <3>1. PICK pair \in q.found :
            read' = [read EXCEPT ![h].step = "CanViewPackage", ![h].found = @ \ {pair},
                                 ![h].id = pair[1], ![h].private = pair[2]]
      BY <1>1 DEF NextPackage
    <3>2. PICK r : r = [q EXCEPT !.step = "CanViewPackage", !.found = @ \ {pair},
                                 !.id = pair[1], !.private = pair[2]]
      OBVIOUS
    <3>3. read' = [read EXCEPT ![h] = r]
      BY <1>1, <3>1, <3>2
    <3>4. r.outcome = q.outcome
      BY <3>2 DEF ReadRow
    <3> QED BY <1>1, <3>3, <3>4
  <2>2. ~StartOverrides(h) /\ ~ListReleases(h)
    BY <1>0, <1>1 DEF StartOverrides, ListReleases
  <2>3. ~LookAtChannel(h)
    <3>1. ASSUME LookAtChannel(h) PROVE q.op = "info"
      BY <1>1, <3>1 DEF LookAtChannel, AtRead
    <3> QED BY <1>1, <3>1
  <2> QED BY <2>1, <2>2, <2>3, <2>4
<1>9. ~Compose(h)
  BY <1>1, <1>2 DEF Compose
<1>10. ~ResolveRelease(h) /\ ~ResolveDefaultRelease(h) /\ ~ResolveAnyRelease(h)
  BY <1>4, <1>5 DEF ResolveRelease, ResolveDefaultRelease, ResolveAnyRelease
<1>11. ~GetWantedRevision(h)
  BY <1>0, <1>1, <1>4 DEF GetWantedRevision
<1>12. CASE RequirePackageView(h)
  <2>1. ~Live(read[h].id)
    BY <1>4, <1>5, <1>12 DEF RequirePackageView
  <2> QED BY <2>1
<1>13. CASE GetReleasedRevision(h)
  BY <1>0, <1>1, <1>13 DEF GetReleasedRevision, AtRead
<1>14. CASE GetReferencedDefinition(h)
  <2>1. PICK x \in q.todo :
          \/ x \notin definitions[q.id]
          \/ read' = [read EXCEPT ![h].todo = @ \ {x}]
          \/ read' = [read EXCEPT ![h].step = "GetResourceRevision", ![h].resource = x,
                                  ![h].todo = @ \ {x}]
    BY <1>1, <1>14 DEF GetReferencedDefinition
  <2>2. read' # [read EXCEPT ![h].todo = @ \ {x}]
    BY <1>0, <1>1
  <2>3. read' # [read EXCEPT ![h].step = "GetResourceRevision", ![h].resource = x,
                             ![h].todo = @ \ {x}]
    BY <1>0, <1>1
  <2>4. q.step = "Resources"
    BY <1>1, <1>14 DEF GetReferencedDefinition, AtRead
  <2> QED BY <1>1, <2>1, <2>2, <2>3, <2>4
<1>15. CASE GetReferencedRevision(h)
  <2> DEFINE n == IF q.overriding THEN q.overrides[q.resource] ELSE q.bundle[q.resource]
             row == resourceRevisions[q.id][q.resource][n]
  <2>1. ASSUME read' = [read EXCEPT ![h].step = "Resources", ![h].resource = None,
                                    ![h].resources = WithRow(@, q.resource, n),
                                    ![h].hashes = WithRow(@, q.resource, row.digest)]
        PROVE  FALSE
    <3>1. PICK r : r = [q EXCEPT !.step = "Resources", !.resource = None,
                                 !.resources = WithRow(@, q.resource, n),
                                 !.hashes = WithRow(@, q.resource, row.digest)]
      OBVIOUS
    <3>2. read' = [read EXCEPT ![h] = r]
      BY <1>1, <2>1, <3>1
    <3>3. r.outcome = q.outcome
      BY <3>1 DEF ReadRow
    <3> QED BY <1>1, <3>2, <3>3
  <2>2. q.step = "GetResourceRevision" /\ n \notin DOMAIN resourceRevisions[q.id][q.resource]
    BY <1>1, <1>15, <2>1 DEF GetReferencedRevision, AtRead
  <2> QED BY <1>1, <2>2
<1>16. Reads(h)
  BY <1>6, <1>7 DEF Reader
<1>17. \/ RequirePackageView(h) \/ GetReleasedRevision(h)
       \/ GetReferencedDefinition(h) \/ GetReferencedRevision(h)
  BY <1>7, <1>8, <1>9, <1>10, <1>11, <1>16 DEF Reads
<1> QED BY <1>12, <1>13, <1>14, <1>15, <1>17

\* The row that a refresh did not find is the package, or one that was asked for.
LEMMA ReadersFailForMissingRows ==
  ASSUME ConsumerInv, (\E k \in Readers : Reader(k)) \/ UNCHANGED read
  PROVE  \A h \in Readers : FailsForMissingRow(h)
<1> SUFFICES ASSUME NEW h \in Readers, read[h].op = "refresh", read[h].outcome # "404",
                    read'[h].outcome = "404"
             PROVE  FailsForMissingRow(h)
  BY DEF FailsForMissingRow
<1>1. PICK q \in ReadRow : q = read[h] /\ ReaderHolds(q)
  BY DEF ConsumerInv
<1>2. Reader(h)
  BY OthersRest DEF ConsumerInv
<1> DEFINE n == IF q.overriding THEN q.overrides[q.resource] ELSE q.bundle[q.resource]
<1>3. \/ ~Live(q.id)
      \/ q.step = "GetRevisionByNumber" /\ q.revision \notin DOMAIN revisions[q.id]
      \/ q.step = "Resources" /\ \E r \in q.todo : r \notin definitions[q.id]
      \/ q.step = "GetResourceRevision" /\ n \notin DOMAIN resourceRevisions[q.id][q.resource]
  <2>1. q.step # "Idle"
    BY <1>1 DEF ReaderHolds
  <2> QED BY <1>1, <1>2, <2>1, OnlyMissingRowsFail DEF ConsumerInv
<1>4. CASE ~Live(q.id)
  BY <1>1, <1>4 DEF FailsForMissingRow
<1>5. CASE q.step = "GetRevisionByNumber" /\ q.revision \notin DOMAIN revisions[q.id]
  BY <1>1, <1>4, <1>5 DEF ReaderHolds
<1>6. q.step \in Gathering => GatheredSoFar(q)
  BY <1>1 DEF ReaderHolds
<1>7. CASE q.step = "Resources" /\ \E r \in q.todo : r \notin definitions[q.id]
  <2>1. PICK r \in q.todo : r \notin definitions[q.id] /\ q.step = "Resources"
    BY <1>7
  <2>2. GatheredSoFar(q) /\ r \in Pending(q)
    BY <1>6, <2>1 DEF Gathering, Pending
  <2>3. IF q.overriding THEN r \in DOMAIN q.resources \cap Named(q.overrides) ELSE r \in DOMAIN q.bundle
    BY <2>2 DEF GatheredSoFar
  <2> QED BY <1>1, <2>1, <2>3 DEF FailsForMissingRow
<1>8. CASE q.step = "GetResourceRevision" /\ n \notin DOMAIN resourceRevisions[q.id][q.resource]
  <2>3. GatheredSoFar(q) /\ q.resource \in Pending(q)
    BY <1>6, <1>8 DEF Gathering, Pending
  <2>4. IF q.overriding THEN q.resource \in DOMAIN q.resources \cap Named(q.overrides)
        ELSE q.resource \in DOMAIN q.bundle
    BY <2>3 DEF GatheredSoFar
  <2> QED BY <1>1, <1>8, <2>4 DEF FailsForMissingRow
<1> QED BY <1>3, <1>4, <1>5, <1>7, <1>8

LEMMA ConsumersAreTyped == ConsumerInv => ConsumerTypeOK
<1> SUFFICES ASSUME ConsumerInv PROVE ConsumerTypeOK
  OBVIOUS
<1>1. ASSUME NEW p \in PackageIds
      PROVE  /\ DOMAIN refs[p] = DOMAIN releases[p] /\ DOMAIN refs[p] \subseteq Channels
             /\ \A c \in DOMAIN refs[p] : refs[p][c] \in References
             /\ defaults[p] \in Tracks \cup {None}
  BY DEF ConsumerInv, ConsumerTablesOK, ColumnsOK, TablesOK, RevisionsTypeOK, IsTable
<1>2. ASSUME NEW h \in Readers, NEW q \in ReadRow, q = read[h], ReaderHolds(q)
      PROVE  /\ q.step \in ReaderSteps
             /\ q.op \in {"refresh", "find", "info", "none"}
             /\ q.actions \in 0..MaxActions /\ q.left \in 0..q.actions
             /\ q.found \subseteq PackageIds \X BOOLEAN
             /\ q.id \in PackageIds \cup {None} /\ q.private \in BOOLEAN
             /\ q.asked \in Channels \cup {None}
             /\ q.wanted \in 0..MaxRevision /\ {q.overrides, q.bundle} \subseteq References
             /\ q.todo \subseteq Resources /\ q.resource \in Resources \cup {None}
             /\ q.overriding \in BOOLEAN
             /\ IsEntity(Entity(q)) /\ \A i \in DOMAIN q.results : IsEntity(q.results[i])
             /\ DOMAIN q.others \subseteq Channels
             /\ q.outcome \in {"none", "200", "404", "unavailable"}
  <2>1. q.left \in 0..q.actions
    BY <1>2, MaxActionsAssumption DEF ReadRow, ReaderHolds
  <2>2. ASSUME NEW e \in EntityRow, DOMAIN e.hashes = DOMAIN e.resources PROVE IsEntity(e)
    <3>1. PICK N \in SUBSET Resources : e.hashes \in [N -> Hash]
      BY DEF EntityRow, Hashes
    <3> QED BY <2>2, <3>1 DEF EntityRow, IsEntity, IsHash, Hash
  <2>3. DOMAIN q.hashes = DOMAIN q.resources
    <3>1. q.step \in Gathering \/ q.hashes = q.resources
      <4>1. CASE q.step \in Resolving \cup {"ListReleases", "Next"}
        BY <1>2, <4>1 DEF ReaderHolds, Fresh
      <4>2. CASE q.step = "Idle"
        BY <1>2, <4>2 DEF ReaderHolds, Quiet
      <4>3. CASE q.step = "Answered"
        BY <1>2, <4>3 DEF ReaderHolds
      <4>4. q.step \in ReaderSteps
        BY <1>2 DEF ReadRow
      <4> QED BY <4>1, <4>2, <4>3, <4>4 DEF Resolving, Gathering, ReaderSteps
    <3> QED BY <1>2, <3>1 DEF ReaderHolds, EntityHolds
  <2>4. IsEntity(Entity(q))
    <3>1. PICK e : e = Entity(q)
      OBVIOUS
    <3>2. e \in EntityRow /\ DOMAIN e.hashes = DOMAIN e.resources
      BY <1>2, <2>3, <3>1 DEF Entity, EntityRow, ReadRow
    <3> QED BY <2>2, <3>1, <3>2
  <2>5. ASSUME NEW i \in DOMAIN q.results PROVE IsEntity(q.results[i])
    <3>1. PICK e \in EntityRow : e = q.results[i]
      BY <1>2 DEF ReadRow
    <3>2. DOMAIN e.hashes = DOMAIN e.resources
      <4>1. CASE e = ErrorEntry
        BY <4>1 DEF ErrorEntry, Entity, Quiet
      <4>2. CASE EntityHolds(e)
        BY <4>2 DEF EntityHolds
      <4> QED BY <1>2, <3>1, <4>1, <4>2 DEF ReaderHolds
    <3> QED BY <2>2, <3>1, <3>2
  <2>6. DOMAIN q.others \subseteq Channels
    BY <1>2 DEF ReadRow, ReleaseTables
  <2> QED BY <1>2, <2>1, <2>4, <2>5, <2>6 DEF ReadRow, Outcomes
<1>3. ASSUME NEW h \in Readers
      PROVE  read[h] \in ReadRow /\ ReaderHolds(read[h])
  BY DEF ConsumerInv
<1> QED BY <1>1, <1>2, <1>3 DEF ConsumerTypeOK

-----------------------------------------------------------------------------
(* What a client has been promised. *)

Algorithms == {"sha-256", "sha-384", "sha-512", "sha3-384"}
DigestTables == UNION {[N -> Algorithms \X Hash] : N \in SUBSET Algorithms}

PromiseRow == [id       : PackageIds \cup {None},
               resource : Resources \cup {None},
               revision : 0..MaxRevision,
               digests  : DigestTables]

ClientRow ==
  [step     : ClientSteps,
   op       : Listings \cup {"download", "none"},
   id       : PackageIds \cup {None},
   private  : BOOLEAN,
   channels : ReleaseTables,
   todo     : SUBSET Resources,
   resource : Resources \cup {None},
   promised : SUBSET PromiseRow,
   wanted   : PromiseRow,
   upload   : Uploads \cup {None},
   served   : Hash,
   outcome  : {"none", "200", "403", "404", "500", "unavailable"}]

DigestsMatch(digests, x) == \A name \in DOMAIN digests : digests[name][2] = x

\* A promise can be kept, as long as its package is there.
PromiseHolds(e) ==
  /\ e.id \in minted /\ e.revision \in RevisionNumber
  /\ Live(e.id) /\ e.resource = None =>
       /\ e.revision \in DOMAIN revisions[e.id]
       /\ DigestsMatch(e.digests, revisions[e.id][e.revision].digest)
  /\ Live(e.id) /\ e.resource # None =>
       /\ e.revision \in DOMAIN resourceRevisions[e.id][e.resource]
       /\ DigestsMatch(e.digests, resourceRevisions[e.id][e.resource][e.revision].digest)

\* The rows of a listing lead to revisions, however late they are worked through.
ChannelsLead(p, channels) ==
  Live(p) => \A c \in DOMAIN channels : channels[c] \in DOMAIN revisions[p]

ClientHolds(q) ==
  /\ q.step # "Idle" <=> q.op # "none"
  /\ q.step # "Answered" => q.outcome = "none"
  /\ q.step # "Idle" => q.id \in minted
  /\ \A e \in q.promised : PromiseHolds(e)
  /\ q.op = "download" => PromiseHolds(q.wanted) /\ q.id = q.wanted.id
  /\ q.step \in {"ListReleases", "Releases"} => q.op = "releases"
  /\ q.step = "Releases" => ChannelsLead(q.id, q.channels)
  /\ q.step \in {"ListRevisions", "ListResourceDefinitions", "Definitions"} =>
       q.op \notin {"download", "releases"}
  /\ q.step = "GetRevisionByNumber" => q.op = "download" /\ q.wanted.resource = None
  /\ q.step = "GetResourceDefinition" =>
       \/ q.op = "resource-revisions"
       \/ q.op = "download" /\ q.wanted.resource # None
  /\ q.step = "ListResourceRevisions" =>
       /\ q.resource \in Resources
       /\ \/ q.op = "resource-revisions"
          \/ q.op = "download" /\ q.resource = q.wanted.resource
  /\ q.step = "GetObject" =>
       /\ q.op = "download" /\ q.upload \in Uploads /\ ObjectKey(q.upload) \in DOMAIN blobs
       /\ Own(q.upload) => DigestsMatch(q.wanted.digests, blobs[q.upload])
  /\ q.op = "download" /\ q.outcome = "200" /\ Own(q.upload) =>
       DigestsMatch(q.wanted.digests, q.served)
  /\ q.op \in {"download", "releases"} /\ q.outcome = "404" => ~Live(q.id)
  /\ q.op = "download" => q.outcome # "500"

DownloadsInv ==
  /\ ConsumerInv
  /\ client \in [Readers -> ClientRow]
  /\ \A h \in Readers : ClientHolds(client[h])

\* Digests are those of the content they were computed of.
LEMMA DigestsAreOfContent ==
  /\ \A x \in Hash : \A d \in {EntityDigests(x), ListedDigests(x), ResourceDigests(x)} :
       d \in DigestTables /\ DigestsMatch(d, x)
  /\ NoRows \in DigestTables /\ \A x : DigestsMatch(NoRows, x)
<1>1. ASSUME NEW x \in Hash
      PROVE  EntityDigests(x) \in DigestTables /\ DigestsMatch(EntityDigests(x), x)
  <2>1. EntityDigests(x) \in [{"sha-256"} -> Algorithms \X Hash]
        /\ EntityDigests(x)["sha-256"][2] = x /\ {"sha-256"} \in SUBSET Algorithms
    BY DEF EntityDigests, UploadColumns, Digest, Algorithms
  <2> QED BY <2>1 DEF DigestTables, DigestsMatch
<1>2. ASSUME NEW x \in Hash
      PROVE  ListedDigests(x) \in DigestTables /\ DigestsMatch(ListedDigests(x), x)
  <2>1. ListedDigests(x) \in [{"sha3-384"} -> Algorithms \X Hash]
        /\ ListedDigests(x)["sha3-384"][2] = x /\ {"sha3-384"} \in SUBSET Algorithms
    BY DEF ListedDigests, UploadColumns, Digest, Algorithms
  <2> QED BY <2>1 DEF DigestTables, DigestsMatch
<1>3. ASSUME NEW x \in Hash
      PROVE  ResourceDigests(x) \in DigestTables /\ DigestsMatch(ResourceDigests(x), x)
  <2>1. DOMAIN ResourceDigests(x) = Algorithms
        /\ \A name \in Algorithms : ResourceDigests(x)[name] \in Algorithms \X Hash
                                    /\ ResourceDigests(x)[name][2] = x
    BY DEF ResourceDigests, UploadColumns, Digest, Algorithms
  <2>2. ResourceDigests(x) = [name \in DOMAIN ResourceDigests(x) |-> ResourceDigests(x)[name]]
    BY DEF ResourceDigests
  <2>3. ResourceDigests(x) \in [Algorithms -> Algorithms \X Hash]
    BY <2>1, <2>2
  <2> QED BY <2>1, <2>3 DEF DigestTables, DigestsMatch
<1>4. NoRows \in DigestTables
  <2>1. NoRows \in [{} -> Algorithms \X Hash] /\ {} \in SUBSET Algorithms
    BY DEF NoRows
  <2> QED BY <2>1 DEF DigestTables
<1>5. \A x : DigestsMatch(NoRows, x)
  BY DEF DigestsMatch, NoRows
<1> QED BY <1>1, <1>2, <1>3, <1>4, <1>5

LEMMA PromiseLasts ==
  ASSUME ConsumerTablesOK, Lasts, NEW e \in PromiseRow, PromiseHolds(e)
  PROVE  PromiseHolds(e)'
<1>1. minted \subseteq minted' /\ minted \subseteq PackageIds
  BY DEF Lasts, Keeps, TablesGrow, ConsumerTablesOK, TablesOK, PackagesTypeOK
<1>2. Live(e.id)' => Live(e.id) /\ e.id \in minted \cap DOMAIN packages'
  BY DEF Lasts, Keeps, TablesGrow, Live, PromiseHolds
<1>3. ASSUME Live(e.id)', e.resource = None
      PROVE  /\ e.revision \in DOMAIN revisions'[e.id]
             /\ DigestsMatch(e.digests, revisions'[e.id][e.revision].digest)
  BY <1>2, <1>3 DEF PromiseHolds, Lasts, RevisionsStay
<1>4. ASSUME Live(e.id)', e.resource # None
      PROVE  /\ e.revision \in DOMAIN resourceRevisions'[e.id][e.resource]
             /\ DigestsMatch(e.digests, resourceRevisions'[e.id][e.resource][e.revision].digest)
  <2>1. e.resource \in Resources
    BY <1>4 DEF PromiseRow
  <2> QED BY <1>2, <1>4, <2>1 DEF PromiseHolds, Lasts, Keeps, ContentStays, SameContent
<1> QED BY <1>1, <1>3, <1>4 DEF PromiseHolds

LEMMA ClientLasts ==
  ASSUME ConsumerTablesOK, Lasts, NEW q \in ClientRow, ClientHolds(q)
  PROVE  ClientHolds(q)'
<1>1. minted \subseteq minted' /\ (q.id \in minted /\ Live(q.id)' => Live(q.id))
  BY DEF Lasts, Keeps, TablesGrow, Live
<1>2. \A e \in q.promised : PromiseHolds(e)'
  BY PromiseLasts DEF ClientHolds, ClientRow
<1>3. PromiseHolds(q.wanted) => PromiseHolds(q.wanted)'
  BY PromiseLasts DEF ClientRow
<1>4. q.id \in minted /\ ChannelsLead(q.id, q.channels) => ChannelsLead(q.id, q.channels)'
  <2> SUFFICES ASSUME q.id \in minted, ChannelsLead(q.id, q.channels), Live(q.id)',
                      NEW c \in DOMAIN q.channels
               PROVE  q.channels[c] \in DOMAIN revisions'[q.id]
    BY DEF ChannelsLead
  <2> QED BY <1>1 DEF ChannelsLead, Lasts, RevisionsStay, Live
<1>5. ASSUME q.upload \in Uploads, ObjectKey(q.upload) \in DOMAIN blobs
      PROVE  /\ ObjectKey(q.upload)' \in DOMAIN blobs'
             /\ Own(q.upload) => blobs'[q.upload] = blobs[q.upload]
  <2>1. ObjectKey(q.upload)' = ObjectKey(q.upload)
    BY DEF ObjectKey
  <2> QED BY <1>5, <2>1, KeyOfAnUpload DEF Lasts, Keeps, TablesGrow
<1>6. Own(q.upload)' = Own(q.upload)
  BY DEF Own
<1> QED BY <1>1, <1>2, <1>3, <1>4, <1>5, <1>6 DEF ClientHolds

\* Whoever writes moves no client.
LEMMA WriterKeepsClients ==
  ASSUME DownloadsInv, ConsumerTablesOK', Lasts, UNCHANGED <<read, client>>
  PROVE  DownloadsInv'
<1>1. ConsumerInv'
  BY WriterKeepsReaders DEF DownloadsInv
<1>2. ASSUME NEW h \in Readers PROVE ClientHolds(client[h])'
  <2>1. PICK q \in ClientRow : q = client[h] /\ q = client'[h] /\ ClientHolds(q)
    BY DEF DownloadsInv
  <2>2. ClientHolds(q)'
    BY <2>1, ClientLasts DEF DownloadsInv, ConsumerInv
  <2> QED BY <2>1, <2>2
<1> QED BY <1>1, <1>2 DEF DownloadsInv

\* Nor does a consumer request.
LEMMA ReaderKeepsClients ==
  ASSUME DownloadsInv, NEW h \in Readers, Reader(h), UNCHANGED client
  PROVE  DownloadsInv'
<1>1. ConsumerInv' /\ UNCHANGED consumerTables
  BY ReaderKeepsInv DEF DownloadsInv, Reader
<1>2. \A q : ClientHolds(q) => ClientHolds(q)'
  BY <1>1 DEF ClientHolds, PromiseHolds, ChannelsLead, Live, consumerTables, tables
<1>3. ASSUME NEW k \in Readers PROVE ClientHolds(client[k])'
  <2>1. PICK q : q = client'[k] /\ ClientHolds(q)
    BY DEF DownloadsInv
  <2> QED BY <1>2, <2>1
<1> QED BY <1>1, <1>3 DEF DownloadsInv

\* A client moves itself only.
LEMMA ClientStep ==
  ASSUME DownloadsInv, UNCHANGED consumerVars, NEW h \in Readers, NEW r \in ClientRow,
         client' = [client EXCEPT ![h] = r], ClientHolds(r)
  PROVE  DownloadsInv'
<1>1. UNCHANGED consumerTables /\ UNCHANGED read
  BY DEF consumerVars
<1>2. ConsumerTablesOK'
  BY <1>1, ReadersKeep DEF DownloadsInv, ConsumerInv
<1>3. UNCHANGED <<minted, packages, revisions, resourceRevisions, blobs>>
  BY <1>1 DEF consumerTables, tables
<1>4. \A q : ReaderHolds(q) => ReaderHolds(q)'
  BY <1>3, HoldsWhileTablesStay
<1>5. \A q : ClientHolds(q) => ClientHolds(q)'
  BY <1>3 DEF ClientHolds, PromiseHolds, ChannelsLead, Live
<1>6. ASSUME NEW k \in Readers PROVE ReaderHolds(read[k])'
  <2>1. PICK q : q = read'[k] /\ ReaderHolds(q)
    BY <1>1 DEF DownloadsInv, ConsumerInv
  <2> QED BY <1>4, <2>1
<1>7. ASSUME NEW k \in Readers PROVE ClientHolds(client[k])'
  <2>1. PICK q : q = client'[k] /\ ClientHolds(q)
    BY DEF DownloadsInv
  <2> QED BY <1>5, <2>1
<1>8. ConsumerInv'
  BY <1>1, <1>2, <1>6 DEF DownloadsInv, ConsumerInv
<1> QED BY <1>7, <1>8 DEF DownloadsInv

\* A client at rest
LEMMA NoClientIsFine ==
  NoClient \in ClientRow /\ ClientHolds(NoClient) /\ Nothing \in PromiseRow
<1>1. Nothing \in PromiseRow
  BY QuietValues, DigestsAreOfContent DEF Nothing, Promise, PromiseRow
<1>2. NoClient \in ClientRow
  BY <1>1, QuietValues DEF NoClient, ClientRow, ClientSteps, Listings
<1>3. /\ NoClient.step = "Idle" /\ NoClient.op = "none" /\ NoClient.outcome = "none"
      /\ NoClient.promised = {}
  BY DEF NoClient
<1>4. ClientHolds(NoClient)
  BY <1>3 DEF ClientHolds
<1> QED BY <1>1, <1>2, <1>4

\* An answer ends a request: what it asked for is there, unless its package is gone.
LEMMA AnswerToStep ==
  ASSUME DownloadsInv, UNCHANGED consumerVars, NEW h \in Readers, NEW q \in ClientRow,
         q.op # "none", q.id \in minted,
         q.op = "download" => PromiseHolds(q.wanted) /\ q.id = q.wanted.id,
         NEW outcome \in {"200", "403", "404", "500", "unavailable"},
         NEW promised \in SUBSET PromiseRow, NEW served \in Hash,
         client' = [client EXCEPT ![h] = AnswerTo(q, outcome, promised, served)],
         \A e \in promised : PromiseHolds(e),
         q.op = "download" /\ outcome = "200" /\ Own(q.upload) =>
           DigestsMatch(q.wanted.digests, served),
         q.op \in {"download", "releases"} /\ outcome = "404" => ~Live(q.id),
         q.op = "download" => outcome # "500"
  PROVE  DownloadsInv'
<1>2. PICK z \in ClientRow : z = NoClient
  BY NoClientIsFine
<1>3. PICK a : a = [z EXCEPT !.step = "Answered", !.op = q.op, !.id = q.id, !.wanted = q.wanted,
                             !.upload = q.upload]
  OBVIOUS
<1>4. /\ a \in ClientRow /\ a.step = "Answered" /\ a.op = q.op /\ a.id = q.id
      /\ a.wanted = q.wanted /\ a.upload = q.upload
  <2>1. /\ q.op \in Listings \cup {"download", "none"} /\ q.id \in PackageIds \cup {None}
        /\ q.wanted \in PromiseRow /\ "Answered" \in ClientSteps
        /\ q.upload \in Uploads \cup {None}
    BY DEF ClientRow, ClientSteps
  <2> QED BY <1>2, <1>3, <2>1 DEF ClientRow
<1>5. PICK r : r = [a EXCEPT !.promised = promised, !.served = served, !.outcome = outcome]
  OBVIOUS
<1>6. /\ r \in ClientRow
      /\ r.step = "Answered" /\ r.op = q.op /\ r.id = q.id /\ r.wanted = q.wanted
      /\ r.upload = q.upload
      /\ r.promised = promised /\ r.served = served /\ r.outcome = outcome
  BY <1>4, <1>5 DEF ClientRow
<1>7. ClientHolds(r)
  BY <1>6 DEF ClientHolds
<1>8. client' = [client EXCEPT ![h] = r]
  BY <1>2, <1>3, <1>5 DEF AnswerTo
<1> QED BY <1>6, <1>7, <1>8, ClientStep

LEMMA AnswersStep ==
  ASSUME DownloadsInv, UNCHANGED consumerVars, NEW h \in Readers, NEW q, q = client[h],
         q.step # "Idle", NEW outcome \in {"200", "403", "404", "500", "unavailable"},
         NEW promised \in SUBSET PromiseRow, NEW served \in Hash,
         Answers(h, outcome, promised, served),
         \A e \in promised : PromiseHolds(e),
         q.op = "download" /\ outcome = "200" /\ Own(q.upload) =>
           DigestsMatch(q.wanted.digests, served),
         q.op \in {"download", "releases"} /\ outcome = "404" => ~Live(q.id),
         q.op = "download" => outcome # "500"
  PROVE  DownloadsInv'
<1>1. q \in ClientRow /\ ClientHolds(q)
  BY DEF DownloadsInv
<1>2. /\ q.op # "none" /\ q.id \in minted
      /\ q.op = "download" => PromiseHolds(q.wanted) /\ q.id = q.wanted.id
  BY <1>1 DEF ClientHolds
<1>3. client' = [client EXCEPT ![h] = AnswerTo(q, outcome, promised, served)]
  BY DEF Answers
<1> QED BY <1>1, <1>2, <1>3, AnswerToStep

LEMMA FailsStep ==
  ASSUME DownloadsInv, UNCHANGED consumerVars, NEW h \in Readers, NEW q, q = client[h],
         q.step # "Idle", NEW outcome \in {"403", "404", "500", "unavailable"},
         Fails(h, outcome),
         q.op \in {"download", "releases"} /\ outcome = "404" => ~Live(q.id),
         q.op = "download" => outcome # "500"
  PROVE  DownloadsInv'
<1>1. q \in ClientRow /\ ClientHolds(q)
  BY DEF DownloadsInv
<1>2. q.promised \in SUBSET PromiseRow /\ \A e \in q.promised : PromiseHolds(e)
  BY <1>1 DEF ClientRow, ClientHolds
<1>3. None \in Hash
  BY DEF Hash
<1>4. Answers(h, outcome, q.promised, None)
  BY DEF Fails
<1>5. outcome # "200" /\ outcome \in {"200", "403", "404", "500", "unavailable"}
  OBVIOUS
<1> HIDE DEF Hash
<1> QED BY <1>2, <1>3, <1>4, <1>5, AnswersStep

\* A step of a listing that only moves on.
LEMMA ClientGoesStep ==
  ASSUME DownloadsInv, UNCHANGED consumerVars, NEW h \in Readers, NEW q, q = client[h],
         q.step \notin {"Idle", "Answered"},
         NEW s \in ClientSteps \ {"Idle", "Answered", "Releases", "ListResourceRevisions", "GetObject"},
         ClientGoes(h, s),
         s = "ListReleases" => q.op = "releases",
         s \in {"ListRevisions", "ListResourceDefinitions", "Definitions"} =>
           q.op \notin {"download", "releases"},
         s = "GetRevisionByNumber" => q.op = "download" /\ q.wanted.resource = None,
         s = "GetResourceDefinition" =>
           \/ q.op = "resource-revisions"
           \/ q.op = "download" /\ q.wanted.resource # None
  PROVE  DownloadsInv'
<1>1. q \in ClientRow /\ ClientHolds(q)
  BY DEF DownloadsInv
<1>2. PICK r : r = [q EXCEPT !.step = s]
  OBVIOUS
<1>3. r \in ClientRow
  BY <1>1, <1>2 DEF ClientRow
<1>4. /\ r.step = s /\ r.op = q.op /\ r.id = q.id /\ r.wanted = q.wanted
      /\ r.promised = q.promised /\ r.served = q.served /\ r.outcome = q.outcome
  BY <1>1, <1>2 DEF ClientRow
<1>5. ClientHolds(r)
  BY <1>1, <1>4 DEF ClientHolds
<1>6. client' = [client EXCEPT ![h] = r]
  BY <1>2 DEF ClientGoes, DownloadsInv
<1> QED BY <1>3, <1>5, <1>6, ClientStep

LEMMA StartListingStep ==
  ASSUME DownloadsInv, UNCHANGED consumerVars, NEW h \in Readers, StartListing(h)
  PROVE  DownloadsInv'
<1>1. PICK op \in Listings, p \in DOMAIN packages :
        client' = [client EXCEPT ![h] =
          [NoClient EXCEPT !.step = "CanViewPackage", !.op = op, !.id = p,
                           !.private = packages[p].private]]
  BY DEF StartListing
<1>2. p \in minted /\ p \in PackageIds /\ packages[p].private \in BOOLEAN
  BY DEF DownloadsInv, ConsumerInv, ConsumerTablesOK, TablesOK, PackagesTypeOK, IsTable, PackageRow
<1>3. PICK z \in ClientRow : z = NoClient /\ ClientHolds(z) /\ z.promised = {} /\ z.outcome = "none"
  BY NoClientIsFine DEF NoClient
<1>4. PICK r : r = [z EXCEPT !.step = "CanViewPackage", !.op = op, !.id = p,
                             !.private = packages[p].private]
  OBVIOUS
<1>5. r \in ClientRow
  BY ZenonT(60), <1>2, <1>3, <1>4 DEF ClientRow, ClientSteps
<1>6. /\ r.step = "CanViewPackage" /\ r.op = op /\ r.id = p
      /\ r.promised = {} /\ r.outcome = "none"
  BY <1>3, <1>4 DEF ClientRow
<1>7. ClientHolds(r)
  BY <1>2, <1>6 DEF ClientHolds, Listings
<1>8. client' = [client EXCEPT ![h] = r]
  BY <1>1, <1>3, <1>4
<1> QED BY <1>5, <1>7, <1>8, ClientStep

LEMMA MayViewStep ==
  ASSUME DownloadsInv, UNCHANGED consumerVars, NEW h \in Readers, MayView(h)
  PROVE  DownloadsInv'
<1>1. PICK q : q = client[h] /\ q.step = "CanViewPackage" /\ q \in ClientRow /\ ClientHolds(q)
  BY DEF DownloadsInv, MayView, AtClient
<1>2. PICK s : s = CASE q.op = "releases"           -> "ListReleases"
                     [] q.op = "revisions"          -> "ListRevisions"
                     [] q.op = "resources"          -> "ListResourceDefinitions"
                     [] q.op = "resource-revisions" -> "GetResourceDefinition"
                     [] OTHER -> IF q.wanted.resource = None THEN "GetRevisionByNumber"
                                 ELSE "GetResourceDefinition"
  OBVIOUS
<1>3. ClientGoes(h, s) \/ Fails(h, "403") \/ (~Live(q.id) /\ Fails(h, "404"))
  BY <1>1, <1>2 DEF MayView
<1>4. q.op \in Listings \cup {"download"}
  BY <1>1 DEF ClientRow, ClientHolds
<1>5. CASE ClientGoes(h, s)
  <2>1. CASE q.op = "releases"
    <3>1. s = "ListReleases"
      BY <1>2, <2>1
    <3> QED BY <1>1, <1>5, <2>1, <3>1, ClientGoesStep DEF ClientSteps
  <2>2. CASE q.op = "revisions"
    <3>1. s = "ListRevisions"
      BY <1>2, <2>2
    <3> QED BY <1>1, <1>5, <2>2, <3>1, ClientGoesStep DEF ClientSteps
  <2>3. CASE q.op = "resources"
    <3>1. s = "ListResourceDefinitions"
      BY <1>2, <2>3
    <3> QED BY <1>1, <1>5, <2>3, <3>1, ClientGoesStep DEF ClientSteps
  <2>4. CASE q.op = "resource-revisions"
    <3>1. s = "GetResourceDefinition"
      BY <1>2, <2>4
    <3> QED BY <1>1, <1>5, <2>4, <3>1, ClientGoesStep DEF ClientSteps
  <2>5. CASE q.op = "download" /\ q.wanted.resource = None
    <3>1. s = "GetRevisionByNumber"
      BY <1>2, <2>5
    <3> QED BY <1>1, <1>5, <2>5, <3>1, ClientGoesStep DEF ClientSteps
  <2>6. CASE q.op = "download" /\ q.wanted.resource # None
    <3>1. s = "GetResourceDefinition"
      BY <1>2, <2>6
    <3> QED BY <1>1, <1>5, <2>6, <3>1, ClientGoesStep DEF ClientSteps
  <2> QED BY <1>4, <2>1, <2>2, <2>3, <2>4, <2>5, <2>6 DEF Listings
<1>6. CASE Fails(h, "403")
  BY <1>1, <1>6, FailsStep
<1>7. CASE ~Live(q.id) /\ Fails(h, "404")
  BY <1>1, <1>7, FailsStep
<1> QED BY <1>3, <1>5, <1>6, <1>7

\* A round of a listing: it announces more, and has less to go through.
LEMMA RoundStep ==
  ASSUME DownloadsInv, UNCHANGED consumerVars, NEW h \in Readers, NEW q, q = client[h],
         q.step \in {"Releases", "Definitions"},
         NEW channels \in ReleaseTables, NEW todo \in SUBSET Resources,
         NEW S \in SUBSET PromiseRow, \A e \in S : PromiseHolds(e),
         q.step = "Releases" => ChannelsLead(q.id, channels),
         NEW r, r = [q EXCEPT !.channels = channels, !.todo = todo, !.promised = q.promised \cup S],
         client' = [client EXCEPT ![h] = r]
  PROVE  DownloadsInv'
<1>1. q \in ClientRow /\ ClientHolds(q)
  BY DEF DownloadsInv
<1>2. q.promised \cup S \in SUBSET PromiseRow /\ \A e \in q.promised \cup S : PromiseHolds(e)
  BY <1>1 DEF ClientRow, ClientHolds
<1>3. r \in ClientRow
  BY ZenonT(60), <1>1, <1>2 DEF ClientRow
<1>4. /\ r.step = q.step /\ r.op = q.op /\ r.id = q.id /\ r.wanted = q.wanted
      /\ r.promised = q.promised \cup S /\ r.channels = channels /\ r.outcome = q.outcome
      /\ r.served = q.served
  BY <1>1 DEF ClientRow
<1>5. ClientHolds(r)
  BY <1>1, <1>2, <1>4 DEF ClientHolds
<1> QED BY <1>3, <1>5, ClientStep

LEMMA ListReleaseRowsStep ==
  ASSUME DownloadsInv, UNCHANGED consumerVars, NEW h \in Readers, ListReleaseRows(h)
  PROVE  DownloadsInv'
<1>1. PICK q : q = client[h] /\ q.step = "ListReleases" /\ q \in ClientRow /\ ClientHolds(q)
  BY DEF DownloadsInv, ListReleaseRows, AtClient
<1>2. q.id \in PackageIds /\ q.op = "releases"
  BY <1>1 DEF ClientHolds, DownloadsInv, ConsumerInv, ConsumerTablesOK, TablesOK, PackagesTypeOK
<1>3. releases[q.id] \in ReleaseTables /\ ChannelsLead(q.id, releases[q.id])
  BY <1>2 DEF ReleaseTables, ChannelsLead, DownloadsInv, ConsumerInv, ConsumerTablesOK, TablesOK,
              RevisionsTypeOK, IsTable, ReleasesResolve
<1>4. PICK r : r = [q EXCEPT !.step = "Releases", !.channels = releases[q.id]]
  OBVIOUS
<1>5. r \in ClientRow
  BY ZenonT(60), <1>1, <1>3, <1>4 DEF ClientRow, ClientSteps
<1>6. /\ r.step = "Releases" /\ r.op = q.op /\ r.id = q.id /\ r.wanted = q.wanted
      /\ r.promised = q.promised /\ r.channels = releases[q.id] /\ r.outcome = q.outcome
      /\ r.served = q.served
  BY <1>1, <1>4 DEF ClientRow
<1>7. ClientHolds(r)
  BY <1>1, <1>2, <1>3, <1>6 DEF ClientHolds
<1>8. client' = [client EXCEPT ![h] = r]
  BY <1>1, <1>4 DEF ListReleaseRows, DownloadsInv
<1> QED BY <1>5, <1>7, <1>8, ClientStep

\* What a listing says of a revision of a charm
LEMMA ListedPromise ==
  ASSUME ConsumerTablesOK, NEW p \in minted, NEW n \in DOMAIN revisions[p]
  PROVE  LET e == Promise(p, None, n, ListedDigests(revisions[p][n].digest)) IN
           e \in PromiseRow /\ PromiseHolds(e)
<1>1. /\ p \in PackageIds /\ n \in RevisionNumber /\ n \in 0..MaxRevision
      /\ revisions[p][n].digest \in Hash
  BY MaxRevisionAssumption
     DEF ConsumerTablesOK, TablesOK, PackagesTypeOK, RevisionsTypeOK, IsTable, RevisionRow,
         RevisionNumber, Hash
<1>2. PICK d \in DigestTables : d = ListedDigests(revisions[p][n].digest)
                                /\ DigestsMatch(d, revisions[p][n].digest)
  BY <1>1, DigestsAreOfContent
<1>3. PICK e : e = Promise(p, None, n, d)
  OBVIOUS
<1>4. e \in PromiseRow
  BY <1>1, <1>3 DEF Promise, PromiseRow
<1>5. e.id = p /\ e.resource = None /\ e.revision = n /\ e.digests = d
  BY <1>3 DEF Promise
<1>6. PromiseHolds(e)
  BY <1>1, <1>2, <1>5 DEF PromiseHolds
<1> QED BY <1>2, <1>3, <1>4, <1>6

\* And of a revision of a resource
LEMMA ResourcePromise ==
  ASSUME ConsumerTablesOK, NEW p \in minted, NEW r \in Resources,
         NEW n \in DOMAIN resourceRevisions[p][r],
         NEW d \in DigestTables, DigestsMatch(d, resourceRevisions[p][r][n].digest)
  PROVE  Promise(p, r, n, d) \in PromiseRow /\ PromiseHolds(Promise(p, r, n, d))
<1>1. p \in PackageIds /\ n \in RevisionNumber /\ n \in 0..MaxRevision
  BY MaxRevisionAssumption
     DEF ConsumerTablesOK, TablesOK, PackagesTypeOK, ResourceTablesOK, ResourceRowsOK, IsTable,
         RevisionNumber
<1>2. PICK e : e = Promise(p, r, n, d)
  OBVIOUS
<1>3. e \in PromiseRow
  BY <1>1, <1>2 DEF Promise, PromiseRow
<1>4. e.id = p /\ e.resource = r /\ e.revision = n /\ e.digests = d
  BY <1>2 DEF Promise
<1>5. PromiseHolds(e)
  BY <1>1, <1>4, NoResourceAssumption DEF PromiseHolds
<1> QED BY <1>2, <1>3, <1>5

LEMMA GetListedRevisionStep ==
  ASSUME DownloadsInv, UNCHANGED consumerVars, NEW h \in Readers, GetListedRevision(h)
  PROVE  DownloadsInv'
<1>1. PICK q : q = client[h] /\ q.step = "Releases" /\ q \in ClientRow /\ ClientHolds(q)
  BY DEF DownloadsInv, GetListedRevision, AtClient
<1>2. PICK c \in DOMAIN q.channels :
        LET n == q.channels[c] history == revisions[q.id] IN
        IF n \notin DOMAIN history THEN Fails(h, "404")
        ELSE client' = [client EXCEPT
               ![h].channels = [d \in DOMAIN @ \ {c} |-> @[d]],
               ![h].promised = @ \cup {Promise(q.id, None, n, ListedDigests(history[n].digest))}]
  BY <1>1 DEF GetListedRevision
<1>3. ChannelsLead(q.id, q.channels) /\ q.id \in minted /\ q.op = "releases"
  BY <1>1 DEF ClientHolds
<1>4. CASE q.channels[c] \notin DOMAIN revisions[q.id]
  <2>1. Fails(h, "404") /\ ~Live(q.id)
    BY <1>2, <1>3, <1>4 DEF ChannelsLead
  <2> QED BY <1>1, <1>3, <2>1, FailsStep
<1>5. CASE q.channels[c] \in DOMAIN revisions[q.id]
  <2>1. PICK n \in DOMAIN revisions[q.id] : n = q.channels[c]
    BY <1>5
  <2>2. PICK e \in PromiseRow : PromiseHolds(e)
                                /\ e = Promise(q.id, None, n, ListedDigests(revisions[q.id][n].digest))
    BY <1>3, <2>1, ListedPromise DEF DownloadsInv, ConsumerInv
  <2>3. PICK rest : rest = [d \in DOMAIN q.channels \ {c} |-> q.channels[d]]
    OBVIOUS
  <2>4. rest \in ReleaseTables /\ ChannelsLead(q.id, rest)
    <3>1. PICK N \in SUBSET Channels : q.channels \in [N -> RevisionNumber]
      BY <1>1 DEF ClientRow, ReleaseTables
    <3>2. rest \in [N \ {c} -> RevisionNumber] /\ N \ {c} \in SUBSET Channels
      BY <2>3, <3>1
    <3> QED BY <1>3, <2>3, <3>2 DEF ReleaseTables, ChannelsLead
  <2>5. q.todo \in SUBSET Resources
    BY <1>1 DEF ClientRow
  <2>6. PICK r : r = [q EXCEPT !.channels = rest, !.todo = q.todo, !.promised = q.promised \cup {e}]
    OBVIOUS
  <2>7. r = [q EXCEPT !.channels = rest, !.promised = q.promised \cup {e}]
    BY <1>1, <2>6 DEF ClientRow
  <2>8. client' = [client EXCEPT ![h] = r]
    BY ZenonT(60), <1>1, <1>2, <2>1, <2>2, <2>3, <2>7 DEF DownloadsInv
  <2>9. {e} \in SUBSET PromiseRow /\ \A x \in {e} : PromiseHolds(x)
    BY <2>2
  <2> QED BY <1>1, <2>4, <2>5, <2>6, <2>8, <2>9, RoundStep
<1> QED BY <1>4, <1>5

LEMMA ListRevisionRowsStep ==
  ASSUME DownloadsInv, UNCHANGED consumerVars, NEW h \in Readers, ListRevisionRows(h)
  PROVE  DownloadsInv'
<1>1. PICK q : q = client[h] /\ q.step = "ListRevisions" /\ q \in ClientRow /\ ClientHolds(q)
  BY DEF DownloadsInv, ListRevisionRows, AtClient
<1>2. PICK N \in {DOMAIN revisions[q.id]} \cup {{n} : n \in DOMAIN revisions[q.id]} :
        Answers(h, "200",
          {Promise(q.id, None, n, ListedDigests(revisions[q.id][n].digest)) : n \in N}, None)
  BY <1>1 DEF ListRevisionRows
<1>3. q.id \in minted /\ q.op \notin {"download", "releases"} /\ N \subseteq DOMAIN revisions[q.id]
  BY <1>1 DEF ClientHolds
<1>4. PICK S : S = {Promise(q.id, None, n, ListedDigests(revisions[q.id][n].digest)) : n \in N}
  OBVIOUS
<1>5. S \in SUBSET PromiseRow /\ \A e \in S : PromiseHolds(e)
  BY <1>3, <1>4, ListedPromise DEF DownloadsInv, ConsumerInv
<1>6. None \in Hash
  BY DEF Hash
<1> QED BY <1>1, <1>2, <1>3, <1>4, <1>5, <1>6, AnswersStep

LEMMA ListDefinitionRowsStep ==
  ASSUME DownloadsInv, UNCHANGED consumerVars, NEW h \in Readers, ListDefinitionRows(h)
  PROVE  DownloadsInv'
<1>1. PICK q : q = client[h] /\ q.step = "ListResourceDefinitions" /\ q \in ClientRow
               /\ ClientHolds(q)
  BY DEF DownloadsInv, ListDefinitionRows, AtClient
<1>2. definitions[q.id] \in SUBSET Resources
  BY <1>1 DEF ClientHolds, DownloadsInv, ConsumerInv, ConsumerTablesOK, TablesOK, PackagesTypeOK,
              RevisionsTypeOK, UploadsTypeOK
<1>3. PICK r : r = [q EXCEPT !.step = "Definitions", !.todo = definitions[q.id]]
  OBVIOUS
<1>4. r \in ClientRow
  BY ZenonT(60), <1>1, <1>2, <1>3 DEF ClientRow, ClientSteps
<1>5. /\ r.step = "Definitions" /\ r.op = q.op /\ r.id = q.id /\ r.wanted = q.wanted
      /\ r.promised = q.promised /\ r.outcome = q.outcome /\ r.served = q.served
  BY <1>1, <1>3 DEF ClientRow
<1>6. ClientHolds(r)
  BY <1>1, <1>5 DEF ClientHolds
<1>7. client' = [client EXCEPT ![h] = r]
  BY <1>1, <1>3 DEF ListDefinitionRows, DownloadsInv
<1> QED BY <1>4, <1>6, <1>7, ClientStep

LEMMA ListNewestRevisionStep ==
  ASSUME DownloadsInv, UNCHANGED consumerVars, NEW h \in Readers, ListNewestRevision(h)
  PROVE  DownloadsInv'
<1>1. PICK q : q = client[h] /\ q.step = "Definitions" /\ q \in ClientRow /\ ClientHolds(q)
  BY DEF DownloadsInv, ListNewestRevision, AtClient
<1>2. PICK r \in q.todo :
        client' = [client EXCEPT ![h].todo = @ \ {r},
          ![h].promised = @ \cup
            (IF DOMAIN resourceRevisions[q.id][r] = {} THEN {}
             ELSE {Promise(q.id, r, Max(DOMAIN resourceRevisions[q.id][r]), NoRows)})]
  BY <1>1 DEF ListNewestRevision
<1>3. PICK S : S = IF DOMAIN resourceRevisions[q.id][r] = {} THEN {}
                   ELSE {Promise(q.id, r, Max(DOMAIN resourceRevisions[q.id][r]), NoRows)}
  OBVIOUS
<1>4. q.id \in minted /\ q.id \in PackageIds /\ r \in Resources
  BY <1>1, <1>2
     DEF ClientHolds, ClientRow, DownloadsInv, ConsumerInv, ConsumerTablesOK, TablesOK, PackagesTypeOK
<1>5. S \in SUBSET PromiseRow /\ \A e \in S : PromiseHolds(e)
  <2> SUFFICES ASSUME DOMAIN resourceRevisions[q.id][r] # {}
               PROVE  LET e == Promise(q.id, r, Max(DOMAIN resourceRevisions[q.id][r]), NoRows) IN
                        e \in PromiseRow /\ PromiseHolds(e)
    BY <1>3
  <2>1. PICK m \in 0..MaxRevision : DOMAIN resourceRevisions[q.id][r] = 1..m
    BY <1>4 DEF DownloadsInv, ConsumerInv, ConsumerTablesOK, ResourceTablesOK,
                ResourceRevisionsContiguous
  <2>2. m \in 1..m /\ \A i \in 1..m : m >= i
    BY <2>1, MaxRevisionAssumption
  <2>3. Max(1..m) = m
    BY <2>2 DEF Max
  <2> QED BY <1>4, <2>1, <2>2, <2>3, DigestsAreOfContent, ResourcePromise
          DEF DownloadsInv, ConsumerInv
<1>6. q.channels \in ReleaseTables /\ q.todo \ {r} \in SUBSET Resources
  BY <1>1 DEF ClientRow
<1>7. PICK z : z = [q EXCEPT !.channels = q.channels, !.todo = q.todo \ {r},
                             !.promised = q.promised \cup S]
  OBVIOUS
<1>8. z = [q EXCEPT !.todo = q.todo \ {r}, !.promised = q.promised \cup S]
  BY <1>1, <1>7 DEF ClientRow
<1>9. client' = [client EXCEPT ![h] = z]
  BY <1>1, <1>2, <1>3, <1>8 DEF DownloadsInv
<1> QED BY <1>1, <1>5, <1>6, <1>7, <1>9, RoundStep

LEMMA EndListingStep ==
  ASSUME DownloadsInv, UNCHANGED consumerVars, NEW h \in Readers, EndListing(h)
  PROVE  DownloadsInv'
<1>1. PICK q : q = client[h] /\ q.step \in {"Releases", "Definitions"} /\ q \in ClientRow
               /\ ClientHolds(q) /\ Answers(h, "200", q.promised, None)
  BY DEF DownloadsInv, EndListing, AtClient
<1>2. q.promised \in SUBSET PromiseRow /\ \A e \in q.promised : PromiseHolds(e)
  BY <1>1 DEF ClientRow, ClientHolds
<1>3. q.op # "download"
  BY <1>1 DEF ClientHolds
<1>4. None \in Hash
  BY DEF Hash
<1> QED BY <1>1, <1>2, <1>3, <1>4, AnswersStep

LEMMA GetDefinitionRowStep ==
  ASSUME DownloadsInv, UNCHANGED consumerVars, NEW h \in Readers, GetDefinitionRow(h)
  PROVE  DownloadsInv'
<1>1. PICK q : q = client[h] /\ q.step = "GetResourceDefinition" /\ q \in ClientRow
               /\ ClientHolds(q)
  BY DEF DownloadsInv, GetDefinitionRow, AtClient
<1>2. PICK r \in IF q.op = "download" THEN {q.wanted.resource} ELSE Resources :
        IF r \notin definitions[q.id] THEN Fails(h, "404")
        ELSE client' = [client EXCEPT ![h].step = "ListResourceRevisions", ![h].resource = r]
  BY <1>1 DEF GetDefinitionRow
<1>3. /\ q.id \in minted /\ q.id \in PackageIds
      /\ \/ q.op = "resource-revisions"
         \/ q.op = "download" /\ q.wanted.resource # None
  BY <1>1 DEF ClientHolds, DownloadsInv, ConsumerInv, ConsumerTablesOK, TablesOK, PackagesTypeOK
<1>4. r \in Resources
  <2>1. q.wanted.resource \in Resources \cup {None}
    BY <1>1 DEF ClientRow, PromiseRow
  <2> QED BY <1>2, <1>3, <2>1
<1>5. CASE r \notin definitions[q.id]
  <2>1. Fails(h, "404")
    BY <1>2, <1>5
  <2>2. q.op = "download" => ~Live(q.id)
    <3> SUFFICES ASSUME q.op = "download", Live(q.id) PROVE FALSE
      OBVIOUS
    <3>1. r = q.wanted.resource /\ PromiseHolds(q.wanted) /\ q.id = q.wanted.id /\ r # None
      BY <1>1, <1>2, <1>3 DEF ClientHolds
    <3>2. q.wanted.revision \in DOMAIN resourceRevisions[q.id][r]
      BY <3>1 DEF PromiseHolds
    <3> QED BY <1>3, <1>4, <1>5, <3>2
            DEF DownloadsInv, ConsumerInv, ConsumerTablesOK, ResourceTablesOK, NoOrphanResources
  <2>3. q.op # "releases"
    BY <1>3
  <2> QED BY <1>1, <2>1, <2>2, <2>3, FailsStep
<1>6. CASE r \in definitions[q.id]
  <2>1. PICK z : z = [q EXCEPT !.step = "ListResourceRevisions", !.resource = r]
    OBVIOUS
  <2>2. z \in ClientRow
    BY ZenonT(60), <1>1, <1>4, <2>1 DEF ClientRow, ClientSteps
  <2>3. /\ z.step = "ListResourceRevisions" /\ z.resource = r /\ z.op = q.op /\ z.id = q.id
        /\ z.wanted = q.wanted /\ z.promised = q.promised /\ z.outcome = q.outcome
        /\ z.served = q.served
    BY <1>1, <2>1 DEF ClientRow
  <2>4. q.op = "download" => r = q.wanted.resource
    BY <1>2
  <2>5. ClientHolds(z)
    BY <1>1, <1>3, <1>4, <2>3, <2>4 DEF ClientHolds
  <2>6. client' = [client EXCEPT ![h] = z]
    BY <1>1, <1>2, <1>6, <2>1 DEF DownloadsInv
  <2> QED BY <2>2, <2>5, <2>6, ClientStep
<1> QED BY <1>5, <1>6

\* The object of a row is found, as what was announced.
LEMMA FindsObject ==
  ASSUME DownloadsInv, UNCHANGED consumerVars, NEW h \in Readers, NEW q, q = client[h],
         q.step # "Idle", q.step # "Answered", q.op = "download",
         NEW u \in Uploads, ObjectKey(u) \in DOMAIN blobs,
         Own(u) => DigestsMatch(q.wanted.digests, blobs[u]),
         client' = [client EXCEPT ![h].step = "GetObject", ![h].upload = u]
  PROVE  DownloadsInv'
<1>1. q \in ClientRow /\ ClientHolds(q)
  BY DEF DownloadsInv
<1>2. PICK z : z = [q EXCEPT !.step = "GetObject", !.upload = u]
  OBVIOUS
<1>3. z \in ClientRow
  BY ZenonT(60), <1>1, <1>2 DEF ClientRow, ClientSteps
<1>4. /\ z.step = "GetObject" /\ z.upload = u /\ z.op = q.op /\ z.id = q.id
      /\ z.wanted = q.wanted /\ z.promised = q.promised /\ z.outcome = q.outcome
      /\ z.served = q.served
  BY <1>1, <1>2 DEF ClientRow
<1>5. ClientHolds(z)
  BY <1>1, <1>4 DEF ClientHolds
<1>6. client' = [client EXCEPT ![h] = z]
  BY <1>2 DEF DownloadsInv
<1> QED BY <1>3, <1>5, <1>6, ClientStep

LEMMA GetRevisionRowStep ==
  ASSUME DownloadsInv, UNCHANGED consumerVars, NEW h \in Readers, GetRevisionRow(h)
  PROVE  DownloadsInv'
<1>1. PICK q : q = client[h] /\ q.step = "GetRevisionByNumber" /\ q \in ClientRow
               /\ ClientHolds(q)
  BY DEF DownloadsInv, GetRevisionRow, AtClient
<1>2. /\ q.id \in PackageIds /\ q.op = "download" /\ q.wanted.resource = None
      /\ PromiseHolds(q.wanted) /\ q.id = q.wanted.id
  BY <1>1 DEF ClientHolds, DownloadsInv, ConsumerInv, ConsumerTablesOK, TablesOK, PackagesTypeOK
<1>3. IF q.wanted.revision \notin DOMAIN revisions[q.id] THEN Fails(h, "404")
      ELSE client' = [client EXCEPT ![h].step = "GetObject",
                                    ![h].upload = revisions[q.id][q.wanted.revision].upload]
  BY <1>1 DEF GetRevisionRow
<1>4. CASE q.wanted.revision \notin DOMAIN revisions[q.id]
  <2>1. Fails(h, "404") /\ ~Live(q.id)
    BY <1>2, <1>3, <1>4 DEF PromiseHolds
  <2> QED BY <1>1, <1>2, <2>1, FailsStep
<1>5. CASE q.wanted.revision \in DOMAIN revisions[q.id]
  <2>1. PICK row : row = revisions[q.id][q.wanted.revision]
    OBVIOUS
  <2>2. /\ row.upload \in Uploads /\ ObjectKey(row.upload) \in DOMAIN blobs
        /\ Own(row.upload) => blobs[row.upload] = row.digest
    BY <1>2, <1>5, <2>1
       DEF DownloadsInv, ConsumerInv, ConsumerTablesOK, TablesOK, ArtifactsStored, RevisionsTypeOK,
           IsTable, RevisionRow
  <2>3. Live(q.id)
    BY <1>2, <1>5 DEF DownloadsInv, ConsumerInv, ConsumerTablesOK, TablesOK, NoOrphanRows, Live
  <2>4. Own(row.upload) => DigestsMatch(q.wanted.digests, blobs[row.upload])
    BY <1>2, <2>1, <2>2, <2>3 DEF PromiseHolds
  <2>5. client' = [client EXCEPT ![h].step = "GetObject", ![h].upload = row.upload]
    BY <1>3, <1>5, <2>1
  <2> QED BY <1>1, <1>2, <2>2, <2>4, <2>5, FindsObject
<1> QED BY <1>4, <1>5

LEMMA GetObjectStep ==
  ASSUME DownloadsInv, UNCHANGED consumerVars, NEW h \in Readers, GetObject(h)
  PROVE  DownloadsInv'
<1>1. PICK q : q = client[h] /\ q.step = "GetObject" /\ q \in ClientRow /\ ClientHolds(q)
  BY DEF DownloadsInv, GetObject, AtClient
<1>2. /\ q.op = "download" /\ q.upload \in Uploads /\ ObjectKey(q.upload) \in DOMAIN blobs
      /\ Own(q.upload) => DigestsMatch(q.wanted.digests, blobs[q.upload])
      /\ q.promised \in SUBSET PromiseRow /\ \A e \in q.promised : PromiseHolds(e)
  BY <1>1 DEF ClientHolds, ClientRow
<1>3. Answers(h, "200", q.promised, blobs[ObjectKey(q.upload)])
  BY <1>1, <1>2 DEF GetObject
<1>4. blobs[ObjectKey(q.upload)] \in Hash
  BY <1>2 DEF DownloadsInv, ConsumerInv, ConsumerTablesOK, TablesOK, UploadsTypeOK, IsTable, Hash
<1>5. Own(q.upload) => DigestsMatch(q.wanted.digests, blobs[ObjectKey(q.upload)])
  BY <1>2, KeyOfAnUpload
<1> QED BY <1>1, <1>2, <1>3, <1>4, <1>5, AnswersStep

LEMMA ListResourceRowsStep ==
  ASSUME DownloadsInv, UNCHANGED consumerVars, NEW h \in Readers, ListResourceRows(h)
  PROVE  DownloadsInv'
<1>1. PICK q : q = client[h] /\ q.step = "ListResourceRevisions" /\ q \in ClientRow
               /\ ClientHolds(q)
  BY DEF DownloadsInv, ListResourceRows, AtClient
<1>2. /\ q.id \in minted /\ q.id \in PackageIds /\ q.resource \in Resources
      /\ \/ q.op = "resource-revisions"
         \/ q.op = "download" /\ q.resource = q.wanted.resource
  BY <1>1 DEF ClientHolds, DownloadsInv, ConsumerInv, ConsumerTablesOK, TablesOK, PackagesTypeOK
<1>3. PICK rows : rows = resourceRevisions[q.id][q.resource]
  OBVIOUS
<1>4. IF q.op # "download"
      THEN Answers(h, "200", {Promise(q.id, q.resource, i, ResourceDigests(rows[i].digest)) :
                              i \in DOMAIN rows}, None)
      ELSE IF q.wanted.revision \notin DOMAIN rows THEN Fails(h, "404")
      ELSE client' = [client EXCEPT ![h] =
             IF rows[q.wanted.revision].oci
             THEN AnswerTo([q EXCEPT !.step = "GetObject", !.upload = rows[q.wanted.revision].upload],
                           "200", q.promised, rows[q.wanted.revision].image)
             ELSE [q EXCEPT !.step = "GetObject", !.upload = rows[q.wanted.revision].upload]]
  BY <1>1, <1>3 DEF ListResourceRows
<1>5. q.promised \in SUBSET PromiseRow /\ \A e \in q.promised : PromiseHolds(e)
  BY <1>1 DEF ClientRow, ClientHolds
<1>6. \A i \in DOMAIN rows : rows[i] \in ResourceRow /\ rows[i].digest \in Hash
  BY <1>2, <1>3 DEF DownloadsInv, ConsumerInv, ConsumerTablesOK, ResourceTablesOK, ResourceRowsOK,
                    IsTable, ResourceRow, Hash
<1>7. CASE q.op # "download"
  <2>1. PICK S : S = {Promise(q.id, q.resource, i, ResourceDigests(rows[i].digest)) :
                      i \in DOMAIN rows}
    OBVIOUS
  <2>2. ASSUME NEW i \in DOMAIN rows
        PROVE  LET e == Promise(q.id, q.resource, i, ResourceDigests(rows[i].digest)) IN
                 e \in PromiseRow /\ PromiseHolds(e)
    <3>1. PICK d \in DigestTables : d = ResourceDigests(rows[i].digest)
                                    /\ DigestsMatch(d, rows[i].digest)
      BY <1>6, DigestsAreOfContent
    <3> QED BY <1>2, <1>3, <3>1, ResourcePromise DEF DownloadsInv, ConsumerInv
  <2>3. S \in SUBSET PromiseRow /\ \A e \in S : PromiseHolds(e)
    BY <2>1, <2>2
  <2>4. Answers(h, "200", S, None)
    BY <1>4, <1>7, <2>1
  <2>5. None \in Hash
    BY DEF Hash
  <2> QED BY <1>1, <1>7, <2>3, <2>4, <2>5, AnswersStep
<1>8. CASE q.op = "download"
  <2>1. PICK n : n = q.wanted.revision
    OBVIOUS
  <2>2. /\ q.resource = q.wanted.resource /\ q.resource # None
        /\ PromiseHolds(q.wanted) /\ q.id = q.wanted.id
    BY <1>1, <1>2, <1>8, NoResourceAssumption DEF ClientHolds
  <2>3. CASE n \notin DOMAIN rows
    <3>1. Fails(h, "404") /\ ~Live(q.id)
      BY <1>3, <1>4, <1>8, <2>1, <2>2, <2>3 DEF PromiseHolds
    <3> QED BY <1>1, <1>8, <3>1, FailsStep
  <2>4. CASE n \in DOMAIN rows
    <3>1. Live(q.id)
      BY <1>2, <1>3, <2>4 DEF DownloadsInv, ConsumerInv, ConsumerTablesOK, TablesOK, NoOrphanRows,
                              ResourceTablesOK, NoOrphanResources, Live
    <3>2. DigestsMatch(q.wanted.digests, rows[n].digest)
      BY <1>3, <2>1, <2>2, <3>1 DEF PromiseHolds
    <3>3. PICK row \in ResourceRow : row = rows[n]
      BY <1>6, <2>4
    <3>4. /\ row.upload \in Uploads /\ row.image \in Hash
          /\ row.oci \/ ObjectKey(row.upload) \in DOMAIN blobs
          /\ Own(row.upload) =>
               DigestsMatch(q.wanted.digests, IF row.oci THEN row.image ELSE blobs[row.upload])
      <4>1. row.upload \in Uploads /\ row.image \in Hash
        BY <3>3 DEF ResourceRow, Hash
      <4>2. /\ row.oci \/ ObjectKey(row.upload) \in DOMAIN blobs
            /\ Own(row.upload) => ServedContent(row) = row.digest
        BY <1>2, <1>3, <2>4, <3>3 DEF DownloadsInv, ConsumerInv, ConsumerTablesOK,
                                      ResourceTablesOK, ResourcesServeTheirHash
      <4>3. Own(row.upload) =>
              ServedContent(row) = IF row.oci THEN row.image ELSE blobs[row.upload]
        BY <4>1, KeyOfAnUpload DEF ServedContent
      <4> QED BY <3>2, <3>3, <4>1, <4>2, <4>3
    <3>5. PICK z : z = [q EXCEPT !.step = "GetObject", !.upload = row.upload]
      OBVIOUS
    <3>6. /\ z \in ClientRow /\ z.op = "download" /\ z.id = q.id /\ z.wanted = q.wanted
          /\ z.upload = row.upload
      BY <1>1, <1>8, <3>4, <3>5 DEF ClientRow, ClientSteps
    <3>7. CASE row.oci
      <4>1. client' = [client EXCEPT ![h] = AnswerTo(z, "200", q.promised, row.image)]
        BY <1>4, <1>8, <2>1, <2>4, <3>3, <3>5, <3>7
      <4>2. Own(z.upload) => DigestsMatch(z.wanted.digests, row.image)
        BY <3>4, <3>6, <3>7
      <4> QED BY <1>2, <1>5, <2>2, <3>4, <3>6, <4>1, <4>2, AnswerToStep
    <3>8. CASE ~row.oci
      <4>1. /\ ObjectKey(row.upload) \in DOMAIN blobs
            /\ Own(row.upload) => DigestsMatch(q.wanted.digests, blobs[row.upload])
        BY <3>4, <3>8
      <4>2. client' = [client EXCEPT ![h].step = "GetObject", ![h].upload = row.upload]
        BY <1>1, <1>4, <1>8, <2>1, <2>4, <3>3, <3>5, <3>8 DEF DownloadsInv
      <4> QED BY <1>1, <1>8, <3>4, <4>1, <4>2, FindsObject
    <3> QED BY <3>7, <3>8
  <2> QED BY <2>3, <2>4
<1> QED BY <1>7, <1>8

\* What a reader was answered can be kept.
LEMMA PromisedHolds ==
  ASSUME ConsumerInv, NEW h \in Readers, NEW e \in Promised(h)
  PROVE  e \in PromiseRow /\ PromiseHolds(e)
<1>1. PICK i \in DOMAIN read[h].results :
        /\ read[h].results[i] # ErrorEntry
        /\ \/ e = Promise(read[h].results[i].id, None, read[h].results[i].revision,
                          EntityDigests(read[h].results[i].hash))
           \/ \E r \in DOMAIN read[h].results[i].resources :
                e = Promise(read[h].results[i].id, r, read[h].results[i].resources[r],
                            ResourceDigests(read[h].results[i].hashes[r]))
  BY DEF Promised
<1>2. PICK entity \in EntityRow : entity = read[h].results[i] /\ EntityHolds(entity)
  BY <1>1 DEF ConsumerInv, ReaderHolds, ReadRow
<1>3. /\ entity.id \in minted /\ entity.id \in PackageIds
      /\ entity.revision \in RevisionNumber /\ entity.hash \in Hash
      /\ DOMAIN entity.hashes = DOMAIN entity.resources
      /\ \A r \in DOMAIN entity.hashes : entity.hashes[r] \in Hash
  BY <1>2 DEF EntityRow, EntityHolds, ConsumerInv, ConsumerTablesOK, TablesOK, PackagesTypeOK, Hashes
<1>4. CASE e = Promise(entity.id, None, entity.revision, EntityDigests(entity.hash))
  <2>1. PICK d \in DigestTables : d = EntityDigests(entity.hash) /\ DigestsMatch(d, entity.hash)
    BY <1>3, DigestsAreOfContent
  <2>2. e.id = entity.id /\ e.resource = None /\ e.revision = entity.revision /\ e.digests = d
    BY <1>4, <2>1 DEF Promise
  <2>3. e \in PromiseRow
    BY <1>3, <1>4, <2>1, MaxRevisionAssumption DEF Promise, PromiseRow, RevisionNumber
  <2>4. Live(entity.id) => /\ entity.revision \in DOMAIN revisions[entity.id]
                           /\ revisions[entity.id][entity.revision].digest = entity.hash
    BY <1>2 DEF EntityHolds, CharmIsThere
  <2> QED BY <1>3, <2>1, <2>2, <2>3, <2>4 DEF PromiseHolds
<1>5. ASSUME NEW r \in DOMAIN entity.resources,
             e = Promise(entity.id, r, entity.resources[r], ResourceDigests(entity.hashes[r]))
      PROVE  e \in PromiseRow /\ PromiseHolds(e)
  <2>1. PICK d \in DigestTables : d = ResourceDigests(entity.hashes[r])
                                  /\ DigestsMatch(d, entity.hashes[r])
    BY <1>3, DigestsAreOfContent
  <2>2. e.id = entity.id /\ e.resource = r /\ e.revision = entity.resources[r] /\ e.digests = d
    BY <1>5, <2>1 DEF Promise
  <2>3. /\ r \in Resources /\ entity.resources[r] \in RevisionNumber
        /\ Live(entity.id) =>
             /\ entity.resources[r] \in DOMAIN resourceRevisions[entity.id][r]
             /\ resourceRevisions[entity.id][r][entity.resources[r]].digest = entity.hashes[r]
    BY <1>2 DEF EntityHolds, ResourceIsThere
  <2>4. e \in PromiseRow
    BY <1>3, <1>5, <2>1, <2>3, MaxRevisionAssumption DEF Promise, PromiseRow, RevisionNumber
  <2> QED BY <1>3, <2>1, <2>2, <2>3, <2>4, NoResourceAssumption DEF PromiseHolds
<1> QED BY <1>1, <1>2, <1>4, <1>5

LEMMA StartDownloadStep ==
  ASSUME DownloadsInv, UNCHANGED consumerVars, NEW h \in Readers, StartDownload(h)
  PROVE  DownloadsInv'
<1>1. PICK q : q = client[h] /\ q \in ClientRow /\ ClientHolds(q)
  BY DEF DownloadsInv
<1>2. PICK e \in q.promised \cup Promised(h) :
        client' = [client EXCEPT ![h] =
          IF Live(e.id)
          THEN [[NoClient EXCEPT !.op = "download", !.id = e.id, !.wanted = e,
                                 !.promised = q.promised]
                EXCEPT !.step = "CanViewPackage", !.private = packages[e.id].private]
          ELSE [[NoClient EXCEPT !.op = "download", !.id = e.id, !.wanted = e,
                                 !.promised = q.promised]
                EXCEPT !.step = "Answered", !.outcome = "404"]]
  BY <1>1 DEF StartDownload
<1>3. /\ q.promised \in SUBSET PromiseRow /\ \A x \in q.promised : PromiseHolds(x)
      /\ e \in PromiseRow /\ PromiseHolds(e)
  BY <1>1, <1>2, PromisedHolds DEF ClientHolds, ClientRow, DownloadsInv
<1>4. e.id \in minted /\ e.id \in PackageIds
  BY <1>3 DEF PromiseHolds, DownloadsInv, ConsumerInv, ConsumerTablesOK, TablesOK, PackagesTypeOK
<1>5. PICK z \in ClientRow : z = NoClient /\ z.outcome = "none"
  BY NoClientIsFine DEF NoClient
<1>6. PICK a : a = [z EXCEPT !.op = "download", !.id = e.id, !.wanted = e, !.promised = q.promised]
  OBVIOUS
<1>7. /\ a \in ClientRow /\ a.op = "download" /\ a.id = e.id /\ a.wanted = e
      /\ a.promised = q.promised /\ a.outcome = "none"
  BY <1>3, <1>4, <1>5, <1>6 DEF ClientRow
<1>8. CASE Live(e.id)
  <2>1. packages[e.id].private \in BOOLEAN
    BY <1>8 DEF DownloadsInv, ConsumerInv, ConsumerTablesOK, TablesOK, PackagesTypeOK, IsTable,
                PackageRow, Live
  <2>2. PICK r : r = [a EXCEPT !.step = "CanViewPackage", !.private = packages[e.id].private]
    OBVIOUS
  <2>3. /\ r \in ClientRow /\ r.step = "CanViewPackage" /\ r.op = "download" /\ r.id = e.id
        /\ r.wanted = e /\ r.promised = q.promised /\ r.outcome = "none"
    BY <1>7, <2>1, <2>2 DEF ClientRow, ClientSteps
  <2>4. ClientHolds(r)
    BY <1>3, <1>4, <2>3 DEF ClientHolds
  <2>5. client' = [client EXCEPT ![h] = r]
    BY <1>2, <1>5, <1>6, <1>8, <2>2
  <2> QED BY <2>3, <2>4, <2>5, ClientStep
<1>9. CASE ~Live(e.id)
  <2>1. PICK r : r = [a EXCEPT !.step = "Answered", !.outcome = "404"]
    OBVIOUS
  <2>2. /\ r \in ClientRow /\ r.step = "Answered" /\ r.op = "download" /\ r.id = e.id
        /\ r.wanted = e /\ r.promised = q.promised /\ r.outcome = "404"
    BY <1>7, <2>1 DEF ClientRow, ClientSteps
  <2>3. ClientHolds(r)
    BY <1>3, <1>4, <1>9, <2>2 DEF ClientHolds
  <2>4. client' = [client EXCEPT ![h] = r]
    BY <1>2, <1>5, <1>6, <1>9, <2>1
  <2> QED BY <2>2, <2>3, <2>4, ClientStep
<1> QED BY <1>8, <1>9

LEMMA ClientKeepsInv ==
  ASSUME DownloadsInv, NEW h \in Readers, Client(h)
  PROVE  DownloadsInv'
<1>1. UNCHANGED consumerVars
  BY DEF Client
<1>2. CASE ClientUnavailable(h)
  <2>1. client[h].step # "Idle" /\ Fails(h, "unavailable")
    BY <1>2 DEF ClientUnavailable
  <2> QED BY <1>1, <2>1, FailsStep
<1>3. CASE ClientForgets(h)
  <2>1. client' = [client EXCEPT ![h] = NoClient]
    BY <1>3 DEF ClientForgets
  <2> QED BY <1>1, <2>1, NoClientIsFine, ClientStep
<1>4. CASE StartListing(h) \/ StartDownload(h)
  BY <1>1, <1>4, StartListingStep, StartDownloadStep
<1>5. CASE ClientReads(h)
  BY <1>1, <1>5, MayViewStep, ListReleaseRowsStep, GetListedRevisionStep, ListRevisionRowsStep,
     ListDefinitionRowsStep, ListNewestRevisionStep, GetDefinitionRowStep, ListResourceRowsStep,
     EndListingStep, GetRevisionRowStep, GetObjectStep
     DEF ClientReads
<1> QED BY <1>2, <1>3, <1>4, <1>5 DEF Client

LEMMA InitDownloadsInv == DownloadsInit => DownloadsInv
<1> SUFFICES ASSUME DownloadsInit PROVE DownloadsInv
  OBVIOUS
<1>1. ConsumerInv
  BY InitConsumerInv DEF DownloadsInit
<1>2. client = [h \in Readers |-> NoClient]
  BY DEF DownloadsInit
<1> QED BY <1>1, <1>2, NoClientIsFine DEF DownloadsInv

LEMMA RestKeepsInv ==
  ASSUME DownloadsInv, UNCHANGED downloadVars
  PROVE  DownloadsInv'
<1>1. UNCHANGED consumerTables /\ UNCHANGED read /\ UNCHANGED client
  BY DEF downloadVars, consumerVars
<1>2. ConsumerTablesOK'
  BY <1>1, ReadersKeep DEF DownloadsInv, ConsumerInv
<1>3. UNCHANGED <<minted, packages, revisions, resourceRevisions, blobs>>
  BY <1>1 DEF consumerTables, tables
<1>4. \A q : ReaderHolds(q) => ReaderHolds(q)'
  BY <1>3, HoldsWhileTablesStay
<1>5. \A q : ClientHolds(q) => ClientHolds(q)'
  BY <1>3 DEF ClientHolds, PromiseHolds, ChannelsLead, Live
<1>6. ASSUME NEW k \in Readers PROVE ReaderHolds(read[k])' /\ ClientHolds(client[k])'
  <2>1. PICK q : q = read'[k] /\ ReaderHolds(q)
    BY <1>1 DEF DownloadsInv, ConsumerInv
  <2>2. PICK c : c = client'[k] /\ ClientHolds(c)
    BY <1>1 DEF DownloadsInv
  <2> QED BY <1>4, <1>5, <2>1, <2>2
<1> QED BY <1>1, <1>2, <1>6 DEF DownloadsInv, ConsumerInv

LEMMA DownloadsInvariance == DownloadsSpec => []DownloadsInv
<1>1. DownloadsInit => DownloadsInv
  BY InitDownloadsInv
<1>2. ASSUME DownloadsInv, [DownloadsNext]_downloadVars PROVE DownloadsInv'
  <2>1. CASE Publisher /\ UNCHANGED client
    BY <1>2, <2>1, PublisherKeeps, WriterKeepsClients DEF DownloadsInv, ConsumerInv, Publisher
  <2>2. ASSUME NEW h \in Readers, (AtClient(h, "Idle") /\ Reader(h) /\ UNCHANGED client) \/ Client(h)
        PROVE  DownloadsInv'
    BY <1>2, <2>2, ReaderKeepsClients, ClientKeepsInv DEF Reader, Client, consumerVars
  <2>3. CASE UNCHANGED downloadVars
    BY <1>2, <2>3, RestKeepsInv
  <2> QED BY <1>2, <2>1, <2>2, <2>3 DEF DownloadsNext
<1> QED BY <1>1, <1>2, PTL DEF DownloadsSpec

-----------------------------------------------------------------------------
(* The theorems. *)

LEMMA ClientsAreTyped == DownloadsInv => DownloadsTypeOK
<1> SUFFICES ASSUME DownloadsInv, NEW h \in Readers, NEW q \in ClientRow, q = client[h],
                    ClientHolds(q)
             PROVE  /\ q.step \in ClientSteps /\ q.op \in Listings \cup {"download", "none"}
                    /\ q.id \in PackageIds \cup {None} /\ q.private \in BOOLEAN
                    /\ DOMAIN q.channels \subseteq Channels /\ q.todo \subseteq Resources
                    /\ q.resource \in Resources \cup {None} /\ q.upload \in Uploads \cup {None}
                    /\ IsHash(q.served)
                    /\ \A promise \in q.promised :
                         /\ promise.id \in PackageIds /\ promise.resource \in Resources \cup {None}
                         /\ promise.revision \in RevisionNumber
                         /\ \A name \in DOMAIN promise.digests : IsHash(promise.digests[name][2])
                    /\ q.outcome \in {"none", "200", "403", "404", "500", "unavailable"}
                    /\ q.op = "download" => q.id = q.wanted.id
  BY ConsumersAreTyped DEF DownloadsTypeOK, DownloadsInv
<1>1. /\ q.step \in ClientSteps /\ q.op \in Listings \cup {"download", "none"}
      /\ q.id \in PackageIds \cup {None} /\ q.private \in BOOLEAN /\ q.todo \subseteq Resources
      /\ q.resource \in Resources \cup {None} /\ q.upload \in Uploads \cup {None}
      /\ q.served \in Hash /\ q.channels \in ReleaseTables
      /\ q.outcome \in {"none", "200", "403", "404", "500", "unavailable"}
  BY DEF ClientRow
<1>2. IsHash(q.served) /\ DOMAIN q.channels \subseteq Channels
  BY <1>1 DEF IsHash, Hash, ReleaseTables
<1>3. ASSUME NEW e \in q.promised
      PROVE  /\ e.id \in PackageIds /\ e.resource \in Resources \cup {None}
             /\ e.revision \in RevisionNumber
             /\ \A name \in DOMAIN e.digests : IsHash(e.digests[name][2])
  <2>1. e \in PromiseRow /\ PromiseHolds(e)
    BY DEF ClientRow, ClientHolds
  <2>2. e.id \in PackageIds /\ e.resource \in Resources \cup {None} /\ e.revision \in RevisionNumber
        /\ e.digests \in DigestTables
    BY <2>1 DEF PromiseRow, PromiseHolds, DownloadsInv, ConsumerInv, ConsumerTablesOK, TablesOK,
                PackagesTypeOK
  <2>3. \A name \in DOMAIN e.digests : e.digests[name][2] \in Hash
    BY <2>2 DEF DigestTables
  <2> QED BY <2>2, <2>3 DEF IsHash, Hash
<1>4. q.op = "download" => q.id = q.wanted.id
  BY DEF ClientHolds
<1> QED BY <1>1, <1>2, <1>3, <1>4

LEMMA ClientsAreServed ==
  DownloadsInv => DownloadsKeepTheirPromise /\ ReleasesCanBeListed
<1> SUFFICES ASSUME DownloadsInv PROVE DownloadsKeepTheirPromise /\ ReleasesCanBeListed
  OBVIOUS
<1>1. \A h \in Readers : ClientHolds(client[h])
  BY DEF DownloadsInv
<1>2. DownloadsKeepTheirPromise
  BY <1>1 DEF DownloadsKeepTheirPromise, ClientHolds, DigestsMatch
<1> QED BY <1>1, <1>2 DEF ReleasesCanBeListed, ClientHolds

\* Consumer requests (Refresh, Find, Info), the listings of the publisher API and the
\* downloads keep their shape, whatever the publishers do between two of their calls.
THEOREM DownloadsTypeCorrect == DownloadsSpec => []DownloadsTypeOK
BY DownloadsInvariance, ClientsAreTyped, PTL

\* What Refresh, Find and Info answered stays downloadable while its package is there:
\* the revisions and resource revisions that entityFromPackage and resolveResources
\* named, with the content of the hashes that were given unless the file was named "..".
THEOREM WhatIsAnsweredIsThere == DownloadsSpec => []AnswersStayDownloadable
BY DownloadsInvariance, AnswersAreDownloadable, PTL DEF DownloadsInv

\* The resources of an answer are those that the release names, overridden by the
\* request, and none of them is lost between the two rounds of resolveResources.
THEOREM ReferencesAsReleased == DownloadsSpec => []ResourcesAsReleased
BY DownloadsInvariance, ReferencesAreResolved, PTL DEF DownloadsInv

\* Refresh answers every action it was asked, with an entity or with an error, and fails as
\* a whole only over the package or a resource revision that it looks for in vain; Find
\* does not fail over a package that is deleted meanwhile.
THEOREM EveryPartIsAccountedFor == DownloadsSpec => PartsAreAccountedFor
<1>1. DownloadsInv => ConsumerInv /\ OneResultPerAction /\ SearchesSurviveDeletion
  BY PartsAreCounted DEF DownloadsInv
<1>2. ConsumerInv /\ [DownloadsNext]_downloadVars
        => [\A h \in Readers : FailsForMissingRow(h)]_consumerVars
  BY ReadersFailForMissingRows
     DEF DownloadsNext, downloadVars, consumerVars, Publisher, Client
<1> QED BY <1>1, <1>2, DownloadsInvariance, PTL DEF DownloadsSpec, PartsAreAccountedFor

\* DownloadCharm and DownloadResource deliver what an answer announced, with the digests
\* it announced, however late and unless the file was named ".."; they find nothing only
\* when the package is gone, and every row they find has its object in the store.
THEOREM PromisesAreKept == DownloadsSpec => []DownloadsKeepTheirPromise
BY DownloadsInvariance, ClientsAreServed, PTL

\* ListReleases fails only for a package that is gone: the revisions that its rows name
\* are still there when the loop gets to them.
THEOREM ListingsSucceed == DownloadsSpec => []ReleasesCanBeListed
BY DownloadsInvariance, ClientsAreServed, PTL

=============================================================================
