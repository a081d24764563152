--------------------------- MODULE ResourceTables ---------------------------
(***************************************************************************)
(* The table resource_revisions beside those of Repository.  A definition  *)
(* keeps its id until its package is deleted, because a second push        *)
(* upserts it; so <<package, resource name>> stands for resource_id.       *)
(***************************************************************************)
EXTENDS Repository

CONSTANT Platforms  \* values of the pair of columns bases and architectures

VARIABLE resourceRevisions  \* [p][r]: number -> row, UNIQUE(resource_id, revision)

\* An OCI image is kept in the row itself, anything else in the object store.  The
\* hashes are those of the upload; sha512 and sha3_384, which PushResource takes from
\* the object, are of the same content when the upload has that object to itself.
ResourceRow == [upload    : Uploads,               \* object_key; of an image, history
                oci       : BOOLEAN,               \* object_key is empty
                image     : Payloads \cup {None},  \* oci_image_blob
                digest    : Payloads,              \* sha256, sha384
                platforms : Platforms]

NoResourceRows == [r \in Resources |-> NoRows]

InitResourceTables == resourceRevisions = [p \in PackageIds |-> NoResourceRows]

\* ListResourceRevisions (ORDER BY revision DESC), and the "+ 1" of PushResource.
NextResourceRevision(p, r) ==
  IF DOMAIN resourceRevisions[p][r] = {} THEN 1 ELSE Max(DOMAIN resourceRevisions[p][r]) + 1

\* A slip: UNIQUE(resource_id, revision) is missing and the later row wins.
InsertResourceRowNoUnique(p, r, n, row) ==
  /\ r \in definitions[p]
  /\ n \in RevisionNumber
  /\ resourceRevisions' = [resourceRevisions EXCEPT ![p][r] = WithRow(@, n, row)]

\* A slip: resource_id is no foreign key, and a row outlives its definition.
InsertResourceRowNoForeignKey(p, r, n, row) ==
  /\ n \in RevisionNumber \ DOMAIN resourceRevisions[p][r]
  /\ resourceRevisions' = [resourceRevisions EXCEPT ![p][r] = WithRow(@, n, row)]

\* A slip: the column would have to be wider than it is.
InsertResourceRowAnyNumber(p, r, n, row) ==
  /\ r \in definitions[p]
  /\ n \notin DOMAIN resourceRevisions[p][r]
  /\ resourceRevisions' = [resourceRevisions EXCEPT ![p][r] = WithRow(@, n, row)]

\* Postgres.CreateResourceRevision: the foreign key, UNIQUE and the INTEGER column.
InsertResourceRow(p, r, n, row) ==
  /\ r \in definitions[p]
  /\ n \in RevisionNumber \ DOMAIN resourceRevisions[p][r]
  /\ resourceRevisions' = [resourceRevisions EXCEPT ![p][r] = WithRow(@, n, row)]

\* Postgres.UpdateResourceRevision: bases, architectures and the OCI columns.
UpdateResourceRow(p, r, n, row) ==
  /\ n \in DOMAIN resourceRevisions[p][r]
  /\ resourceRevisions' = [resourceRevisions EXCEPT
       ![p][r][n].platforms = row.platforms, ![p][r][n].image = row.image]

\* ON DELETE CASCADE, package to definition to resource revision.
CascadeToResources ==
  resourceRevisions' =
    [p \in PackageIds |-> IF p \in DOMAIN packages' THEN resourceRevisions[p] ELSE NoResourceRows]

\* DownloadResource: the image in the row, or the object the row names.
ServedContent(row) == IF row.oci THEN row.image ELSE blobs[ObjectKey(row.upload)]

=============================================================================
