----------------------------- MODULE Downloads ------------------------------
(***************************************************************************)
(* What a client does with an answer: it downloads what the answer names,  *)
(* at a time of its own, and checks it against the hash that it was given  *)
(* (DownloadCharm, DownloadResource, and the code that writes their URLs). *)
(* The listings of the publisher API (ListReleases, ListRevisions,         *)
(* ListResources, ListResourceRevisions) are read here too: they give      *)
(* numbers and hashes as Refresh and Info do.                              *)
(*                                                                         *)
(* A client runs one request at a time: while it downloads or lists,       *)
(* its consumer request of module Consumer rests, answered or not asked.   *)
(***************************************************************************)
EXTENDS Consumer

\* A promise of no resource is one of a charm.
ASSUME NoResourceAssumption == None \notin Resources

VARIABLE client  \* client[h]: the listing or download that reader h is at

downloadVars == <<consumerVars, client>>

(***************************************************************************)
(* A digest is the algorithm and the content it is of; digests do not      *)
(* collide.  An answer gives digests under the names of algorithms; the    *)
(* code fills each name from a column.  The column sha384 of an upload and *)
(* both sha384 and sha3_384 of a resource revision are filled by           *)
(* sha512.Sum384, which is SHA-384 and not SHA3-384.                       *)
(***************************************************************************)
Digest(algorithm, content) == <<algorithm, content>>

UploadColumns(x) == [sha256 |-> Digest("sha-256", x), sha384 |-> Digest("sha-384", x)]

EntityDigests(x) == [name \in {"sha-256"} |-> UploadColumns(x).sha256]
ListedDigests(x) == [name \in {"sha3-384"} |-> UploadColumns(x).sha384]
ResourceDigests(x) ==
  [name \in {"sha-256", "sha-384", "sha-512", "sha3-384"} |->
     CASE name = "sha-256" -> UploadColumns(x).sha256
       [] name = "sha-384" -> UploadColumns(x).sha384
       [] name = "sha-512" -> Digest("sha-512", x)
       [] name = "sha3-384" -> Digest("sha-384", x)]

(***************************************************************************)
(* A promise: a revision of a charm (resource None) or of a resource, and  *)
(* the digests it was announced with, none where only the number was given.*)
(* A download URL is the package id, the resource name and the number; the *)
(* id is hexadecimal, so the names that contain "." or "_" are read back.  *)
(***************************************************************************)
Promise(p, r, n, digests) == [id |-> p, resource |-> r, revision |-> n, digests |-> digests]
Nothing == Promise(None, None, 0, NoRows)

Listings == {"releases", "revisions", "resources", "resource-revisions"}

NoClient == [step |-> "Idle", op |-> "none", id |-> None, private |-> FALSE, channels |-> NoRows,
             todo |-> {}, resource |-> None, promised |-> {}, wanted |-> Nothing, upload |-> None,
             served |-> None, outcome |-> "none"]

AtClient(h, step) == client[h].step = step
ClientGoes(h, step) == client' = [client EXCEPT ![h].step = step]

\* The answer is all that is left of a request, and what it asked for; for a download
\* the upload that was served is kept as history.
AnswerTo(q, outcome, promised, served) ==
  [NoClient EXCEPT !.step = "Answered", !.op = q.op, !.id = q.id, !.wanted = q.wanted,
                   !.upload = q.upload, !.promised = promised, !.served = served,
                   !.outcome = outcome]

Answers(h, outcome, promised, served) ==
  client' = [client EXCEPT ![h] = AnswerTo(client[h], outcome, promised, served)]

Fails(h, outcome) == Answers(h, outcome, client[h].promised, None)
Rests(h) == read[h].step \in {"Idle", "Answered"}

DownloadsInit == ConsumerInit /\ client = [h \in Readers |-> NoClient]

-----------------------------------------------------------------------------
(* The listings. *)

\* repo.GetPackageByName; an unknown name is answered 404.
StartListing(h) ==
  /\ AtClient(h, "Idle") /\ AtRead(h, "Idle")
  /\ \E op \in Listings, p \in DOMAIN packages :
       client' = [client EXCEPT ![h] =
         [NoClient EXCEPT !.step = "CanViewPackage", !.op = op, !.id = p,
                          !.private = packages[p].private]]

\* requirePackageView, and what the method does first after it.
MayView(h) ==
  LET first == CASE client[h].op = "releases"           -> "ListReleases"
                 [] client[h].op = "revisions"          -> "ListRevisions"
                 [] client[h].op = "resources"          -> "ListResourceDefinitions"
                 [] client[h].op = "resource-revisions" -> "GetResourceDefinition"
                 [] OTHER -> IF client[h].wanted.resource = None THEN "GetRevisionByNumber"
                             ELSE "GetResourceDefinition" IN
  /\ AtClient(h, "CanViewPackage")
  /\ \/ ~client[h].private /\ ClientGoes(h, first)
     \/ client[h].private /\ Live(client[h].id) /\ ClientGoes(h, first)
     \/ client[h].private /\ Fails(h, "403")
     \/ client[h].private /\ ~Live(client[h].id) /\ Fails(h, "404")

\* repo.ListReleases: one statement, whose rows are then worked through.
ListReleaseRows(h) ==
  /\ AtClient(h, "ListReleases")
  /\ client' = [client EXCEPT ![h].step = "Releases", ![h].channels = releases[client[h].id]]

\* ListReleases, one round of the loop: a revision that is not there is an error of
\* the whole answer.
GetListedRevision(h) ==
  /\ AtClient(h, "Releases")
  /\ \E c \in DOMAIN client[h].channels :
       LET n == client[h].channels[c] history == revisions[client[h].id] IN
       IF n \notin DOMAIN history THEN Fails(h, "404")
       ELSE client' = [client EXCEPT
              ![h].channels = [d \in DOMAIN @ \ {c} |-> @[d]],
              ![h].promised = @ \cup {Promise(client[h].id, None, n, ListedDigests(history[n].digest))}]

\* repo.ListRevisions, of all revisions or of the one the query names.
ListRevisionRows(h) ==
  LET p == client[h].id IN
  /\ AtClient(h, "ListRevisions")
  /\ \E N \in {DOMAIN revisions[p]} \cup {{n} : n \in DOMAIN revisions[p]} :
       Answers(h, "200", {Promise(p, None, n, ListedDigests(revisions[p][n].digest)) : n \in N}, None)

\* repo.ListResourceDefinitions.
ListDefinitionRows(h) ==
  /\ AtClient(h, "ListResourceDefinitions")
  /\ client' = [client EXCEPT ![h].step = "Definitions", ![h].todo = definitions[client[h].id]]

\* A slip: the revision is read off a list that may be empty, and is 0 then.
ListRevisionZero(h) ==
  /\ AtClient(h, "Definitions")
  /\ \E r \in client[h].todo :
       client' = [client EXCEPT ![h].todo = @ \ {r},
         ![h].promised = @ \cup {Promise(client[h].id, r, 0, NoRows)}]

\* ListResources, one round of the loop: the newest revision, 0 when there is none.
ListNewestRevision(h) ==
  LET p == client[h].id IN
  /\ AtClient(h, "Definitions")
  /\ \E r \in client[h].todo :
       client' = [client EXCEPT ![h].todo = @ \ {r},
         ![h].promised = @ \cup
           (IF DOMAIN resourceRevisions[p][r] = {} THEN {}
            ELSE {Promise(p, r, Max(DOMAIN resourceRevisions[p][r]), NoRows)})]

\* repo.GetResourceDefinition, for the list of one resource or for a download.
GetDefinitionRow(h) ==
  /\ AtClient(h, "GetResourceDefinition")
  /\ \E r \in IF client[h].op = "download" THEN {client[h].wanted.resource} ELSE Resources :
       IF r \notin definitions[client[h].id] THEN Fails(h, "404")
       ELSE client' = [client EXCEPT ![h].step = "ListResourceRevisions", ![h].resource = r]

\* repo.ListResourceRevisions: the answer, or the row that a download looks for.
ListResourceRows(h) ==
  LET q == client[h] p == q.id r == q.resource n == q.wanted.revision
      rows == resourceRevisions[p][r] IN
  /\ AtClient(h, "ListResourceRevisions")
  /\ IF q.op # "download"
     THEN Answers(h, "200", {Promise(p, r, i, ResourceDigests(rows[i].digest)) : i \in DOMAIN rows}, None)
     ELSE IF n \notin DOMAIN rows THEN Fails(h, "404")
     ELSE LET found == [q EXCEPT !.step = "GetObject", !.upload = rows[n].upload] IN
          client' = [client EXCEPT ![h] =
            IF rows[n].oci THEN AnswerTo(found, "200", q.promised, rows[n].image) ELSE found]

\* The loop of a listing is over.
EndListing(h) ==
  /\ \/ AtClient(h, "Releases") /\ client[h].channels = NoRows
     \/ AtClient(h, "Definitions") /\ client[h].todo = {}
  /\ Answers(h, "200", client[h].promised, None)

-----------------------------------------------------------------------------
(* The downloads. *)

\* What the consumer request of reader h was promised.
Promised(h) ==
  UNION {LET e == read[h].results[i] IN
         {Promise(e.id, None, e.revision, EntityDigests(e.hash))} \cup
         {Promise(e.id, r, e.resources[r], ResourceDigests(e.hashes[r])) : r \in DOMAIN e.resources} :
         i \in {j \in DOMAIN read[h].results : read[h].results[j] # ErrorEntry}}

\* repo.GetPackageByID of the id in the URL.
StartDownload(h) ==
  /\ client[h].step \in {"Idle", "Answered"}
  /\ \E promise \in client[h].promised \cup (IF AtRead(h, "Answered") THEN Promised(h) ELSE {}) :
       LET q == [NoClient EXCEPT !.op = "download", !.id = promise.id, !.wanted = promise,
                                 !.promised = client[h].promised] IN
       client' = [client EXCEPT ![h] =
         IF Live(promise.id)
         THEN [q EXCEPT !.step = "CanViewPackage", !.private = packages[promise.id].private]
         ELSE [q EXCEPT !.step = "Answered", !.outcome = "404"]]

\* DownloadCharm: repo.GetRevisionByNumber.
GetRevisionRow(h) ==
  LET q == client[h] IN
  /\ AtClient(h, "GetRevisionByNumber")
  /\ IF q.wanted.revision \notin DOMAIN revisions[q.id] THEN Fails(h, "404")
     ELSE client' = [client EXCEPT ![h].step = "GetObject",
                                   ![h].upload = revisions[q.id][q.wanted.revision].upload]

\* blobs.Get of the row's object key; an object that is not there is a 500.
GetObject(h) ==
  /\ AtClient(h, "GetObject")
  /\ IF ObjectKey(client[h].upload) \notin DOMAIN blobs THEN Fails(h, "500")
     ELSE Answers(h, "200", client[h].promised, blobs[ObjectKey(client[h].upload)])

-----------------------------------------------------------------------------
\* The store does not answer, or the client gives up.
ClientUnavailable(h) == client[h].step \notin {"Idle", "Answered"} /\ Fails(h, "unavailable")

\* The client is done with what it was promised.
ClientForgets(h) == AtClient(h, "Answered") /\ client' = [client EXCEPT ![h] = NoClient]

ClientReads(h) ==
  \/ MayView(h) \/ ListReleaseRows(h) \/ GetListedRevision(h) \/ ListRevisionRows(h)
  \/ ListDefinitionRows(h) \/ ListNewestRevision(h) \/ GetDefinitionRow(h) \/ ListResourceRows(h)
  \/ EndListing(h) \/ GetRevisionRow(h) \/ GetObject(h)

Client(h) ==
  /\ Rests(h)
  /\ StartListing(h) \/ StartDownload(h) \/ ClientReads(h) \/ ClientUnavailable(h) \/ ClientForgets(h)
  /\ UNCHANGED consumerVars

DownloadsNext ==
  \/ Publisher /\ UNCHANGED client
  \/ \E h \in Readers : AtClient(h, "Idle") /\ Reader(h) /\ UNCHANGED client
  \/ \E h \in Readers : Client(h)

DownloadsSpec == DownloadsInit /\ [][DownloadsNext]_downloadVars

-----------------------------------------------------------------------------
(***************************************************************************)
(* Properties.                                                             *)
(***************************************************************************)

ClientSteps ==
  {"Idle", "CanViewPackage", "ListReleases", "Releases", "ListRevisions",
   "ListResourceDefinitions", "Definitions", "GetResourceDefinition", "ListResourceRevisions",
   "GetRevisionByNumber", "GetObject", "Answered"}

\* A promise names what can be asked for, and a client works on what it was promised;
\* the consumer requests keep their shape.
DownloadsTypeOK ==
  /\ ConsumerTypeOK
  /\ \A h \in Readers : LET q == client[h] IN
       /\ q.step \in ClientSteps /\ q.op \in Listings \cup {"download", "none"}
       /\ q.id \in PackageIds \cup {None} /\ q.private \in BOOLEAN
       /\ DOMAIN q.channels \subseteq Channels /\ q.todo \subseteq Resources
       /\ q.resource \in Resources \cup {None} /\ q.upload \in Uploads \cup {None}
       /\ IsHash(q.served)
       /\ \A promise \in q.promised :
            /\ promise.id \in PackageIds /\ promise.resource \in Resources \cup {None}
            /\ promise.revision \in RevisionNumber
            /\ \A name \in DOMAIN promise.digests : IsHash(promise.digests[name][2])
       /\ q.outcome \in {"none", "200", "403", "404", "500", "unavailable"}
       /\ q.op = "download" => q.id = q.wanted.id

\* What a listing, a refresh or an info announced is what a download delivers, however
\* late it comes: every digest announced is one of the bytes served, unless the file was
\* named ".." and another has taken its place; the store has every object that a row
\* names, and only a package that is deleted takes its revisions along.
DownloadsKeepTheirPromise ==
  \A h \in Readers : LET q == client[h] IN
    q.op = "download" =>
      /\ q.outcome = "200" /\ Own(q.upload) =>
           \A name \in DOMAIN q.wanted.digests : q.wanted.digests[name][2] = q.served
      /\ q.outcome = "404" => ~Live(q.id)
      /\ q.outcome # "500"

\* The list of releases only fails for a package that is gone: the revision that a
\* release row names has no foreign key, and ListReleases looks each of them up.
ReleasesCanBeListed ==
  \A h \in Readers :
    client[h].op = "releases" /\ client[h].outcome = "404" => ~Live(client[h].id)

\* A digest is what its name says (`json:"hash-sha3-384"`, core/types.go:136 and 152,
\* `json:"sha3-384"`, core/types.go:105): a client that checks what it has downloaded
\* against an announced digest, by the algorithm of its name, finds them equal.
DigestsAreWhatTheyAreCalled ==
  \A h \in Readers : LET q == client[h] IN
    q.op = "download" /\ q.outcome = "200" =>
      \A name \in DOMAIN q.wanted.digests : q.wanted.digests[name] = Digest(name, q.served)

=============================================================================
