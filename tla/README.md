# Verification of the charm registry

TLA+ specifications of the registry under `src/`, the TLC instances that check
them, and TLAPS proofs of the properties that matter most. Paths below are
relative to `src/`.

The registry is a stateless Go HTTP service over two stores: Postgres for
metadata and an S3 bucket for artifacts. Every request runs in a goroutine of its
own. A service method is a plain sequence of repository and object-store calls:
`repo.Postgres` runs each call on the connection pool, so **no transaction ever
spans two calls**, and no mutex protects anything. The hard behaviour of this
program is therefore what happens between two statements: another request's
statements, a failure, a crash, a deletion of the package the request still holds
in a local variable. That is what the specifications are built to show.

## Inventory

| Component | State | Operations | What is hard, and what makes it correct |
|---|---|---|---|
| Registration and metadata, `internal/service/packages.go` | `packages`, `tracks` | `RegisterPackage`, `UpdatePackage` (PATCH), `UnregisterPackage`; reads `Find`, `Info`, `GetPackage`, `ListRegisteredPackages` | Check and act in separate statements; the row read at the start is written back whole. Names are unique, an id is never reused, a deleted package leaves nothing, metadata is not lost. |
| Uploads and charm revisions, `service/revisions.go` | `uploads`, `revisions`, object store | `CreateUpload`, `PushRevision`; reads `ReviewUpload`, `ListRevisions`, `DownloadCharm` | Read the latest number, then insert the next one; six writes that may stop anywhere. Numbers have no gaps, revisions are immutable, what a row names is stored, the review says what happened. |
| Releases, tracks, Refresh, `service/releases.go` | `releases`, `tracks` | `Release`, `CreateTracks`; reads `ListReleases`, `Refresh` | A list served item by item; `releases.revision` has no foreign key. A channel leads to a revision of its package. `Refresh` answers one result per action. |
| Resources, `service/resources.go` | `resource_definitions`, `resource_revisions` | `PushResource`, `UpdateResourceRevisions`; reads `ListResources`, `DownloadResource`, the OCI endpoints | The same read-number-then-insert race; shares the upload's review with charm pushes; write-back of a row read earlier. |
| Postgres repository, `repo/postgres_*.go`, `repo/migrations/0001_init.sql` | all tables | one SQL statement per method | Constraints (unique, foreign key, cascade, INTEGER) are the only thing that orders concurrent requests. |
| In-memory repository, `repo/memory.go` | maps under a mutex | the same interface | Differs from Postgres: no unique revision, no cascade, lists in ascending order. Every test of the service runs on it, so what it shows has to be what Postgres would show. |
| Object store, `blob/store.go` | objects | `Put`, `Get` | An object is put before the row that names it. |
| Archive parsing, `charm/archive.go` | none | `ParseArchive` | Which artifacts are charms and which resources they declare (container images without a resource of their own included). |
| Store tokens, `service/tokens.go`, `repo/postgres_accounts.go` | `store_tokens`, `accounts`, ACLs | issue, exchange, revoke, list, who-am-I | Revocation and expiry race requests in flight; the account profile is written on every request. |
| Authentication, `auth/` | none of its own | bearer, macaroon, dev tokens | Which token authenticates whom, until when. |
| Authorization, `service/helpers.go`, `repo/postgres_packages.go` (`canAccess`) | `package_acl`, `account_group_members`, the columns `private` and `owner_account_id` | `requirePermission`, `requirePackageView`, `requirePackageManage`, `enforceChannelRestriction` | A verdict is put together from a copy of the package, a token and two more statements, while visibility and roles change. Nobody gets in on a right that nobody had, nobody with a standing right is refused, a token moves only its channels. |
| HTTP layer, `api/` | none | decoding, routing, response shape; one service call per route | Download paths and the digests announced with them: what an answer announces is what a download delivers. |
| Generated queries, `repo/db`; `config`, `app`, `cmd`, `core` | none after start-up | wiring and plain data | — |

Components interact by calls only: `api` calls `service`, which calls `auth`-derived
checks, `repo` and `blob`. Shared state is in the two stores; there are no channels,
background goroutines, callbacks or in-process caches.

## Modules

| Module | Content |
|---|---|
| `Repository` | The tables of the publisher side and the object store. One operator per SQL statement or object-store call, enabled exactly when the statement succeeds and touches a row; the guards are the constraints of the schema. |
| `Publishing` | The publisher's methods on packages, uploads, charm revisions, releases and tracks: `req[h]` is the local state of the request that handler `h` serves, one action is one call plus the code up to the next one. |
| `Catalog` | The abstract specification: uniquely named packages, histories that grow by the next number, channels that point into them, and deletion of a package with all it had. |
| `ResourceTables` | The table `resource_revisions`, statement by statement, and the cascade that empties it. |
| `Resources` | `PushResource` and `UpdateResourceRevisions` beside all the requests of `Publishing`, served by the same handlers. |
| `Consumer` | `Refresh`, `Find` and `Info`: readers that take many statements, while publishers execute theirs. |
| `Downloads` | The client's side of `Consumer`: the listings (`ListReleases`, `ListRevisions`, `ListResources`, `ListResourceRevisions`), the promises that answers make, and the downloads (`DownloadCharm`, `DownloadResource`) that redeem them later. |
| `Registry` | The whole service: the handlers of `Publishing` and `Resources` beside the readers and clients of `Consumer` and `Downloads`, on the same tables. |
| `Access` | The authorization in front of every publisher request of `Publishing` and of view requests, with the statements it reads, while administrators change roles. |
| `Memory` | `repo.Memory` and `blob.MemoryStore`, compared call by call with the statements of `Repository` and `ResourceTables`. |
| `Tokens` | Store tokens: the authentication of a request, statement by statement, and the methods that issue, exchange, list and revoke. |
| `MCPublishing`, `MCResources`, `MCDownloads`, `MCRegistry`, `MCTokens`, `MCMemory`, `MCAccess` and `MC*.cfg` | The instances for TLC. |
| `PublishingProofs` | The inductive invariant of `Publishing`, its proof and the theorems on the invariants; that `Publishing` implements `Catalog` and that revisions are immutable. |
| `ResourcesProofs` | The invariants of `Resources`. |
| `AnswersProofs` | What reviews and answers of `Publishing` promise, alone and beside the requests of `Resources`; the review that pushes of both kinds share. |
| `DownloadsProofs` | The invariants of `Consumer` and `Downloads`: what answers and listings announce, and what downloads deliver. |
| `RegistryProofs` | The service implements `Resources` and `Catalog`, and the invariants of its readers and clients hold beside the handlers. |
| `AccessProofs` | `Access` implements `Publishing`; what authorization guarantees. |
| `TokensProofs` | The invariants and action properties of `Tokens`. |
| `MemoryProofs` | The invariants of `Memory`, and that each of its calls is a statement of Postgres or a named difference. |

Definitions that begin with the comment "A slip" are deliberate faults, written
next to the definition they would replace. They are not part of the specification;
each shows that the property named with it in `PROJECT.json` would notice such a
fault.

### From code to model

A method's local variables are the fields of `req[h]`: `id` is `pkg.ID`, `pkg` the
whole package as it was read, `upload` and `digest` what `GetUpload` returned,
`number` the computed revision number or the revision a release item names, `left`
the items of a release still to be served, `work` the tracks or resource
definitions still to be written. `step` names the call that comes next:

| Method | Calls, in the order of the code |
|---|---|
| `RegisterPackage` | `CreatePackage`, `InsertTrack` |
| `UpdatePackage` | `GetPackageByName`, `RequirePackageManage`, `UpdatePackage` |
| `UnregisterPackage` | `GetPackageByName`, `RequirePackageManage`, `ListRevisions`, `DeletePackage` |
| `CreateUpload` | `PutBlob`, `CreateUpload` |
| `PushRevision` | `GetPackageByName`, `RequirePackageManage`, `GetUpload`, `GetBlob`, (`RejectUpload` or) `GetLatestRevision`, `CreateRevision`, `ApproveUpload`, `PublishPackage`, `UpsertResourceDefinition`* |
| `Release` | `GetPackageByName`, `RequirePackageManage`, (`GetRevisionByNumber`, `ReplaceRelease`)*, `EndBatch`, `PublishPackage` |
| `CreateTracks` | `GetPackageByName`, `RequirePackageManage`, `InsertTrack`* |
| `PushResource` | `FindPackage`, `MayManage`, `GetResourceDefinition`, `GetResourceUpload`, `GetResourceBlob`, `ListResourceRevisions`, `CreateResourceRevision`, `ApproveResourceUpload` |
| `UpdateResourceRevisions` | `FindPackage`, `MayManage`, `GetResourceDefinition`, (`GetResourceRevision`, `UpdateResourceRevision`)*, `EndUpdates` |
| `Refresh` | `StartRefresh`, (`NextAction`, `RequirePackageView`, `GetWantedRevision` or `ResolveRelease` or `ResolveDefaultRelease` and `ResolveAnyRelease`, `GetReleasedRevision`, (`GetReferencedDefinition`, `GetReferencedRevision`)*, `StartOverrides`, …, `Compose`)*, `Answer` |
| `Find` | `SearchPackages`, (`NextPackage`, `RequirePackageView`, `ResolveDefaultRelease`, `ResolveAnyRelease`, `GetReleasedRevision`)*, `Answer` |
| `IssueStoreToken`, `ExchangeStoreToken` | `StartWithClaims` or `StartAnonymous` or `StartWithSecret`, (`FindStoreTokenByHash`, `CheckToken`,) `EnsureAccount`, `IssueStoreToken`, `CreateStoreToken` |
| `RevokeStoreToken`, `ListStoreTokens` | the same as far as `EnsureAccount`, (`RevokeStoreToken`,) `ListStoreTokens` |
| `Info` | `StartInfo`, `RequirePackageView`, then as `Refresh` for an action that names no channel, `ListReleases`, `LookAtChannel`*, `Answer` |
| `ListReleases` | `StartListing`, `MayView`, `ListReleaseRows`, `GetListedRevision`*, `EndListing` |
| `ListRevisions` | `StartListing`, `MayView`, `ListRevisionRows` |
| `ListResources` | `StartListing`, `MayView`, `ListDefinitionRows`, `ListNewestRevision`*, `EndListing` |
| `ListResourceRevisions` | `StartListing`, `MayView`, `GetDefinitionRow`, `ListResourceRows` |
| `DownloadCharm` | `StartDownload`, `MayView`, `GetRevisionRow`, `GetObject` |
| `DownloadResource` | `StartDownload`, `MayView`, `GetDefinitionRow`, `ListResourceRows`, (`GetObject`) |
| `requirePackageManage`, `requirePackageView` | `GetPackageToManage` or `GetPackageToView`, `GetPackageOwner`, `CanAccess` |

In `Resources` a package is deleted by an action of `Publishing`; `CascadeToResources`,
conjoined to every such action, is the foreign key's `ON DELETE CASCADE`.

In `Consumer` the publishers are not handlers but the statements they execute, any of
them at any time, restricted to the arguments that the theorems about `Publishing`
prove they have: the next number (`NumberingIsContiguous`), a release of a revision that
exists (`ChannelsResolve`), rows that name stored objects (`PublishedIsStored`), with the
digest of the object or, when that is shared, of any content it had before (`Digests`). Two
columns only readers care about are added there: the resources of a release (`refs`),
which `Release` stores unchecked, and `default_track` (`defaults`). A reader's error is
either translated (`NotFound`) or not (`MissingRow`), and what becomes of it depends on
the method, as in the code. `RequirePackageView` shows both kinds: a private package is
a 404 of its own action, while one that was deleted after `GetPackageByName` makes
`canAccess` return `repo.ErrNotFound`, which nobody translates. An answer keeps what leads to downloads: package, revision,
resources, and the digests the rows had when they were read.

`Registry` puts the handlers back where `Consumer` has statements. It adds nothing to what
they do but the two columns: `RegisterPackage` sets `default_track` to `latest`,
`repo.GetPackageByName` copies it with the rest of the row (`copied[h]`), a PATCH may change
the copy, every `repo.UpdatePackage` writes the copy back, and `ReplaceRelease` stores the
resources of its request. Handlers and readers share the tables and nothing else.

`Downloads` adds `client[h]`, the listing or download of the client that also sends the
consumer request `read[h]`, one request at a time, with the row's upload in `upload`.
Its answers leave *promises*: a
revision of a charm or a resource with the digests it was announced under. A digest is a
pair of an algorithm and the content, stored under the name that the JSON gives it, since
the code fills names and algorithms in different places. A download picks any promise, at
any later time.

`Access` extends `Publishing`. `judge[a]` is the authorization of request `a`: identity,
permission and the copy of the package that were read first, and the next statement of
`canAccess`. Every step of a publisher request is the step of `Publishing` under the
guard `Allowed`. `owner` is a column of `packages`; `acl` and `members` are the two
tables on roles, which no code writes, so `Administer` stands for the operator's SQL.
`seen` is a history variable: whether the request was entitled at some instant since it
read the package, and the grounds (ownership, a role, visibility) that have stood all
along. The columns `role` and `principal_type` are free text, and the tables may hold any
row: one with a role that `canAccess` does not name gives nobody anything. The query of
`ListPackagesForAccount` (`postgres_packages.go:131`), which takes any role, is a single
statement whose result no method works on, and is left out.

`Memory` stands alone, too: every method of the in-memory store is one step, since it
holds the lock throughout, and calls follow one another as in the tests, with arguments
the service makes of what it has just read. `T` is an instance of `ResourceTables` over
what its read methods show; `RunsLikePostgres` says that every call is a statement of
`T`, or one of three differences that the module names: `RegistersAtOnce` (a package
and its first track are one step), `LosesResourceRevisions` (a second push of a charm
replaces the definitions, and their revisions are found no more) and
`RepeatsResourceNumber` (`existing[0]` is the oldest revision, so from the third push on
a number is given out twice). These are why contiguity and immutability of resource
revisions cannot be tested on that store. A search is a relation, `Matches`, between
queries and the names that contain them.

`RunsLikePostgres` is about what calls write. What they read is compared where the
properties name the method (`IndexesAgree`, with `RevisionReads`, and `AccountsAgree`), and
it does differ. A test on this store does not see that in Postgres

- most lists have another order: revisions of charms and of resources come newest first
  there and in the order of the pushes here; packages, releases and resource definitions
  come sorted there and in the order of a map here;
- `ListRevisions` of a number that is missing is an empty list, and the answer a 200;
  here it is `ErrNotFound`, and a 404 (`memory.go:335-340`, `postgres_revisions.go:126-145`);
- `ListTracks` of a package that is missing is an empty list; here it is `ErrNotFound`;
- access goes by the roles of `package_acl` and of groups too, in `canAccess` and in
  `ListPackagesForAccount`; here only by the owner;
- `%` and `_` in the query of a search are wildcards of `ILIKE`;
- `ResolveDefaultRelease` goes by the package's default track and else takes the newest release; here by `latest/stable`, and else any;
- a token is listed as active up to the instant it expires at, exclusively; here inclusively.

`Tokens` stands alone: authentication comes before every method, shares no table with
the others, and hands them an identity. A session id stands for its secret and its hash.
One clock, which any number of steps may pass by, is the clock of the registry and of
the database; a token is made in one step (`IssueStoreToken` takes the time) and
inserted in another. A secret can be presented once it was handed out.

`Reply` is the return with a result. `Fail` may happen at any call: it ends the
request and leaves everything written so far in place. It stands for every error
path at once (a 400, 403 or 404 answer, a violated constraint, an unreachable
store, a cancelled context, a crash of the process between two calls, and an answer
the client never receives), because the code treats them all alike: it returns and
undoes nothing. A client that retries after such an answer is simply a new request.

The abstractions:

- **Names, ids, payloads** are model values. A package id is a fresh UUID:
  `minted` remembers the ids ever inserted, and an id is never inserted twice. An
  upload id is fresh too.
- **Object keys** are `filepath.Join("uploads", id, filename)` with the client's file name
  (`internal/service/revisions.go:30`). Of what the multipart reader lets through, `..` is
  the one name that takes the id out of the path again: every upload of that name
  has the key `uploads`, and `Put` overwrites (`internal/blob/store.go:130`). `DotDot` is the
  set of these uploads, any subset of `Uploads`; their key is `SharedKey`, and the id stands
  for the key of any other (`ObjectKey`). What is checked and proved is that the damage stays
  among them: a property that compares a row with its object does so for uploads with an
  object to themselves (`Own`), and what a row names is stored in every case.
- **Digests** are injective: the digest of a payload is the payload.
- **Package columns**: name, status, and `private`, which stands for the columns
  that only a metadata PATCH sets. `UpdatePackageRow` writes every column from the
  copy the request holds, except the name, as the statement does.
- **Parsing**: `Charms` is the set of payloads `ParseArchive` accepts and
  `Declared` gives the resources a charm lists. The loop over the resources follows
  Go's map order, which is arbitrary; so is the order of `work`. Tracks are
  inserted in the order of the request; here in any order, which includes it.
- **Permissions**: in `Publishing` `RequirePackageManage` is a call that passes or, by
  `Fail`, does not; which identity passes is the subject of `Access`. A package whose ACL
  lookup finds it deleted does not pass, hence the guard `Live`.
- **`MaxRevision`** is the limit of the column `revisions.revision INTEGER`, and not
  a bound of the model: the code counts with `int`, and an insert beyond the limit
  is refused by the database. It is small in the instances so that the refusal happens.
- **Bounds** of the model: the sizes of `PackageIds` and `Uploads` (registrations
  and uploads in a behaviour), `Handlers`, `Readers` and `Viewers` (requests at a time),
  `MaxBatch` (items of a release request), `MaxUpdates` (items of an update request),
  `MaxActions` (actions of a refresh), `MaxPushes` (pushes of one resource), `MaxTime`
  (instants of the clock), and `Grants` and `Memberships` (the rows administrators insert).

## Runs

| Run | Instance | Shows |
|---|---|---|
| `publishing` | 2 handlers, 1 package, 3 uploads, two of them named `..`, a charm that declares two resources and a payload that is none, 1 track, 1 channel, one revision number, all operations, and beside a shared object uploads and pushes; 2.0 million states up to symmetry | The tables stay well-typed (`TypeOK`), channels resolve (`ReleasesResolve`), nothing outlives its package (`NoOrphanRows`), `ArtifactsStored`, `ReviewIsTruthful`, `RepliesAreTrue`, and `Publishing` implements `Catalog` (`ImplementsCatalog`). |
| `resources` | 2 handlers, 1 package, two of 3 uploads, two of them named `..`, 1 resource, two revision numbers (one beside a shared object), 1 value of the platform columns, register, upload and push beside the resource requests; 2.2 million states up to symmetry | Beside resource requests, the numbers of a package have no gap (`RevisionsContiguous`), a conflict is a lost race (`NumberWasNext`) and a published revision stays (`RevisionsImmutable`); `ResourcesTypeOK`, `ResourceRevisionsContiguous`, `ResourcesServeTheirHash`, `ReviewNamesARevision`, `ResourceRepliesAreTrue`, `ResourceContentImmutable`. |
| `resources_deleted` | 2 handlers, 1 package, 1 upload, updates of one item, all operations but the PATCH, no symmetry; 0.1 million states | `NoOrphanResources`, and every request ends: `EveryRequestEnds`. |
| `downloads` | 1 reader, 1 package id, 2 uploads, one of them named `..`, two payloads, 1 channel, one revision of the charm, 1 resource pushed twice (once beside a shared object), refreshes of one action, searches, infos, listings and downloads; 1.1 million states up to symmetry | `DownloadsTypeOK` (with `ConsumerTypeOK`), `AnswersStayDownloadable`, `ResourcesAsReleased`, `PartsAreAccountedFor`, `DownloadsKeepTheirPromise`, `ReleasesCanBeListed`. |
| `tokens` | 2 handlers, 2 subjects, one of them the development one, 2 sessions, tokens with and without restrictions, 3 instants; 2.1 million states up to symmetry | `TokensTypeOK`, `ActsForOwner`, `DeadTokensAreRefused`, `RevocationIsShown`, `DeadForGood`, `ExchangeKeepsRestrictions`. |
| `memory` | 1 package of one of two names, a query that one of them contains, 2 tracks, 1 resource pushed up to 3 times, 1 upload, named `..`, 2 definition ids, 2 accounts, 1 token; 0.29 million states up to symmetry | `MemoryTypeOK`, `IndexesAgree`, `AccountsAgree`, `RunsLikePostgres`. |
| `access` | 1 publisher and 1 view request, 1 package, 2 channels; the owner, a stranger, and another account with two kinds of token, which is a viewer by itself and an editor by a group, and an auditor, which `canAccess` does not know; 1.5 million states | `AccessTypeOK`, `ActsOnlyWhenEntitled`, `StandingRightsSuffice`, `ChannelsAsGranted`. |
| `unregister_race` | 2 handlers | A violation of `UnregisterDeletesOnlyEmpty`; see Findings. |
| `stale_write_back` | 2 handlers | A violation of `OnlyPatchChangesPrivate`; see Findings. |
| `refresh_errors` | `Registry`: 1 handler and 1 reader | A violation of `RefreshFailsOnlyOnInfrastructure`; see Findings. |
| `bare_risk` | `Registry`: 1 handler and 1 reader, the channels `stable` and `latest/stable` | A violation of `ReleasedChannelIsFound`; see Findings. |
| `digest_names` | 1 reader | A violation of `DigestsAreWhatTheyAreCalled`; see Findings. |

Why the bounds are enough to meet the interesting cases: two handlers suffice for
every race between two methods. In `publishing` two uploads and one number give a conflict
and a push at the limit of the column, two uploads named `..` let one overwrite the object
of the other before, between and after its pushes, and two resources let a push stop between
its definitions. The bound `FewRows` spends the states on what concerns the shared object: once
there is one, only uploads and pushes go on. The properties about numbers are checked in `resources`, where a second number
leaves room for a gap and for an old revision to be rewritten. A channel that moves from
one revision to another takes two numbers in `publishing`, and a package that is deleted
and registered again under a request that holds the old id takes two ids: the theorems
below hold for any number of either, and so they do for handlers and channels. In the
resource runs two uploads let a charm push and a resource push write the same review, and a
package with a definition can be deleted only by losing the race of `unregister_race`,
which two handlers reach. In `downloads` one reader is enough, since
readers write nothing; a resource with two revisions lets an action override the number that
the release names, or name one where the release has a number nobody pushed, which is the
missing row; an upload named `..` can be pushed, overwritten with the other payload and
downloaded. A channel that moves from one charm revision to another while it is read takes two
of these, and `Info` goes on to another channel only where there are two, which the theorems
cover. In `tokens` two sessions are a
token and the one it is exchanged for, and three instants let a token expire under a
request that has read it. In `memory` a name that contains the query and one that does not tell a search from a list
of everything, three pushes are what it takes for a number to be repeated, and two definition ids for a second push of a charm to replace one; what a second
package might change is covered by the theorems. In `access`
the publisher request changes visibility under the view request and the administrator
changes both kinds of role under both.

**Deadlock** is not checked: an instance runs out of ids and names, and a registry to which
nobody sends a request has nothing to do.

**Fairness.** `FairSpec` assumes weak fairness of `Proceed(h) \/ Fail(h)` for each handler
and nothing else: a repository or object-store call returns, with a result or with
an error. The code gives that: every method runs to its end in its own goroutine,
waits for no other request and holds no lock, and each call is made with the
request's context, whose end is an error. No request has to arrive, no call has to
succeed, and which of the two happens is open. `EveryRequestEnds` therefore
rests on the loops consuming their lists, which is what its mutant breaks. `ResourcesFairSpec` assumes
the same of resource requests beside the others. Nothing is said of readers and clients,
whose loops consume lists that they have read before.

## Findings

- **A non-empty package can be deleted** (run `unregister_race`). `UnregisterPackage`
  "deletes an empty package from the registry" (`internal/service/packages.go:145`):
  it lists the revisions, and deletes the package in another statement. A push whose
  `CreateRevision` falls in between publishes a revision that goes with the package.
- **A finished metadata change can be undone** (run `stale_write_back`). `Release` and
  `PushRevision` read the package at their start and write the whole row back at
  their end, to set `status`. A PATCH that completes in between is reverted: a
  package that was made private is public again.

- **One action can fail a whole refresh** (run `refresh_errors`). The comment on
  `Refresh` (`internal/service/releases.go:157`) promises that the errors of an action
  stay with it, and that "only unexpected infrastructure errors (DB, blob storage) are
  returned as a top-level error". The lookups of a released revision and of its resources
  return `repo.ErrNotFound` untranslated, and `Release` does not check the resources it
  is given: a release that names a resource revision nobody pushed, an override of the
  same kind, or a deletion between two statements makes the answer a 404 for all actions. A
  private package that is deleted before `canAccess` looks at it does the same
  (`internal/service/helpers.go:63`). `PartsAreAccountedFor` says that there is no other way.
- **A bare risk is released to one channel and looked up in another** (run
  `bare_risk`). `Release` stores the channel as given; `Refresh` looks up
  `normalizeChannel` of it. A revision released to `stable` is not found by a refresh of
  `stable`, although `Info` shows it as track `latest`, risk `stable`.
- **What is called SHA3-384 is SHA-384** (run `digest_names`). `PushResource` computes
  `sha3384sum` with `sha512.Sum384` (`internal/service/resources.go:96`), and the lists of
  revisions and releases give the column `sha384` as `"sha3-384"`
  (`internal/api/http_revisions.go:41`, `internal/service/releases.go:109`,
  `internal/core/types.go:105`). Under the other names the digests are right
  (`DownloadsKeepTheirPromise`: each is one of the bytes that are served), so a client
  that checks `hash-sha-256` succeeds and one that checks SHA3-384 rejects every download.

What is *not* a finding: a release to a channel of a package that was deleted and
registered anew cannot reach the new package, since the request keeps the old id
(`NoOrphanRows`, `ImplementsCatalog`); an identity whose right moves from a role to
visibility between the two statements of `canAccess` may be refused, since no instant
shows both (`StandingRightsSuffice` is about a right that stands on one ground); the
items of a release request before one whose channel the token does not allow are released
although the answer is a 403 (`ChannelsAsGranted` holds all the same); a push that is repeated after a lost answer
publishes the same upload as a further revision, and the review then names the last
of them (`ReviewIsTruthful` holds). Nor are uploads whose files are named `..`: a later one
replaces the object of an earlier one, and a download of the earlier delivers other bytes than
its row announces, but no text of the repository says that it would not; the properties say
that no other upload suffers. `ReviewIsTruthful` needs its exception for
deleted packages: an upload survives the package it was published in.

## Proofs

`tlapm` checks every proof module for every value of the constants. What is assumed
of them is named in the module that declares them, and TLC evaluates it on every run:

- `Repository`, `Publishing`: `"latest"` is a track, charms are payloads, `Declared` is a
  function into sets of resources, `MaxRevision` is a positive integer, `None` is no id
  or payload, served operations are operations, `MaxBatch` is a natural number, `DotDot` is a
  set of uploads, and `SharedKey` is no upload's id;
- `Resources`: served resource operations are such operations, `MaxUpdates` is a natural
  number;
- `Consumer`, `Downloads`: questions are questions, `MaxActions` and `MaxPushes` are natural
  numbers, `None` is no resource;
- `Tokens`: subjects, sessions, scopes and instants are what they are compared with, and
  `None` is none of them;
- `Access`: `None` is no account, identity or channel list, grants are for package ids
  (a foreign key), and no view request is also a publisher's handler;
- `Memory`: `MaxTime` and `MaxPushes` are natural numbers, `MaxRevision` is at least 2, since
  the store has no column that the number 2 would be too large for, `"latest"` is a track,
  `SharedKey` is no upload's id, and `None` is no subject, name, query, number, revision or
  list of revisions.

Nothing is assumed about how many handlers, readers, ids or accounts there are; they may be
infinitely many.

| Theorem | Statement |
|---|---|
| `TypeCorrect` | `Spec => []TypeOK` |
| `NumberingIsContiguous` | `Spec => []RevisionsContiguous` |
| `ChannelsResolve` | `Spec => []ReleasesResolve` |
| `NothingOutlivesItsPackage` | `Spec => []NoOrphanRows` |
| `PublishedIsStored` | `Spec => []ArtifactsStored` |
| `ConflictsAreRaces` | `Spec => []NumberWasNext` |
| `PublishingImplementsCatalog` | `Spec => ImplementsCatalog` |
| `PublishedRevisionsStay` | `Spec => RevisionsImmutable` |
| `ReviewsAreTruthful` | `Spec => []ReviewIsTruthful` |
| `PushesKeepTheirPromise` | `Spec => []RepliesAreTrue` |
| `ResourcesTypeCorrect` | `ResourcesSpec => []ResourcesTypeOK` |
| `ResourceNumberingIsContiguous` | `ResourcesSpec => []ResourceRevisionsContiguous` |
| `NoResourceOutlivesItsDefinition` | `ResourcesSpec => []NoOrphanResources` |
| `ResourcesAreWhatTheyWere` | `ResourcesSpec => []ResourcesServeTheirHash` |
| `PushedResourcesAreThere` | `ResourcesSpec => []ResourceRepliesAreTrue` |
| `ResourceContentStays` | `ResourcesSpec => ResourceContentImmutable` |
| `NumberingSurvivesResources` | `ResourcesSpec => []RevisionsContiguous` |
| `ConflictsAreRacesBesideResources` | `ResourcesSpec => []NumberWasNext` |
| `RevisionsSurviveResources` | `ResourcesSpec => RevisionsImmutable` |
| `ReviewsNameRevisions` | `ResourcesSpec => []ReviewNamesARevision` |
| `PushesKeepTheirPromiseBesideResources` | `ResourcesSpec => []RepliesAreTrue` |
| `DownloadsTypeCorrect` | `DownloadsSpec => []DownloadsTypeOK` |
| `WhatIsAnsweredIsThere` | `DownloadsSpec => []AnswersStayDownloadable` |
| `ReferencesAsReleased` | `DownloadsSpec => []ResourcesAsReleased` |
| `EveryPartIsAccountedFor` | `DownloadsSpec => PartsAreAccountedFor` |
| `PromisesAreKept` | `DownloadsSpec => []DownloadsKeepTheirPromise` |
| `ListingsSucceed` | `DownloadsSpec => []ReleasesCanBeListed` |
| `HandlersRunAsBefore` | `RegistrySpec => ResourcesSpec` |
| `ServiceImplementsCatalog` | `RegistrySpec => ImplementsCatalog` |
| `HandlersKeepTheirPromises` | `RegistrySpec => [](RepliesAreTrue /\ ResourceRepliesAreTrue /\ ReviewNamesARevision)` |
| `ReadersFindTheTablesInOrder` | `RegistrySpec => [](ReleasesResolve /\ NoOrphanRows /\ ArtifactsStored)` |
| `RegistryTypeCorrect` | `RegistrySpec => []DownloadsTypeOK` |
| `AnswersSurviveTheHandlers` | `RegistrySpec => []AnswersStayDownloadable` |
| `ReferencesSurviveTheHandlers` | `RegistrySpec => []ResourcesAsReleased` |
| `PartsSurviveTheHandlers` | `RegistrySpec => PartsAreAccountedFor` |
| `PromisesSurviveTheHandlers` | `RegistrySpec => []DownloadsKeepTheirPromise` |
| `ListingsSurviveTheHandlers` | `RegistrySpec => []ReleasesCanBeListed` |
| `AccessImplementsPublishing` | `AccessSpec => Spec` |
| `AccessTypeCorrect` | `AccessSpec => []AccessTypeOK` |
| `NobodyActsUnentitled` | `AccessSpec => []ActsOnlyWhenEntitled` |
| `StandingRightsAreHonoured` | `AccessSpec => []StandingRightsSuffice` |
| `ChannelsMoveAsGranted` | `AccessSpec => ChannelsAsGranted` |
| `TokensTypeCorrect` | `TokensSpec => []TokensTypeOK` |
| `RequestsActForOwner` | `TokensSpec => []ActsForOwner` |
| `DeadTokensDoNotAuthenticate` | `TokensSpec => []DeadTokensAreRefused` |
| `RevocationsAreShown` | `TokensSpec => []RevocationIsShown` |
| `TheDeadStayDead` | `TokensSpec => DeadForGood` |
| `ExchangesKeepRestrictions` | `TokensSpec => ExchangeKeepsRestrictions` |
| `MemoryTypeCorrect` | `MemorySpec => []MemoryTypeOK` |
| `BothIndexesAgree` | `MemorySpec => []IndexesAgree` |
| `TokensLeadToTheirAccounts` | `MemorySpec => []AccountsAgree` |
| `CallsRunLikePostgres` | `MemorySpec => RunsLikePostgres` |

None of these invariants is inductive. `ReleasesResolve` alone says nothing about a
request that has checked its revision and not yet written its channel;
`RevisionsContiguous` alone nothing about a number computed two statements ago. The
inductive invariant `IInv` is `TablesOK` (the table invariants together) and, for
each handler, `InFlight(h)`: what is known of the values the request has read. The
point of the argument is that this knowledge is *stable*: other requests may do
anything and it stays true. `Grows` says how the tables may change in a step: while
a package lives its revisions only grow, uploads and objects never go, only the
shared object changes its payload, ids are never reused, and once a package is gone it stays gone.
`InFlight` is phrased as "the package is gone, or …", so it survives `Grows`; each
action then has to be shown only to satisfy `Grows`, to keep `TablesOK` and to
establish `InFlight` of its own handler.

For the refinement, `StatementOfAStep` reduces a step of `Publishing` to one of the
statements of `Repository` with the facts the invariant gives about its arguments;
each statement is then one step of `Catalog` or a stutter. Here contiguity is what
makes the insert of a revision the *next* one: a number that is in `1..NextRevision`
and not yet taken is `NextRevision`. Immutability follows from the same lemma.

**Answers and reviews.** `PromisesInv` adds to `IInv` what a request that has got as far
as its last calls may count on (`HasDone`: the row it inserted, the review it wrote, the
definitions and tracks it has served so far), and `AnswersInv` adds `ReviewsOK` to that. All of it is stated of
packages that live, so it survives `Persists`, which only lets reviews change: the two
actions that write a review, `ApproveUpload` and `RejectUpload`, are shown separately.
A review that a concurrent push overwrites is still true, since its number too names a
revision of the same payload.

**Resources.** `ResourcesInv` is `IInv` of the charm side, the table of resource
revisions, and `ResourceInFlight(h)` for each resource request; it is stable under
`Keeps`. A step of a charm request is, by `StatementOfAStep`, a statement on the other
tables together with `CascadeToResources`, so a lemma (`OtherRequestStep`) covers all of them
at once. Since `ResourcesInv` contains `IInv`, what that says of charm revisions and their
numbers holds beside resource requests too (`NumberingSurvivesResources` and the two after
it); a resource request never touches the table of revisions.
`ServedInv` is `ResourcesInv` with `PromisesInv` and `ReviewNamesARevision`. Beside resource
requests `ReviewsOK` is false, since a resource push may be the last to review an upload;
`HasDone` asks of a review only that it approves, and a push of either kind that is about
to write its review has its row, which goes only with its package. Of uploads whose object is shared none of this
says what they contain, only that they are there.

**Readers and clients.** `DownloadsInv` is `ConsumerInv` with `ClientHolds(h)`, what a
client was promised and what its download has found. Publishers are nothing but
statements here, so the argument has two halves that meet in `Lasts`. The first half shows
that every statement of a publisher keeps the tables in order (`ConsumerTablesOK`) and
takes no revision, digest or object from a package that lives, nor the content from an object
that one upload has to itself (`DigestsOfAnUpload` is what `Digests` leaves a row to say). The second shows that what
a reader has gathered (`ReaderHolds`: its entity so far, the resources resolved, the
results counted) and what a client relies on (`PromiseHolds`, `ChannelsLead`) is stable
under `Lasts`, because it is said of packages that live, and that each step of a reader or
a client establishes it for the values it has just read. `ResourcesAsReleased` needs to
know how far each of the two rounds of `resolveResources` has come (`GatheredSoFar`), and
`PartsAreAccountedFor` how many actions are answered, at hand and left (`Accounted`). Its
second half is about the step that ends a refresh with a 404: `OnlyMissingRowsFail` goes through
the steps that can, and finds the row that each of them missed.

**The whole service.** In `Consumer` publishers have only the arguments that the theorems
about `Publishing` leave them; that this is no restriction is proved, not assumed.
`RegistryInv` is `ResourcesInv` and `DownloadsInv` together, with the type of `copied`. A
step of a handler keeps the first because it is a step of `Resources` (`HandlesAsBefore`),
and satisfies `Lasts` (`HandlersLast`); the second half of `DownloadsProofs` asks for
nothing but `Lasts` and tables in order of whoever writes (`WriterKeepsReaders`,
`WriterKeepsClients`), so it serves for handlers as it does for the statements of
`Consumer`. Only the columns `refs` and `defaults` need an argument of their own
(`PackageColumns`: a release row and its resources are written together and go together). A
step of a reader changes no table and no handler.

**Authorization.** `AccessInv` is `AnswersInv` with `RightsOK` (the keys of the tables of
rights), `JudgeOK`, which relates the stage of each authorization and what it has read to
the history in `seen`, and `HandlerOK`, which ties the request's step to its
authorization. `ExistsRoleIsRole` shows that the SQL joins find exactly the roles.
What the history says stays true while requests of others run; a step that removes a
ground removes it from `seen` in the same step. That a step of `AccessSpec` is a step of
`Spec` follows from the guards alone, so the theorems above hold behind authorization too.

**Tokens.** `TokensInv` is `StoreOK` (hashes and account ids are keys) with what a request
knows of the token it presented (`KnowsSecret`) and of the row it is making (`KnowsWork`,
`FreshIsOwn`). It is stable under `Ages`: tokens only get older or revoked, and accounts
keep their subject.

**The in-memory store.** A call is one step, so `MemoryInv` knows nothing of requests in
flight; it says what the maps have in common, and each conjunct is there because a read
method relies on it. `AccountMapsOK` and `PackageMapsOK` make the two maps of accounts and
of packages each other's inverses (`IndexesAgree` and `AccountsAgree` follow).
`RevisionListsOK` puts number `i` at position `i` of a list of revisions, which is why the
loop of `GetRevisionByNumber` finds the right one and the last is the greatest.
`ReleaseMapsOK` and `DefinitionMapsOK` let only a package with a revision have releases or
definitions: `UnregisterPackage` deletes only packages without revisions, so nothing that
Postgres would cascade to is ever left behind, and no two resources share a definition id.
`ItemListsOK` says which numbers the list of a resource holds: 1, then 2 for ever, since
`existing[0]` is the oldest. `RunsLikePostgres` then follows call by call.
`PackageCallIs`, `RevisionCallIs` and `ResourceCallIs` reduce a call to what it writes,
`ShownPackagesAre`, `ShownRevisionsAre` and `ShownItemsAre` say what the read methods make
of the maps, and `OneListShows` that a change to the rows of one resource shows nowhere
else. Of the reads, `SearchShowsTheSame` and `RevisionsReadTheSame` are the parts of
`IndexesAgree` that go through a relation of names and through a loop over a list.

Left to TLC: `EveryRequestEnds` (liveness under fairness is out of this prover's reach), and
the violations. `Registry` is run for its violations, which TLC
meets after some thirty thousand states; the properties of its readers and clients are run on
`DownloadsSpec`, those of its handlers on `ResourcesSpec`, and proved of both together. Every other property of a run that passes is
proved.

## Plan

Done: `Repository`, `Publishing` and `Catalog`, `ResourceTables`, `Resources`, `Consumer`,
`Downloads`, `Registry`, `Access`, `Memory`, `Tokens`, each with its proofs. Left:

1. Pure functions: `populateContainerResources`, `mergeLinks`, `extractBases`.
2. The store tokens and the roles in front of `Registry`: `Tokens` shares no table with it,
   and `Access` is composed with `Publishing` only.

Not to be modelled: the HTTP decoding and the shape of responses, cryptography and
OIDC discovery, generated code that nothing calls, configuration and start-up.
