------------------------------ MODULE Consumer ------------------------------
(***************************************************************************)
(* The side that juju talks to: Refresh, Find and Info (releases.go,       *)
(* packages.go).  A request reads in many statements, and the publishers   *)
(* go on writing between any two of them.  Here a publisher is nothing but *)
(* the statements it can execute, with the arguments that the theorems     *)
(* about Publishing leave it: a revision gets the next number, a release   *)
(* names a revision, a row names a stored object.                          *)
(*                                                                         *)
(* read[h] is the local state of a reader.  Calls that can only fail for   *)
(* want of a store, and whose result nothing depends on (ListTracks and    *)
(* ListResourceDefinitions), are part of Unavailable and of nothing else.  *)
(***************************************************************************)
EXTENDS ResourceTables, Sequences

CONSTANTS
  Readers,     \* the consumer requests in flight at a time
  Stable,      \* the risk "stable"
  Questions,   \* "refresh", "find", "info": the operations readers ask for
  MaxActions,  \* bound: the actions of one refresh request
  MaxPushes    \* bound: the pushes of one resource

ASSUME QuestionsAssumption == Questions \subseteq {"refresh", "find", "info"}
ASSUME MaxActionsAssumption == MaxActions \in Nat
ASSUME MaxPushesAssumption == MaxPushes \in Nat

VARIABLES
  refs,      \* refs[p]: channel -> the column releases.resources of that row
  defaults,  \* defaults[p]: the column packages.default_track
  read

consumerTables == <<tables, resourceRevisions, refs, defaults>>
consumerVars == <<consumerTables, read>>

(***************************************************************************)
(* A channel is the sequence of its parts, <<"stable">> or                 *)
(* <<"latest", "stable">>.  The resources of a release or of a refresh     *)
(* action are a function from names to revision numbers, None for nil.     *)
(***************************************************************************)
References == UNION {[N -> RevisionNumber \cup {None}] : N \in SUBSET Resources}
Named(f) == {r \in DOMAIN f : f[r] # None}

normalizeChannel(c) == IF c = None \/ Len(c) > 1 THEN c ELSE <<LatestTrack>> \o c

DefaultChannel(p) == <<IF defaults[p] = None THEN LatestTrack ELSE defaults[p], Stable>>

\* The part of an answer that leads to downloads: a revision and the resources of
\* the release, with the hashes that their rows had when they were read.
Entity(q) == [id |-> q.id, revision |-> q.revision, hash |-> q.hash,
              resources |-> q.resources, hashes |-> q.hashes]

Quiet ==
  [step |-> "Idle", op |-> "none", actions |-> 0, left |-> 0, found |-> {},
   id |-> None, private |-> FALSE, asked |-> None, wanted |-> 0, overrides |-> NoRows,
   revision |-> 0, hash |-> None, bundle |-> NoRows, todo |-> {}, resource |-> None,
   overriding |-> FALSE, resources |-> NoRows, hashes |-> NoRows,
   others |-> NoRows, results |-> <<>>, outcome |-> "none"]

ErrorEntry == Entity(Quiet)

AtRead(h, step) == read[h].step = step

ConsumerInit ==
  /\ InitRepository
  /\ InitResourceTables
  /\ refs = [p \in PackageIds |-> NoRows]
  /\ defaults = [p \in PackageIds |-> None]
  /\ read = [h \in Readers |-> Quiet]

-----------------------------------------------------------------------------
(* Publishers. *)

\* The digests that a row for upload u may have: that of its object, or, when the
\* object is shared, that of any content it had before.
Digests(u) ==
  IF ObjectKey(u) \notin DOMAIN blobs THEN {} ELSE IF Own(u) THEN {blobs[u]} ELSE Payloads

\* Statements that insert a row or set metadata.
PublishRow ==
  /\ \/ \E p \in PackageIds, n \in Names, private \in BOOLEAN :
          InsertPackage(p, [name |-> n, private |-> private, status |-> "registered"])
     \/ \E p \in DOMAIN packages, private \in BOOLEAN :
          UpdatePackageRow(p, [packages[p] EXCEPT !.private = private])
     \/ \E u \in Uploads, payload \in Payloads : NewUpload(u) /\ PutObject(u, payload)
     \/ \E p \in DOMAIN packages, u \in Uploads : \E digest \in Digests(u) :
          /\ Own(u) => digest \in Charms
          /\ InsertRevisionRow(p, NextRevision(p), [upload |-> u, digest |-> digest])
     \/ \E p \in DOMAIN packages, r \in Resources :
          DOMAIN revisions[p] # {} /\ UpsertDefinitionRow(p, r)
  /\ UNCHANGED <<resourceRevisions, refs, defaults>>

PublishResource ==
  /\ \E p \in DOMAIN packages, r \in Resources, u \in Uploads, platforms \in Platforms,
        oci \in BOOLEAN :
       \E digest \in Digests(u), payload \in Digests(u) :
         /\ NextResourceRevision(p, r) <= MaxPushes
         /\ InsertResourceRow(p, r, NextResourceRevision(p, r),
              [upload |-> u, oci |-> oci, image |-> IF oci THEN payload ELSE None,
               digest |-> digest, platforms |-> platforms])
  /\ UNCHANGED <<tables, refs, defaults>>

\* A slip: a release of any number, looked up by nobody.
PublishAnyRelease ==
  /\ \E p \in DOMAIN packages, c \in Channels, f \in References, n \in RevisionNumber :
       /\ UpsertReleaseRow(p, c, n)
       /\ refs' = [refs EXCEPT ![p] = WithRow(@, c, f)]
  /\ UNCHANGED <<resourceRevisions, defaults>>

\* ReplaceRelease: the resources are stored as the request gives them.
PublishRelease ==
  /\ \E p \in DOMAIN packages, c \in Channels, f \in References :
       \E n \in DOMAIN revisions[p] :
         /\ UpsertReleaseRow(p, c, n)
         /\ refs' = [refs EXCEPT ![p] = WithRow(@, c, f)]
  /\ UNCHANGED <<resourceRevisions, defaults>>

\* UpdatePackage with a default track; no code checks that the track exists.
SetDefaultTrack ==
  /\ \E p \in DOMAIN packages, t \in Tracks : defaults' = [defaults EXCEPT ![p] = t]
  /\ UNCHANGED <<tables, resourceRevisions, refs>>

Unpublish ==
  /\ \E p \in DOMAIN packages :
       /\ DeletePackageRow(p)
       /\ refs' = [refs EXCEPT ![p] = NoRows]
       /\ defaults' = [defaults EXCEPT ![p] = None]
  /\ CascadeToResources

Publisher ==
  /\ PublishRow \/ PublishResource \/ PublishRelease \/ SetDefaultTrack \/ Unpublish
  /\ UNCHANGED read

-----------------------------------------------------------------------------
(* What a step of a reader leads to. *)

Goes(h, step) == read' = [read EXCEPT ![h].step = step]

\* The answer is all that is left of a request.
Ended(q, outcome) ==
  [Quiet EXCEPT !.step = "Answered", !.op = q.op, !.actions = q.actions, !.results = q.results,
                !.outcome = outcome]

Ends(h, outcome) == read' = [read EXCEPT ![h] = Ended(@, outcome)]

\* The next action of a refresh, the next package of a search, the other channels
\* of Info.  What the action has gathered is dropped.
GoesOn(q, results) ==
  LET rest == [Quiet EXCEPT !.op = q.op, !.actions = q.actions, !.left = q.left,
                            !.found = q.found, !.results = results] IN
  IF q.op = "info" THEN [rest EXCEPT !.step = "ListReleases", !.id = q.id]
                   ELSE [rest EXCEPT !.step = "Next"]

\* A slip: the action that failed gets no entry in the results.
NotFoundSilently(h) ==
  read' = [read EXCEPT ![h] =
    IF @.op = "info" THEN Ended(@, "404") ELSE GoesOn(@, @.results)]

\* A service error (400, 403, 404): an entry of a refresh, an omission of a
\* search, the answer of Info.
NotFound(h) ==
  read' = [read EXCEPT ![h] =
    CASE @.op = "refresh" -> GoesOn(@, Append(@.results, ErrorEntry))
      [] @.op = "find"    -> GoesOn(@, @.results)
      [] @.op = "info"    -> Ended(@, "404")]

\* repo.ErrNotFound as the repository returns it: Find skips the package, Refresh
\* and Info hand the error on as it is, and the API layer answers 404 (writeError).
MissingRow(h) ==
  IF read[h].op = "find" THEN read' = [read EXCEPT ![h] = GoesOn(@, @.results)]
                         ELSE Ends(h, "404")

-----------------------------------------------------------------------------
(* The request and its packages. *)

StartRefresh(h) ==
  /\ AtRead(h, "Idle") /\ "refresh" \in Questions
  /\ \E n \in 0..MaxActions :
       read' = [read EXCEPT ![h] =
         [Quiet EXCEPT !.step = "Next", !.op = "refresh", !.actions = n, !.left = n]]

\* Find: repo.SearchPackages returns the rows that match the query.
SearchPackages(h) ==
  /\ AtRead(h, "Idle") /\ "find" \in Questions
  /\ \E P \in SUBSET DOMAIN packages :
       read' = [read EXCEPT ![h] =
         [Quiet EXCEPT !.step = "Next", !.op = "find",
                       !.found = {<<p, packages[p].private>> : p \in P}]]

\* Info: repo.GetPackageByName, or the 404 for a name nobody has.
StartInfo(h) ==
  /\ AtRead(h, "Idle") /\ "info" \in Questions
  /\ \/ \E p \in DOMAIN packages :
          read' = [read EXCEPT ![h] =
            [Quiet EXCEPT !.step = "CanViewPackage", !.op = "info", !.id = p,
                          !.private = packages[p].private]]
     \/ read' = [read EXCEPT ![h] =
          [Quiet EXCEPT !.step = "Answered", !.op = "info", !.outcome = "404"]]

\* The next action of a refresh: its package by name or by id.  There may be no
\* such package, and an action may name none.
NextAction(h) ==
  /\ AtRead(h, "Next") /\ read[h].op = "refresh" /\ read[h].left > 0
  /\ \/ \E p \in DOMAIN packages, c \in Channels \cup {None},
           n \in 0..MaxRevision, f \in References :
          read' = [read EXCEPT ![h].step = "CanViewPackage", ![h].left = @ - 1, ![h].id = p,
                               ![h].private = packages[p].private,
                               ![h].asked = c, ![h].wanted = n, ![h].overrides = f]
     \/ read' = [read EXCEPT ![h].left = @ - 1, ![h].results = Append(@, ErrorEntry)]

\* The next package of a search.
NextPackage(h) ==
  /\ AtRead(h, "Next")
  /\ \E pair \in read[h].found :
       read' = [read EXCEPT ![h].step = "CanViewPackage", ![h].found = @ \ {pair},
                            ![h].id = pair[1], ![h].private = pair[2]]

\* Nothing left to do: the answer goes out.
Answer(h) ==
  /\ AtRead(h, "Next") /\ read[h].left = 0 /\ read[h].found = {} /\ read[h].others = NoRows
  /\ Ends(h, "200")

\* requirePackageView: a private package takes a reader its ACL lets in.  A reader
\* without an account is refused at once; for any other canAccess looks the package up
\* again, and its ErrNotFound is not translated.
RequirePackageView(h) ==
  LET next == CASE read[h].wanted > 0      -> "GetWantedRevision"
                [] read[h].asked # None    -> "ResolveRelease"
                [] OTHER                   -> "ResolveDefaultRelease" IN
  /\ AtRead(h, "CanViewPackage")
  /\ \/ ~read[h].private /\ Goes(h, next)
     \/ read[h].private /\ Live(read[h].id) /\ Goes(h, next)
     \/ read[h].private /\ NotFound(h)
     \/ read[h].private /\ ~Live(read[h].id) /\ MissingRow(h)

-----------------------------------------------------------------------------
(* resolveReleaseAndRevision. *)

\* The action asks for a revision: no release is involved, so no resources.
GetWantedRevision(h) ==
  /\ AtRead(h, "GetWantedRevision")
  /\ IF read[h].wanted \in DOMAIN revisions[read[h].id]
     THEN read' = [read EXCEPT ![h].step = "Resources", ![h].revision = read[h].wanted,
                               ![h].hash = revisions[read[h].id][read[h].wanted].digest]
     ELSE NotFound(h)

Selects(h, c) ==
  read' = [read EXCEPT ![h].step = "GetRevisionByNumber",
                       ![h].revision = releases[read[h].id][c],
                       ![h].bundle = refs[read[h].id][c]]

\* The action asks for a channel.
ResolveRelease(h) ==
  LET c == normalizeChannel(read[h].asked) IN
  /\ AtRead(h, "ResolveRelease")
  /\ IF c \in DOMAIN releases[read[h].id] THEN Selects(h, c) ELSE NotFound(h)

\* repo.ResolveDefaultRelease, first query: the stable channel of the default track.
ResolveDefaultRelease(h) ==
  LET c == DefaultChannel(read[h].id) IN
  /\ AtRead(h, "ResolveDefaultRelease")
  /\ IF c \in DOMAIN releases[read[h].id] THEN Selects(h, c) ELSE Goes(h, "ResolveAnyRelease")

\* Second query: the latest release by its time.  Times are set by clocks and are
\* not those of the writes: any of the releases.
ResolveAnyRelease(h) ==
  /\ AtRead(h, "ResolveAnyRelease")
  /\ IF DOMAIN releases[read[h].id] = {}
     THEN NotFound(h)
     ELSE \E c \in DOMAIN releases[read[h].id] : Selects(h, c)

\* repo.GetRevisionByNumber of the release; the error is not translated.
GetReleasedRevision(h) ==
  /\ AtRead(h, "GetRevisionByNumber")
  /\ IF read[h].revision \in DOMAIN revisions[read[h].id]
     THEN read' = [read EXCEPT ![h].step = "Resources",
            ![h].hash = revisions[read[h].id][read[h].revision].digest,
            ![h].todo = IF read[h].op = "find" THEN {} ELSE DOMAIN read[h].bundle]
     ELSE MissingRow(h)

-----------------------------------------------------------------------------
(* resolveReleaseResources, and then applyResourceOverrides. *)

\* repo.GetResourceDefinition of one of the names; a nil revision is skipped.
GetReferencedDefinition(h) ==
  /\ AtRead(h, "Resources")
  /\ \E r \in read[h].todo :
       IF r \notin definitions[read[h].id] THEN MissingRow(h)
       ELSE IF ~read[h].overriding /\ read[h].bundle[r] = None
       THEN read' = [read EXCEPT ![h].todo = @ \ {r}]
       ELSE read' = [read EXCEPT ![h].step = "GetResourceRevision", ![h].resource = r,
                                 ![h].todo = @ \ {r}]

\* A slip: the number of the reference is taken without a look at the table.
GetReferencedRevisionUnchecked(h) ==
  LET q == read[h]
      n == IF q.overriding THEN q.overrides[q.resource] ELSE q.bundle[q.resource] IN
  /\ AtRead(h, "GetResourceRevision")
  /\ read' = [read EXCEPT ![h].step = "Resources", ![h].resource = None,
                          ![h].resources = WithRow(@, q.resource, n),
                          ![h].hashes = WithRow(@, q.resource, None)]

\* repo.GetResourceRevision of the number the release or the override names.
GetReferencedRevision(h) ==
  LET q == read[h]
      n == IF q.overriding THEN q.overrides[q.resource] ELSE q.bundle[q.resource] IN
  /\ AtRead(h, "GetResourceRevision")
  /\ IF n \in DOMAIN resourceRevisions[q.id][q.resource]
     THEN read' = [read EXCEPT ![h].step = "Resources", ![h].resource = None,
            ![h].resources = WithRow(@, q.resource, n),
            ![h].hashes = WithRow(@, q.resource, resourceRevisions[q.id][q.resource][n].digest)]
     ELSE MissingRow(h)

\* A slip: the overrides of the action are ignored.
StartNoOverrides(h) ==
  /\ AtRead(h, "Resources") /\ read[h].todo = {} /\ ~read[h].overriding
  /\ read' = [read EXCEPT ![h].overriding = TRUE]

\* The resources of the release are there: those the action overrides come next.
StartOverrides(h) ==
  /\ AtRead(h, "Resources") /\ read[h].todo = {} /\ ~read[h].overriding
  /\ read' = [read EXCEPT ![h].overriding = TRUE,
       ![h].todo = DOMAIN read[h].resources \cap Named(read[h].overrides)]

\* The entity is complete.
Compose(h) ==
  /\ AtRead(h, "Resources") /\ read[h].todo = {} /\ read[h].overriding
  /\ read' = [read EXCEPT ![h] = GoesOn(@, Append(@.results, Entity(@)))]

-----------------------------------------------------------------------------
(* Info looks at every channel, after the default release. *)

ListReleases(h) ==
  /\ AtRead(h, "ListReleases")
  /\ read' = [read EXCEPT ![h].step = "Next", ![h].others = releases[read[h].id]]

\* The revision of one channel: from the cache, from the table, or left out when the
\* table does not have it or the statement fails.
LookAtChannel(h) ==
  LET q == read[h] IN
  /\ AtRead(h, "Next") /\ q.op = "info"
  /\ \E c \in DOMAIN q.others, fails \in BOOLEAN :
       LET n == q.others[c]
           cached == {i \in DOMAIN q.results : q.results[i].revision = n}
           entry == [Quiet EXCEPT !.id = q.id, !.revision = n]
           rest == [d \in DOMAIN q.others \ {c} |-> q.others[d]] IN
       read' = [read EXCEPT ![h].others = rest,
         ![h].results =
           IF cached # {}
           THEN Append(@, Entity([entry EXCEPT !.hash = q.results[CHOOSE i \in cached : TRUE].hash]))
           ELSE IF n \in DOMAIN revisions[q.id] /\ ~fails
           THEN Append(@, Entity([entry EXCEPT !.hash = revisions[q.id][n].digest]))
           ELSE @]

-----------------------------------------------------------------------------
\* The store does not answer, or the request is cancelled.
Unavailable(h) ==
  /\ read[h].step \notin {"Idle", "Answered"}
  /\ Ends(h, "unavailable")

\* The client is done with the answer.
Forget(h) == AtRead(h, "Answered") /\ read' = [read EXCEPT ![h] = Quiet]

Ask(h) == StartRefresh(h) \/ SearchPackages(h) \/ StartInfo(h)

Reads(h) ==
  \/ NextAction(h) \/ NextPackage(h) \/ Answer(h) \/ RequirePackageView(h)
  \/ GetWantedRevision(h) \/ ResolveRelease(h) \/ ResolveDefaultRelease(h)
  \/ ResolveAnyRelease(h) \/ GetReleasedRevision(h)
  \/ GetReferencedDefinition(h) \/ GetReferencedRevision(h) \/ StartOverrides(h) \/ Compose(h)
  \/ ListReleases(h) \/ LookAtChannel(h)

Reader(h) ==
  /\ Ask(h) \/ Reads(h) \/ Unavailable(h) \/ Forget(h)
  /\ UNCHANGED consumerTables

ConsumerNext == Publisher \/ \E h \in Readers : Reader(h)

ConsumerSpec == ConsumerInit /\ [][ConsumerNext]_consumerVars
-----------------------------------------------------------------------------
(***************************************************************************)
(* Properties.                                                             *)
(***************************************************************************)

IsHash(x) == x \in Payloads \cup {None}

IsEntity(e) ==
  /\ e.id \in PackageIds \cup {None} /\ e.revision \in 0..MaxRevision /\ IsHash(e.hash)
  /\ e.resources \in References /\ DOMAIN e.hashes = DOMAIN e.resources
  /\ \A r \in DOMAIN e.hashes : IsHash(e.hashes[r])

ReaderSteps ==
  {"Idle", "Next", "CanViewPackage", "GetWantedRevision", "ResolveRelease",
   "ResolveDefaultRelease", "ResolveAnyRelease", "GetRevisionByNumber", "Resources",
   "GetResourceRevision", "ListReleases", "Answered"}

\* The columns and the local state of a reader keep their shape.  (TLC cannot
\* enumerate References, sequences and pairs at once: the parts are named.)
ConsumerTypeOK ==
  /\ \A p \in PackageIds :
       /\ DOMAIN refs[p] = DOMAIN releases[p] /\ DOMAIN refs[p] \subseteq Channels
       /\ \A c \in DOMAIN refs[p] : refs[p][c] \in References
       /\ defaults[p] \in Tracks \cup {None}
  /\ \A h \in Readers : LET q == read[h] IN
       /\ q.step \in ReaderSteps
       /\ q.op \in {"refresh", "find", "info", "none"}
       /\ q.actions \in 0..MaxActions /\ q.left \in 0..q.actions
       /\ q.found \subseteq PackageIds \X BOOLEAN
       /\ q.id \in PackageIds \cup {None} /\ q.private \in BOOLEAN
       /\ q.asked \in Channels \cup {None}
       /\ q.wanted \in 0..MaxRevision /\ {q.overrides, q.bundle} \subseteq References
       /\ q.todo \subseteq Resources /\ q.resource \in Resources \cup {None}
       /\ q.overriding \in BOOLEAN
       /\ IsEntity(Entity(q)) /\ \A i \in DOMAIN q.results : IsEntity(q.results[i])
       /\ DOMAIN q.others \subseteq Channels
       /\ q.outcome \in {"none", "200", "404", "unavailable"}

\* What an answer names can be downloaded as long as the package is there, however
\* late the client asks for it and whatever is released, pushed or updated
\* meanwhile, under the hash of the answer: the revision, its object, and every
\* resource revision listed.  The object has that hash unless its file was named "..".
AnswersStayDownloadable ==
  \A h \in Readers : \A i \in DOMAIN read[h].results :
    LET e == read[h].results[i] IN
    e # ErrorEntry /\ Live(e.id) =>
      /\ e.revision \in DOMAIN revisions[e.id]
      /\ LET row == revisions[e.id][e.revision] IN
           /\ ObjectKey(row.upload) \in DOMAIN blobs /\ e.hash = row.digest
           /\ Own(row.upload) => blobs[row.upload] = row.digest
      /\ \A r \in DOMAIN e.resources :
           /\ r \in definitions[e.id]
           /\ e.resources[r] \in DOMAIN resourceRevisions[e.id][r]
           /\ LET row == resourceRevisions[e.id][r][e.resources[r]] IN
                /\ row.oci \/ ObjectKey(row.upload) \in DOMAIN blobs
                /\ e.hashes[r] = row.digest
                /\ Own(row.upload) => ServedContent(row) = row.digest

\* A refresh that is answered has one result for each of its actions, the failed
\* ones included, although each is resolved by statements of its own.
OneResultPerAction ==
  \A h \in Readers :
    read[h].op = "refresh" /\ read[h].outcome = "200" => Len(read[h].results) = read[h].actions

\* A search is not disturbed by packages without a release, nor by packages that
\* are deleted between the search and the look at their releases.
SearchesSurviveDeletion ==
  \A h \in Readers : read[h].op = "find" => read[h].outcome # "404"

\* A refresh fails as a whole only for a row that is missing when it is looked up: the
\* package that an action found has been deleted since, or a resource revision that
\* the release or the action names is not there.  The revision of a release always is.
FailsForMissingRow(h) ==
  LET q == read[h]
      Missing(r, n) == r \notin definitions[q.id] \/ n \notin DOMAIN resourceRevisions[q.id][r] IN
  q.op = "refresh" /\ q.outcome # "404" /\ read'[h].outcome = "404" =>
    \/ ~Live(q.id)
    \/ ~q.overriding /\ \E r \in DOMAIN q.bundle : Missing(r, q.bundle[r])
    \/ q.overriding /\ \E r \in DOMAIN q.resources \cap Named(q.overrides) : Missing(r, q.overrides[r])

\* The parts of a request are accounted for: in an answer each on its own, and when
\* one takes all the others along, by the row that it did not find.
PartsAreAccountedFor ==
  /\ [](OneResultPerAction /\ SearchesSurviveDeletion)
  /\ [][\A h \in Readers : FailsForMissingRow(h)]_consumerVars

\* The resources of an entity are those that its release row names with a number,
\* each under the number the action asks for, or else under the release's.
ResourcesAsReleased ==
  \A h \in Readers : LET q == read[h] IN
    q.step = "Resources" /\ q.todo = {} /\ q.overriding /\ q.op # "find" =>
      q.resources = [r \in Named(q.bundle) |->
        IF r \in Named(q.overrides) THEN q.overrides[r] ELSE q.bundle[r]]

\* "Only unexpected infrastructure errors (DB, blob storage) are returned as a
\* top-level error" (releases.go:160): a refresh never fails as a whole for what
\* one of its actions asks for.
RefreshFailsOnlyOnInfrastructure ==
  \A h \in Readers : read[h].op = "refresh" => read[h].outcome # "404"

\* A channel that Release accepted is the channel a refresh finds: the bare risk
\* "stable" means latest/stable (releases.go:420, and splitChannel in Info).
ReleasedChannelIsFound ==
  [][\A h \in Readers :
       /\ AtRead(h, "ResolveRelease") /\ ~AtRead(h, "ResolveRelease")'
       /\ read[h].asked \in DOMAIN releases[read[h].id]
       /\ read'[h].outcome = "none"
       => read'[h].step = "GetRevisionByNumber"]_consumerVars

=============================================================================
