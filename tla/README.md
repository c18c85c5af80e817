# A verification project for helm-charts-oci-proxy

TLA+ specifications of the proxy, TLC instances that check them, and theorems
about them that TLAPS proves. Every definition is translated from the Go code;
`PROJECT.json` names the lines each one stands for, and, for every checked
property, a plausible bug in those lines that breaks it.

## The system

A client pulls `oci://proxy/<host>/<path>/<chart>:<version>`. The proxy looks up
the version in `https://<host>/<path>/index.yaml`, downloads the archive, turns
it into an OCI manifest with two blobs (a config and the archive), keeps these in
memory for a while and serves them. Everything happens on demand, in the
goroutine of whoever asked, and nothing is persisted: a restart begins empty.

| component | code | state | operations |
| --- | --- | --- | --- |
| manifest store | `internal/manifest/manifest.go` | `Manifests.manifests`: repository, variant, name to entry; one RWMutex | `ReadVariant`, `WriteVariant`, `hasVariant`, `getVariant` |
| cleanup goroutine | `manifest.go` `NewManifests`, `cleanupExpired` | the digests it has still to delete | a sweep each minute, then one `Delete` per blob |
| blob store | `internal/blobs/handler/mem/handler.go` | digest to content; one RWMutex | `Put`, `Get`, `Stat`, `Delete` |
| copy destination | `internal/manifest/dst.go` | none of its own | `Push`, `Tag`, called by `oras.Copy` |
| chart preparation | `charts.go` `prepareChart` | the refs collected by one copy | index, version, download, image, copy |
| request deduplication | `manifest.go` `getOrPrepareManifest`, `prepareManifest` | a `singleflight.Group` | one flight per repository, variant and target |
| index cache | `charts.go` `GetIndex`, `getIndexBytes` | two entries per repository in one ristretto cache | look up, download, parse, store |
| endpoints | `manifest.go` `Handle`, `HandleTags`, `HandleCatalog`; `internal/blobs/blobs.go` | none | GET and HEAD of manifests and blobs, tag and catalog listings |
| routing, errors | `internal/registry`, `internal/helper`, `internal/errors` | none | path to handler, error to response |
| content verification | `pkg/verify`, `pkg/and` | size and hash so far | a reader that checks both at the end |
| dependency rewriting | `rewrite.go` | none | Chart.yaml of an archive, rewritten |
| annotations, timestamp | `charts.go` | none | what makes a digest reproducible |
| server | `cmd/` | listener, one error channel | configuration, start, shutdown |

How they interact. Handlers run concurrently and meet in four places: the
manifest map, the blob map, the singleflight group and the index cache. Each of
the two maps has a lock, and **no operation holds both**: a copy puts blobs under
one lock and later writes the manifest under the other, and the cleanup sweeps
manifests under one and later deletes blobs under the other. Most of what can go
wrong in this program is in that gap.

What makes each part correct:

* store, copies and cleanup: a served manifest has its blobs; an entry carries
  the references the cleanup needs; expired entries and unreferenced blobs go,
  and nothing else does;
* requests: what is prepared for a client is found by it; a stored version is
  not built again; every caller of a flight gets its result; an error is an
  error and a success is a success;
* index cache: an answer is not older than the configured times add up to; the
  end of one client's context is not an answer for another; errors end when
  upstream recovers;
* endpoints: paging through tags shows each once; nothing but a client of the
  catalog that never reads can hold up the others; a resolved manifest can be
  pulled until it expires;
* server: a signal ends the process, and a clean exit is one;
* one request on its way: it reaches the repository its client meant; a body at
  the limit is whole; a variant is rewritten throughout or not at all, and what it
  names leads back through the proxy; an image describes its layer and is the same
  when it is made again; content is what was promised.

## The modules

| module | what it is |
| --- | --- |
| `ManifestStore` | manifest map, blob map, copies and cleanup |
| `ManifestRequests` | `EXTENDS ManifestStore`: clients and flights; composes with the store step by step |
| `ManifestService` | the abstract service that `ManifestRequests` implements |
| `IndexCache` | the two cache levels in front of one index |
| `ClientPull` | `EXTENDS ManifestStore`: clients that pull a chart from it, against the copies and the cleanup |
| `TagList` | the tag listing of one chart and a client that pages through it |
| `RWMutex` | Go's read-write lock, as operators |
| `ProxyServer` | the process: handlers, flights, cleanup and `main`, their lock, contexts and timeouts; uses `RWMutex` |
| `Routing`, `Rewriting`, `Reading` | the pure parts: paths, archives, readers with a limit |
| `ChartPipeline` | `EXTENDS` these three: one request from its path to the stored layer |
| `MC...` | instances for TLC, one module per specification |
| `...Proofs` | theorems, one module per specification; those about the service that requests see are in `ServiceProofs` |

### ManifestStore

`manifests[s][n]` is the map of the code; a *slot* `s` is a repository together
with a variant (the code treats every pair alike), a *name* `n` is a chart version
or a digest. An entry has the image it holds (for `Blob`), its `Refs` and its
`CreatedAt`. `blobs` is the key set of `mem.Handler.m`: content is determined by
digest, so Put again is no change. `copy[c]` is one `oras.Copy`, and its stages
are the critical sections of the code:

| action | code |
| --- | --- |
| `BeginCopy` | `prepareChart` calls `oras.Copy` |
| `PutBlob` | `PreCopy` appends the digest to `refs`, `Push` calls `Handler.Put` |
| `FailCopy` | the context ends between two nodes; `oras.Copy` returns the error |
| `StampManifest` | `Push` of the manifest evaluates `time.Now()`, not yet under the lock |
| `WriteManifest` | `WriteVariant` under the digest |
| `ReadForTag`, `WriteTag` | `Tag`: `ReadVariant` by digest, `WriteVariant` under the version |
| `Sweep` | the locked half of `cleanupExpired` |
| `DeleteBlob` | one turn of its unlocked loop |

`Sweep` needs `doomed = {}` because one goroutine does both halves. In `Copy`,
config and archive may be put in either order; the code's order is one of them.
The clock is a counter bounded by `MaxTime`; expiry compares it with the stamp as
`CreatedAt.Before(cutoff)` does. The sweep may happen at any time: the phase of
the one-minute ticker against a TTL in seconds is arbitrary. The code takes its
cutoff before it waits for the lock, so that a sweep may act on an earlier time
than the present; it then leaves entries that have just expired to the next one.

Two pieces of history are added, and no guard reads them. `clean` on a copy or an
entry says that no cleanup had one of its blobs among its doomed ones while it
was copied; `orphans` holds the blobs left in the two ways the code has of losing
track of one (a copy that fails after a Put; a tag that moves to another image
after the digest entry of the old one was swept).

### ManifestRequests

`Copies` are now requests, because the leader of a flight runs the copy itself.
`req[r].pc` is where `getOrPrepareManifest` stands: before `singleflight.Do`
(`enter`), in it (`wait`), before the second `ReadVariant` (`read`), before the
third (`reread`). `flight[s][k]` is the call registered under a key. `Key` sends
the empty target to the word `latest`, as the code does, so the two share a
flight; `Norm` is `SemVerReplace`; `ChosenBy` is the version `index.Get` finds,
which may differ from the target (a partial version) or not exist. `Arrive`
covers `Handle` from the parsed target, GET and HEAD alike, and `HandleTags` when
there is no index. Downloading, the index and packing are one choice:
`PrepareFails`, or `PrepareCopies` with some image. Store actions are not repeated
here: `CopyGoesOn`, `CopyFails` and `CopySucceeds` conjoin an action of
`ManifestStore` with its effect on the flight.

`returns` has three values because Go's nil has two: `"nil"`, `"error"`, and
`"typednil"` for a nil `*RegError` in an `error`. `answer[r]` and `swept` are
history.

### ManifestService

No flights, copies, blobs or time: a set of available names, pending clients and
answers. A name is served only while available; "not found" is answered only
when the normal form of the target is not available; a name becomes available only
in a chart somebody is waiting for; it may go at any time; a failure may answer
several clients of one chart at once. The refinement mapping of
`ManifestRequests` (`Service == INSTANCE ...`) maps the manifest map to the set of
stored names and a request to the slot and target it asks for.

### IndexCache

One repository: other repositories have other keys. `bytes` and `parsed` are the
two entries, `call[r]` one `GetIndex`. Time is relative: an entry counts the
ticks it has `left`, a result its `age` since upstream produced it, so that
no clock needs a bound. A call is given at most `CallTime` ticks: the HTTP client
ends a download after `DownloadTimeout`, everything else in the call is local.
ristretto is external and modelled by what a caller can see: a `Set` may be
dropped, an entry may be evicted at any time, and it expires. TTLs are positive
(ristretto keeps an entry with TTL 0 for ever; that configuration is not
modelled).

### TagList

`HandleTags` for one chart, with a client that repeats it with the last tag it
got. The handler keeps no cursor, so what matters is that a page depends on
`last` alone: `After` is the offset (`SearchStrings` and the loop past equal
tags), `Cut` the limit, and `Sorted` says of the sort what `sort.Strings` promises, that
its result is an ascending listing of the same strings. Tags are numbers in the order of their strings, 0 is no
`last`. Two versions may share a tag because `TrimLeft` cuts the "v". The
listing comes from the index (`ListIndex`), or, when `GetIndex` returns nil, from
the stored names after `prepareManifest` (`AskStore`, `ListStored`). That
preparation is `ManifestRequests`'; here it ends in one of three ways:

| action | code |
| --- | --- |
| `FindVariant` | the flight finds something stored and returns nil, and only then a listing follows |
| `Prepare` | upstream is back, and the flight stores the version it chose; it returns a nil `*RegError` as an error that is not nil, `HandleTags` returns that, and the client gets a broken connection instead of a page |
| `PrepareFails` | the client gets an error, also while something is stored, since a flight may be shared with a pull of the tag `latest` |

The environment republishes the index, makes it unreachable and back, and stores
and expires versions between any two steps. `listed` and `kept` are history. A
limit of 0 is left out: it is answered by an empty page always, which a client
cannot page with.

### ClientPull

A pull is what helm does: `Resolve` (HEAD by tag), `FetchManifest` (GET by the
digest it was told), then for each blob `StatBlob` and `GetBlob`, the two critical
sections of `Blobs.Handle`; the content is the client's once `Get` has returned,
because the slice stays alive after the map entry has gone. Every action of the
store keeps its form; only `WriteManifest` also keeps the history field `settled`,
which becomes false when an older copy of the image overwrites the digest entry
the pull relies on. Two copies of one image can store their entries in another
order than they took their times, and `Tag` then puts the younger entry under the
version and leaves the older one under the digest, which expires first. A pull
through that gap is not protected, and the property says so. `PullsFindTheirBlobs` says
what the store keeps for a protected pull at every moment; `PullsEndWithAllBlobs`
says it as the client sees it, of every pull that was served its manifest, and
is violated: what interfered with a copy reaches the client.

### ProxyServer

What the other modules take as atomic steps is spread over the lock here. `lock` is
`Manifests.lock`, a record that `RWMutex` explains: a writer that has announced
itself lets in no new reader, and lets all that waited in when it is done.
`pc[c]` is where a client's handler stands, `flight[k]` the singleflight call of a
chart with the stage of its preparation, `left` the time its context has and
`attempt` which form of the target it tries. The stages that read or write the map
(`first`, `check`, `push`, `tag`, `store`, `second`, `list`) acquire the lock in a
step of their own (`RLock`, `Lock`) and read or write in the next. `HandleCatalog`
has `ReadCatalog` and `FinishCatalog`, and the client is between them.
`Sweep` takes any of the stored charts, and any manifest that waits to be tagged
(`lost`); when entries expire is `ManifestStore`'s matter. `main`, `signal`, `errCh`
and `grace` are `newCmdServe`: the `select` with its two cases, `Shutdown` with its
ten seconds, and the receive after it. Time (`Tick`) passes while a download is in
progress or a shutdown waits, and not past a deadline. `DownloadTimeout` is positive,
since `NewManifests` makes 30 seconds of `DOWNLOAD_TIMEOUT=0`. `Signal` is `os.Interrupt`,
the one signal `main` is told of. While `Shutdown` waits, a request may still come
in on a connection that was accepted before (`Accepts`), and no longer once it has
returned.

### ChartPipeline

`config` is the environment `newCmdServe` accepts. `job` is one request, a record
whose fields are those its stage needs, so that the stages do not multiply:

| stage | action | code |
| --- | --- | --- |
| `routed` | `Receive` | `Registry.v2`, the split of the path in `Handle`, `HandleTags`, `HandleCatalog` |
| `preparing` | `Prepare` | `getRewriteOptions`, `validateProxyHost`, `variantKey`, the length check of `prepareChart` |
| `downloading`, `downloaded`, `too long` | `Respond`, `ReadBody`, `BreakBody` | `download` |
| `rewritten` | `Rewrite`, `Pack` | `rewriteChartDependencies`, `extractChartMeta`, `generateOCIAnnotations`, `getDeterministicCreatedTimestamp`, `oras.Pack` |
| `copying`, `pushing`, `stored`, `rejected` | `Copy`, `Push`, `ReadVerified` | `InternalDst.Push`, `verifyReader`, `Handler.Put` |

A path is a sequence of elements. `Routing` reverses them where the code collects
them from the end and sorts by position; Go's stable sort does that up to 20
elements (its insertion sort), which is the bound of this translation. An archive
is a sequence of entries, each with its name, and for a Chart.yaml its dependencies
or `Broken`; no two Chart.yaml have one name (`NamesDistinguish`), since an entry is
replaced by name and `helm package` writes each once. A URL is its scheme and the elements of
its host and path. `Reading` lets a source give any number of bytes a call and
report its end with the last bytes or later, as `io.Reader` allows. Content for
`Push` is of any size and agrees with what was promised up to any byte: the proxy
itself only pushes from memory, so this checks the reader as `verify_test.go` uses
it. A body without a length that ends early cannot be told from a whole one and
counts as what upstream sent.

## The runs

| run | question | instance | result |
| --- | --- | --- | --- |
| `store_republished` | a tag changes to an image made of a part of the old blobs: types, references, completeness, leaks | 2 copies, 2 images, 2 blobs, 1 slot, TTL 0, clock 0..1 | holds |
| `store_shared` | one image in two slots that expire on their own, and a client that pulls it: completeness, leaks, pulls are served, and what has expired goes | 1 copy, 1 image of 2 blobs, 2 slots, 1 pull, clock 0..1, fair cleanup | holds |
| `store_dangling` | a client that was served a manifest gets its blobs until it has expired | 1 copy at a time, 1 image of 1 blob, 1 slot, 1 pull, TTL 1, clock 0..2, fair cleanup | **violated** |
| `store_orphans` | every blob will be collected | 2 copies, 2 images | **violated** |
| `index_lookups` | age of answers, cancellations, recovery after an outage | 2 calls, 3 contents, TTL 3, error TTL 1, fair | holds |
| `index_retry` | a failure is retried after the error TTL | 1 call, TTL 4, error TTL 1 | **violated** |
| `requests_aliases` | types, flights, refinement of the service, explained 404s | 2 requests, 1 version and 5 ways to ask for it, clock 0..1 | holds |
| `requests_versions` | stored versions are not rebuilt, every request is answered | 2 requests, 2 versions, clock 0..1, fair | holds |
| `requests_typed_nil` | a success is not a panic | 2 requests, 5 targets | **violated** |
| `tags_paging` | nothing that stays is skipped, nothing listed twice, each page moves the cursor on, paging ends | 4 versions, 3 tags, pages of 1, 2 or all, fair | holds |
| `server_shutdown` | failures of flights are explained and bounded in time, pulls come to an answer, a signal ends the process, a clean exit is one | 2 pulling clients, 1 listing, 1 chart with 2 forms, timeouts of 1 tick, fair | holds |
| `artifact_pipeline` | every stage of one request | paths of up to two elements and a chart out of 7 words, bodies of 0..4 bytes with a limit of 2 or none, 609 archives of up to 3 entries, content of 0..4 bytes | holds |

Why these bounds. Two copies or requests are enough for every pairwise race
(leader and joiner, two leaders, a copy and the cleanup with another copy that
made the entry); a third adds states but no new kind of meeting, since they meet
only through the maps. A TTL of 0 with a clock of two values lets an entry be
live, expired, or live beside an expired one, in one slot or in two. Two images with a
shared blob, one contained in the other, show both a blob that must survive and
one that must go. In `index_lookups` the index TTL is larger than the error
TTL, and the sum of TTLs larger than either, so the three bounds differ.
In `store_shared` one copy at a time is enough, since it may run again for the
other slot; that two copies write out of order, the only way to lose `settled`,
needs two at once, and is covered by the theorem for any number.
In `server_shutdown` two clients of one chart are a leader and one who joined, and
with the client of the catalog and the cleanup there are two readers and two
writers for the lock: a reader that waits behind a writer that waits for a reader.
One tick of `DownloadTimeout` separates an attempt that is in time from one that
is not, for either form. In `artifact_pipeline` a limit of 2 with bodies up to 4
has sizes below, at, one above and two above it, and three entries allow a
Chart.yaml before and after the chart's own. The words of the paths are those the
router compares with, so that every confusion it could make is tried.
Runs of a fair specification check safety and liveness together, without symmetry.
Deadlock is checked in every run.

Symmetry of copies and requests is used in runs whose properties are
invariants, action properties or a refinement without fairness, never for
liveness; none of those properties tells one copy or request from another.

### What the violations show

* `store_dangling`. `cleanupExpired` decides under the lock and deletes after
  it. In the trace a first entry expires, a sweep removes it and has its blob to
  delete; a second copy puts the blob again, stores a fresh manifest and tags it;
  a client resolves the tag and is served the manifest; the blob is deleted, and
  the client is told 404 for it although the manifest has not expired.
  `CleanManifestsComplete` is the other side of it and holds: this is the *only*
  way to lose a blob.
* `store_orphans`. A copy that fails after its first blob leaves it in memory
  for the life of the process, though the README gives blobs the manifest TTL.
  `BlobsAccountedFor` shows that there is just one other way, a tag that moves
  after its digest entry has expired.
* `index_retry`. An index that downloads but does not parse is cached as bytes
  for the index TTL (4 hours), not for the error TTL (30 seconds).
* `requests_typed_nil`. `return nil, m.prepareChart(...)` makes an error that is
  not nil from a nil pointer; a preparation that succeeds there panics in
  `Registry.root`. The trace is an empty target. A target with an underscore whose
  first attempt fails and whose second does not goes the same way, through the
  other such `return`.

One more divergence is stated inside a property that holds. The first file of an
archive that is called Chart.yaml is taken for the chart's own. If it is a
subchart's, that one is rewritten, and the chart is stored as the rewriting
variant with its own dependencies as upstream named them, although the README
says that dependency repositories inside Chart.yaml are rewritten.
`RewrittenThroughout` has both cases: the chart's own file is changed if it comes
first, as `helm package` writes it, and is not changed if another comes before it.

### Fairness

* `ManifestStore`: weak fairness of `Sweep` and of each `DeleteBlob`. The
  goroutine's ticker fires each minute until the process stops, and its deletion
  loop has no other exit and waits only for a mutex held briefly. Copies are not
  fair: nothing about cleanup depends on them.
* `ManifestRequests`: weak fairness of each request's own step and of each
  flight. The leader's context ends at `DownloadTimeout` at the latest, so every
  step of a flight is reached. Clients need not come and time need not pass.
* `TagList`: weak fairness of the handler. A client that was told an error need
  not come back.
* `ProxyServer`: weak fairness of every goroutine's own next step, of the steps
  of `main`, of the sweep once the lock is its, and of time; strong fairness of
  `Lock`, because the mutex among writers hands over to one that has waited for
  a millisecond. Nothing is assumed of clients, upstream or signals: that a
  client of the catalog goes on reading is a premise of `PullsComeToAnAnswer`,
  in the property and not in the specification.
* `ChartPipeline`: none.
* `IndexCache`: weak fairness of time and of a call in progress. Nobody has to
  call.

## The theorems

All are about any sets of slots, tags, images, blobs, clients and contents, finite
or not, any TTLs and an unbounded clock (`MaxTime` is any natural number). The
assumptions are the named `ASSUME`s of the modules: the constants have their
types, names of versions and digests differ, clients that pull are not clients
that list, and `Absent`, `None` and `Nobody` are none of the values they stand
beside; the word `latest` is its own normal form; an index has finitely many
versions (`VersionsAssumption`). In `ChartPipeline` `MaxSize` and the limits are any
natural numbers and archives any sequences of entries (`ArchivesAssumption`).

Three hypotheses are not assumptions of a module, because the program runs
without them, and are stated in the theorems that need them; the instances of
the runs satisfy them, which TLC evaluates:

* `KeysDistinguish`: a target that the index resolves to the name it is read back
  under shares its singleflight key with no other. It fails only if a chart has a
  version called `latest`, since the empty target uses that word as its key.
* `VersionsOnly`: every target is its own normal form, and the index resolves it to
  itself or to nothing. A client that asks by a part of a version has it built
  again, because the store is looked up under the name asked for.
* `NamesDistinguish`: an archive has one Chart.yaml of each name.

| theorem | property | inductive invariant |
| --- | --- | --- |
| `TypeCorrect` | `TypeOK` | with `EntryHeld`: a copy about to write holds an entry |
| `EntriesAreContentAddressed` | `ContentAddressed` | with `CopiesFaithful`: the entry a copy carries between critical sections is that of its image, and has its full references |
| `CleanManifestsAreComplete` | `CleanManifestsComplete` | with `CleanCopiesUntouched`: the blobs a clean copy has put are there and none of its image's is doomed |
| `BlobsAreAccountedFor` | `BlobsAccountedFor` | from `BlobsHeld`, which is stronger: only a copy that has not written its manifest yet may be the one to hold a blob |
| `IndexCacheProofs!TypeCorrect` | `TypeOK` | the same as for the two below |
| `EntriesAreFresh` | `StalenessBounded` | `BytesInv` and `ParsedInv`: age plus time left is bounded, for both entries; `CallInv`: the age a call carries is bounded by where its result came from |
| `CancellationsAreNotCached` | `CancelIsPrivate` | `BytesInv` and `ParsedInv` |
| `RequestsTypeCorrect` | `RequestsTypeOK` | itself |
| `RequestsImplementStore` | `RequestsSpec => Spec` | `RequestsTypeOK` |
| `ServedManifestsAreComplete` | `RequestsSpec => []CleanManifestsComplete` | by the two before |
| `FlightsAreConsistent` | `FlightsConsistent` | `FlightInv`: with `CopiesLed`, who copies leads a flight in stage `copy`, and `AttemptsKnown`, a flight attempts its target or the normal form of it |
| `NotFoundHasACause` | `KeysDistinguish /\ RequestsSpec => NotFoundIsExplained` | `ReadBackInv`: what a flight has stored for those who wait is there, or a sweep has been noted |
| `StoredVersionsAreNotRebuilt` | `VersionsOnly /\ RequestsSpec => StoredIsNotRebuilt` | `BuildInv`: what a flight that prepares is about to build is not stored |
| `RequestsImplementService` | `RequestsSpec => ServiceSpec` | `FlightInv` |
| `PullsImplementStore` | `PullSpec => Spec` | none is needed |
| `PullsAreServed` | `PullsFindTheirBlobs`: no pull is cut off before its manifest expires, unless a cleanup interfered with the copy (`clean`) or an older copy replaced the digest entry (`settled`) | `CleanInv` of the store with `PullsCovered`: behind every protected pull stands a digest entry at least as young |
| `ServerTypeCorrect` | `TypeOK` of `ProxyServer` | with `FlightInv` |
| `DownloadsAreBounded` | `DownloadsBounded` | `FlightInv`: the time left and the time taken are one timeout |
| `FailuresAreExplained` | `FailureIsExplained` | `FlightInv`: the leader waits for its flight, and each attempt before the present one was refused or the context is over |
| `ExitsCleanly` | `CleanExit` | `ExitInv`: once drained, no handler starts and the signal stays |
| `DownloadsAreAlwaysWhole` | `DownloadsAreWhole` | `PipelineInv`: `ReaderInv` of the body, with what `downloaded` means |
| `VerifiedIsAlwaysPromised` | `VerifiedIsPromised` | `PipelineInv`: `ReaderInv` of the source, and that the count is what it gave |
| `RequestsReachTheirHandler` | `RoutedAsMeant`: the handler is always the one meant, and what it finds in the path of a chart is what was meant exactly if no element of it is "v2" | `RoutedInv`, and the lemmas `RoutesAsMeant`, `ParsedAsMeant` and `ParsedOnlyAsMeant` about paths |
| `PipelineIsTyped` | `TypeOK` of `ChartPipeline` | `StagesInv`: `PipelineInv`, `RoutedInv`, `VariantInv`, `RewrittenInv` |
| `ImagesAreReproducible` | `Reproducible` | `RewrittenInv`: all images of a layer are `ImageOf` it |
| `ImagesDescribeTheirLayer` | `ImageDescribesLayer` | `RewrittenInv` |
| `RewritingIsThorough` | `NamesDistinguish /\ Spec => []RewrittenThroughout` | `RewrittenInv`, `LayerOfJob` about what `Rewritten` changes, and `OwnIsTaken` about the file it reads |
| `RewrittenDependenciesResolve` | `NamesDistinguish /\ Spec => []DependenciesResolve` | the same, with the lemmas about paths |
| `PagingIsTyped` | `TypeOK` of `TagList` | `PagedInv` |
| `NothingIsSkipped` | `NothingSkipped` | `PagedInv`: what was kept and is not greater than the cursor is listed |
| `NothingIsRepeated` | `NothingRepeated` | `PagedInv`: the page is beyond the tags of all earlier ones |
| `PagesAlwaysAdvance` | `PagesAdvance` | `PagedInv` |

None of the three store invariants is inductive alone. The sweep takes entries
while copies are between their steps, so what an entry will be when it is
written has to be said of the copy already: a copy in stage `stamped` or
`tagging` holds the value it will write, and the value in `tagging` was read
before the sweep. Completeness survives `Sweep` because a blob of an entry that
stays is in `RefsInUse`, and survives `DeleteBlob` because `doomed` was computed
without those and a clean copy begun since shares none of them.

`PullsFindTheirBlobs` needs more than the entry the client resolved: that one may
be swept or replaced. What keeps the blobs is the entry under the digest
(`Covers`): as long as the resolved entry is not expired this one is not either,
so a sweep leaves it, counts its references, and dooms none of them
(`ContentAddressed`). A copy that overwrites it leaves a younger one, or ends
`settled`.

`FailureIsExplained` says nothing of the steps between, so it needs `FlightInv`:
`ContextOver` must not become false while a flight goes on. It could if the leader
left its handler and came back as another request; that it waits for its own
flight (`Led`) excludes this, whatever the other handlers, the lock and `main` do.
The two theorems about readers share `ReaderInv`: a reader never gives more than
its limit, and reports its end only there or at the end of its source, with its
last bytes or after them.

What a client is told rests on the flights. `FlightInv` has two halves that need
each other: whoever waits finds a flight under its key, whose leader waits for it
with the target it was opened for; a copy runs exactly while the flight its
request leads is in stage `copy`, under the version chosen for the attempt. From it follow `FlightsConsistent` and the refinement
of `ManifestService`, one step of the program after the other: the two writes
of a copy are where a name becomes available (`WriteMakes`: the leader of the flight
is the one who waits for it), `Sweep` is where names go, a flight that ends with an
error answers everyone who waits under its key, the reads after it answer one, and
everything else leaves the service as it is. `ServiceStep` has a step for each. `NotFoundIsExplained` adds what a request may rely on while it
is woken and reads: `FlightsReadBack` of the flights that returned nil and
`RequestsReadBack` of the requests they have woken. `StoredIsNotRebuilt` adds that what a
flight found missing before it began to prepare is missing still
(`PreparesMissing`): only a copy of the same version into the same slot could have
stored it, and its flight would have the same key.

Paging. `PagedInv` relates the cursor to the history: every tag seen so far is at
most `last`, and a tag that was on every listing and is at most `last` was
seen. A page is the part of an ascending listing that is greater than `last`, cut at
its end (`AfterTags`, `CutTags`), whatever the listing has become meanwhile, and
`NextPage` says what that does to both halves. `Sorted` is the set of ascending
listings; that it has a member, so that the handler can answer, is in
`PagingEnds`, which is TLC's.

Paths. `ChartPath` and `CatalogPath` say what a client's path has at its ends, which
is all the router looks at (`RoutesAsMeant`). `RepositoryIsFound` shows that the last
`v2` is the first element if no other one is called so, whichever element the
handler begins with, and `SplitRepository` takes apart what is behind it. If another
one is called so, the path is cut there (`RepositoryIsCut`, at the last of them), and what
is behind it is too short to be the repository (`ParsedOnlyAsMeant`).
`DependenciesResolve` follows without another look at
the path: a rewritten URL is the old one behind the proxy's name, so what is left
when a client takes that off is the path of `ParsedAsMeant`.

Only model-checked: liveness (`ExpiredIsSwept`, `GarbageIsCollected`,
`RecoversAfterOutage`, `RequestsAnswered`, `PagingEnds`, `SignalEndsProcess`,
`PullsComeToAnAnswer`), which is out of the prover's reach, and the four properties
that are violated. Every invariant, action property and refinement the runs
check is also proved.

## The plan

Done in this order: the store with its cleanup; the index cache; requests over
the store; their proofs; the tag listing; clients that pull, with their theorem;
the process with its lock, contexts and shutdown; the stages of one request;
the proofs about the process and about the readers; the proofs about flights, the
service and paging; those about paths, rewriting and images. What could follow:
the exclusion and the hand-over of the lock as a specification that `ProxyServer`
implements, and an abstract cache for `IndexCache`.

## Not modelled

The syntax of YAML, gzip, tar and HTTP, the OCI image format and what JSON makes
of an image; logging; the form of error answers; the Helm chart that deploys the
proxy and the workflows. How the environment is read, and TTLs of 0 in `IndexCache`.
Which names the catalog lists, and the limit of that list: a snapshot that
depends on Go's map order and is not paged. How the URL of an archive is made from
its index entry. The arithmetic of the fallback timestamp. Whether a host that a
dependency names serves an `index.yaml`, which an OCI registry does not. That an index
dates a version differently from its archive's own metadata, or names it by
another chart, is taken as upstream publishes it.
