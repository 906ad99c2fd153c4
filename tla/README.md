# A formal model of mc-operator

mc-operator is a GitOps daemon for Minecraft servers that run as Docker
containers on one host.  It watches a git working copy, builds or pulls images,
rolls servers over to them with a health check and a rollback, and keeps a JSON
file of what it believes about each server.  This directory has TLA+ modules of
its core and of the services around it, TLC configurations that check them and TLAPS proofs about them.

- [The system](#the-system): components, state, interactions, hard behaviours
- [The modules](#the-modules): what is modelled and how it maps to the code
- [The runs](#the-runs): questions, bounds, results
- [Where the code and its documentation differ](#where-the-code-and-its-documentation-differ)
- [The proofs](#the-proofs)
- [What is not modelled](#what-is-not-modelled)
- [Plan](#plan)

## The system

| Component | State | Operations | Correct when |
|---|---|---|---|
| JAR pipeline, `internal/pipeline/jar.go` | none of its own: a goroutine's locals | obtain image, drift check, network, stop and remove, run, health check, rollback | a failed deploy ends with the previous image; nothing is touched before the image is known to be usable |
| Config pipeline, `internal/pipeline/config.go` | `Runner.RepoDir` | copy changed files, reload by RCON; full overlay | what it reports as synced is what the game has loaded; a server gets its own files only |
| Docker client, `internal/docker` | the Engine's containers and images | find by name, run, stop, remove, ensure image and network, running | one container per name |
| Reconciler, `internal/gitops/reconciler.go` | none of its own | Reconcile, HandleChanges, SyncServer(Opts), the mark functions | records follow reality; the rollback target is an image that was deployed |
| State store, `internal/state/store.go` | records in memory, `state.json` | Open, Get, Upsert, Delete, AllocatePort, save | one Get or Upsert is atomic; memory and disk agree |
| Git watcher, `internal/gitops/watcher.go` | `prevHead`, the working copy | Run, pullAndDiff, emit | every commit is reported once and in order |
| Diff classifier, `internal/gitops/differ.go` | none | Classify, Summarize | picks the pipeline that applies the diff |
| Daemon, `cmd/mc-operator/main.go` | the manifest pointer, `watchEvents` (16), `events` (64) | observe loop, consumer, reload, shutdown | the containers follow the repository |
| HTTP API, `internal/api` | none of its own | manual sync, Jenkins trigger, reads | starts what was asked for, for a known server |
| Event broker and SSE, `internal/api/events.go` | subscribers' channels (32) under an RWMutex | Subscribe, unsub, Publish, handleEvents | nobody waits for a slow page; nothing is sent to a closed channel |
| Deploy history, `internal/api/history.go` | a ring (200) | Add, List | has the entry when the page hears of the deploy |
| Dashboard, `internal/api/static/app.js` | the servers it shows | fetch, SSE, poll | shows the final record |
| Download cache, `internal/download/cache.go` | files by base name | Fetch | never hands out a partial or another URL's file |
| Manifest, `pkg/manifest` | none | Load, Validate | a bad manifest is refused and changes nothing |
| Proxy configuration, `pkg/proxy` and `writeProxyConfig` | `velocity.toml` | FromManifest, TOML, write | the file is the text of the manifest in force |
| RCON client, `pkg/rcon` | a connection | Dial, Execute, Reload | |
| Image builder, `pkg/mcimage` | none | Dockerfile, build context | takes the inputs it was given |
| CLI tools | none | | |

Interactions.  The observe loop and the consumer of `watchEvents` are
goroutines of the daemon; each sync or Jenkins request starts one more.  They
share the store (a mutex per call, nothing across a read-modify-write), the
Docker Engine (names are the only lock) and the working copy (the watcher pulls
it while images are built from it).  The consumer is the only one that runs
under the signal context: HTTP-started deploys use `context.Background()`.

Hard behaviours: read-modify-write of records around slow Docker calls; deploys
of one server that overlap; every Docker call failing on its own; a process that
dies between any two of them; tags that are rebuilt; events dropped by a full
channel; a working copy that runs ahead of the events; files that several
goroutines read and write without a lock (the cache, `velocity.toml`); messages
to pages that are lost, late or overtaken.  `PROJECT.json` lists
each of them at its line with the properties that watch it.

## The modules

| Module | Models | Size of a step |
|---|---|---|
| `Rollover` | `RunJAR`, `rollback`, `Client.Run` and the Engine below | one Docker call |
| `Reconciler` | store, mark functions, Reconcile, triggers, restarts; extends `Rollover` | one Get, one Upsert, one Docker call |
| `RolloutPromise` | abstract: what deploys that come one at a time promise the players | one change a player can notice |
| `GitDelivery` | watcher, `watchEvents`, manifest reload, HandleChanges | one pull, one emit, one server's pipeline |
| `ConfigSync` | `MapServersByConfig`, `RunConfig`, `FullConfigSync`, the copy and the reload | one file read, one Docker call |
| `DownloadCache` | `Fetch` and the build context that reads its result | one call of the operating system |
| `Dashboard` | a deploy's messages: marks, history, bridge, broker, SSE handlers, page | one send, one lock, one request |
| `ProxyConfig` | `Validate`, `FromManifest`, the two writers of `velocity.toml` | one open, one write |
| `MCReconciler`, `MCGitDelivery`, `MCConfigSync`, `MCServices` | instances for TLC; `MCServices` puts the last four together | |
| `ReconcilerProofs`, `ProvenanceProofs`, `EngineProofs`, `WatcherProofs` | theorems about `Reconciler` | |
| `RolloutProofs` | that `Reconciler` implements `RolloutPromise` | |
| `DeliveryProofs` | theorems about `GitDelivery` | |
| `ProxyProofs` | theorems about `ProxyConfig` | |
| `ServicesProofs` | theorems about `DownloadCache`, `Dashboard` and `ConfigSync` | |

### Rollover

`job[d]` is the goroutine of deploy `d`: a program counter named after the stage
of `RunJAR` and the locals `tag`, `in.PreviousImg`, `in.Strict`, `oldID`.
`host[s]` is the container that has server `s`'s name, `content[i]` the build
the reference `i` names on this host.  Container ids are `[by, phase]`: the
deploy and the phase (new or rollback) that created it, so that a `Stop` or
`Remove` of an id found earlier misses when another deploy has replaced it.

Abstractions: a server's readiness is "a running container has the name"; a
health check that passes needs one at that moment, one that times out may happen
always (the game may hang).  Containers do not exit by themselves.  A call that
returns an error may have been carried out by the Engine all the same
(`MayHappen`): a container that is created although `Run` says it was not, one
that runs although `ContainerStart` failed and that `Run` then tries to remove
(`Discard`), a build that moved its tag.  Registry
tags do not move, and `EnsureImage` never re-pulls.  The order of the Engine's
answers is the order of the steps.

### Reconciler

`store` and `disk` are the two copies of the records; `snap[d]` and
`obs[o].snap` are the local copies between a Get and its Upsert.  A failing
`save` leaves `store` changed and `disk` not.  `Port`, `LastCommit`,
`LastDeployedAt` and `Message` are left out because no branch reads them for a
decision; the history entry is the final program counter (`succeeded`,
`failed`; `unsaved` is a deploy whose success was not saved and leaves no
entry).  `attached` is FALSE in a daemon that could not reach Docker when it
started: no pipeline, no observer.  The observer's find and inspect are one
step that may always return an error (the container may go in between).

Deploys come from four triggers: `git` (jar pipeline) and `config` from the
consumer, one at a time; `manual` and `jenkins` at any time.  The Reconcile the
consumer runs after its deploys is one of the observers.  The config overlay of
a Jenkins deploy is best effort and changes nothing that is modelled.  A git
deploy may pick a reference it used before (a revert has a new commit, so the
code would not): the model allows a little more than the code.

### RolloutPromise

The abstract specification: a server serves an image or nothing, only the deploy
in progress changes that, with nothing in between, and once it has turned to the
fallback it does not come back to the failed image.  A deploy that is not told
that its image came up, or that its container went away, goes on as if it had
not happened.  `Reconciler!RolloutRefined`
is `Promise!Spec` under the mapping at the end of `Reconciler`: `serving` is the
running container's image, `stage` folds the program counter.

### GitDelivery

`log` is the branch, a tree per commit; `head` the working copy's HEAD,
`prevHead` the watcher's baseline, `pending` the event inside `emit`, `queue`
the channel.  A tree has one content for all jars, one for the manifest (or
`Broken`), and one config file per server (or `Absent`).  `container[s]` says of
which contents a container was made; `Unknown` is what a failed pipeline left
behind (`Rollover` has the detail).  `told` and `lost` are history: the commits
the consumer heard of, and those given up by a full channel or a restart.

A pull may fail, and a diff may fail after the pull worked.  Images are built
and files copied from the working copy at that moment.  A build reads one state
of it (a pull in the middle of the copy is not modelled).  The server list is
the same in all manifests; manual and Jenkins deploys are `Reconciler`'s
subject and not repeated here.  Config dirs are taken as they are meant, a file
in exactly one of them; how the code tells is in `ConfigSync`.

### ConfigSync

A path is a sequence of pieces of text, so that the code's prefix tests are
prefix tests: `configs/lobby2/a.yml` is
`<<"configs/lobby", "2", "/", "a.yml">>`.  `Inside` is `MapServersByConfig`,
`Mapped` is `mapConfigPath`; they differ, see below.  `sync[j]` is a run of
`RunConfig` by the consumer or at the end of a Jenkins deploy, with the container
id it found, the file it is copying and its text.  `tree` is pulled into at any
time, `box[s]` may be a new container at any time (other deploys are taken as
their last step, the replacement), and every Docker call and the reload may
fail; a reload that fails may have been carried out.  `loaded[s]` is what the
game has read.  `need` and `crossed` are history: the files as they were when
the job began, and the jobs that shared a server with another.

`SyncedMeansLoaded` excludes `crossed` jobs (the consumer and an overlay may copy
files of different ages into one container) and config dirs written with a slash
at the end, for which the code copies nothing at all.

### DownloadCache

A file is called by the fetch that created it, so that it has an identity after
its name is removed; `linked[n]` is the file that has the base name, `data` its
blocks.  `Fetch` is taken apart into Stat, verify, remove, request, create, copy
by blocks, and the comparison with the hash of what was received, followed by
`AddFile`, which stats the path and reads it later.  Two fetches may write one
file, remove it under each other, or leave a hole in it.  Upstream may answer
with any body.

`HashedBuildGenuine` excludes builds that met another fetch of the same name
(`disturbed`): `AddFile` may then read a file that another fetch has truncated
or filled with something else of the same length.  `SettledFileWhole` excludes
downloads a crash cut off (`torn`), which the cache keeps for ever for plugins
without a hash, and files that two different bodies were written to.

### Dashboard

`record` counts the writes to the server's record; a deploy writes twice, emits
twice (dropped when the channel is full), adds to the history and, if it failed,
publishes an error.  A publisher holds the read lock while it offers its message
to the subscribers one by one; Subscribe and unsub need the write lock, and while
they wait no new publisher gets in, as in Go's `RWMutex`.  The page has a few
requests under way, answered by whatever the store has at that moment and
arriving in any order; it polls every 30 seconds and need not read its stream.
`Past` are deploys that were over before the page was opened, so that the ring
has something to drop.

### ProxyConfig

`current` is the manifest in force, `loop` the locals of the observe loop and the
consumer, `velocity` the file as a sequence of pieces: a text has one for each
entry of `[servers]` and one for the rest, and a piece in the file is named by
the text it is a piece of.  A write is an open that truncates and a write from
the beginning, which may stop after any number of pieces, in an error or because
the process ends.  Two goroutines that open one after the other and write texts
of different lengths leave the beginning of the one and the end of the other.
`since` is history: whose texts had the file open since it was last truncated,
and whether one of them was written whole.  The records may fail to be saved and
the file to be opened.  The fields of a manifest that only have to be there are
one, `complete`.

`FileOfOneManifest` excludes no overlap and no error.  It says that whatever is
in the file is of the texts of those who had it open since the last truncation,
which is what `O_TRUNC` is for, and that once one of them wrote its text whole
and there was no other text, a write of the same text that stops half-way
does no harm.

### MCServices

These four components share no state that decides anything, so a product of
their states would add nothing.  `subject` is chosen at the start and says which
of them takes its steps; the others rest in an initial state.  The run `Services`
therefore checks each of them on its own, with the fairness of its own
specification.

## The runs

All with two TLC workers; the sizes are distinct states.

| Run | Instance | Shows | States |
|---|---|---|---|
| `Promise` | 1 server, 2 images, 2 JAR deploys of the watcher, all faults, 1 restart, fair | `DeployedIsRunning`, `RolloutRefined`, `DeploysEnd` | 358 thousand |
| `Records` | 1 server, 2 images, 2 deploys, 1 observer, Docker faults, shutdown, 1 restart | `TypeOK`, `RollbackPair`, `Provenance` | 1.9 million |
| `Overlap` | 1 server, 1 image, 3 manual or Jenkins deploys at once | `QuietServerUp` | 1.7 million |
| `Progress` | 1 server, 2 images, 1 deploy, 1 observer, failing saves, 1 restart, fair | `RollbackRestores`, `ProgressingClears`, `EventuallyTruthful` | 143 thousand |
| `Delivery` | 2 servers, 5 trees, 3 commits, channel of 1, 1 failure, 1 restart, fair | `NoCommitSkipped`, `NoCommitTwice`, `CommitsNoticed`, `BuildsConverge`, `ConfigsConverge`, `TypeOK` | 177 thousand |
| `Services` | cache: 2 fetches of 1 name, 2 bodies of 2 blocks, 1 crash; dashboard: 1 new and 1 past deploy, 1 page with 2 requests, all channels of 1, fair; config: 1 server, 2 files, 2 commits, the consumer and a Jenkins deploy; proxy: 6 manifests, 2 commits, 2 troubles, fair | `HashedBuildGenuine`, `SettledFileWhole`, `NoSendOnClosed`, `EndedIsInHistory`, `DeploysReport`, `PagesConverge`, `SyncedMeansLoaded`, `EveryServerReachable`, `FileOfOneManifest`, `ProxyFileSettles`, types | 233 thousand |
| `LostUpdate`, `FailedBuildBack`, `OverlapRecord`, `MixedCommit`, `InFlight`, `ForeignConfig` | the smallest that shows it | a violation each, see below | |

Bounds.  Servers share nothing but the consumer and the store, whose calls are
atomic, so one server has all the interleavings of the rollover; the proofs
cover any number.  Two images tell current from previous and from new; a third
adds only names.  Two deploys give every pairwise overlap and a deploy on top of
a failed one; `Overlap` takes three because a name conflict needs a deploy that
removes, one that creates and one that rolls back.  One restart separates two
lives of the daemon.  In `Delivery` three commits are two events, and with a
failed pull in front of them they fill the channel of one; two servers are
needed for a deleted file of the one to fail the other.

In `Services` two fetches have every interleaving on one file, and two blocks
make a part of a file different from none and from all; two bodies are a right
one and a wrong one.  With channels of one each drop happens.  The one new
deploy runs beside the past one's place in the ring of one, and two requests can
overtake each other.  Two commits let a file change while it is copied and a
manifest change while an older one is written, and two troubles let a write fail
half-way beside a crash or another one; the manifests have texts of
different lengths, and each rule of `Validate` that the properties depend on is
broken by one of them.

Deadlock is off in the runs whose deploys may all be over (`Promise`, `Overlap`,
`OverlapRecord`) or whose commits may run out (`Delivery`, `MixedCommit`,
`InFlight`), and in `Services` and `ForeignConfig`: then the daemon only waits.  Symmetry is used in the runs with
safety properties only (`Records`, `Overlap`).

Fairness.  `Reconciler` assumes that each deploy's goroutine and each observer
goes on (the Go scheduler; Docker calls return; the health loop has a deadline),
and nothing about users, commits, failures or shutdown.  `GitDelivery` assumes
that the ticker keeps ticking and that the consumer goes on.  Failures are
bounded there, so that after some point pulls work: a remote that never answers
again delivers nothing.  `Dashboard` assumes that the goroutines of deploys, of
the bridge and of SSE handlers that want the lock go on and that the timer of an
open page fires; nothing about pages reading their stream, and no strong
fairness.  `ProxyConfig` assumes the ticker and both goroutines.

## Where the code and its documentation differ

Each is a run of its own whose property states the documented sentence.

- `LostUpdate` / `DeployRecorded`: Reconcile writes back a whole record it read
  before a Docker call, so it can undo the record of a deploy that ended
  meanwhile (reconciler.go:124-130; docs/pipelines.md:141).
- `FailedBuildBack` / `RollbackTrusted`: a manual sync builds over the tag it
  would roll back to (pipeline.go:56-64, jar.go:223-235; docs/pipelines.md:95, and 144-148, which
  half admits the case).
- `OverlapRecord` / `QuietRecordTruthful`: after overlapping deploys the record
  may say Synced with an image that does not run, until the next observation
  (reconciler.go:320-336; docs/roadmap.md:13).
- `MixedCommit` / `MixedCommitApplied`: after a commit with jars and configs the
  new containers have no config files (reconciler.go:186-199;
  docs/pipelines.md:19).
- `InFlight` / `InFlightNoticed`: a restart forgets commits that were in the
  working copy but not handled (watcher.go:66-70; watcher.go:42).
- `ForeignConfig` / `OwnFilesOnly`: `mapConfigPath` adds no slash to a config dir
  that has none, so every path that begins with its name is mapped: with a file
  of `configs/lobby` in the same diff, `configs/lobby.yml` is copied to
  `/server/config/.yml` of the lobby, and `configs/lobby2/a.yml` fails the lobby's
  sync (config.go:94-103; config.go:86-89).

Met while modelling, without a run of their own:

- In strict mode a mismatching image is to be refused "**before** the container is
  touched" (docs/pipelines.md:122-123).  A label inspection that fails counts as no
  drift, in strict mode too (jar.go:112-116, on purpose, says the comment), and
  then the image is deployed.  Where the inspection answers, the sentence is the
  one guard of `CheckDrift`, so no property states it.
- A config dir written with a slash at the end (`configs/lobby/`) gets a second
  one in `mapConfigPath` (config.go:95-97): `MapServersByConfig` still picks the
  server, nothing is copied, and the sync succeeds.
- `Fetch` verifies the file, but the build reads it later (cache.go:55, builder.go:58):
  with two builds at once the text that is built need not be the verified one.
- rcon.go:22 says "default 2" of `Retries`, but `defaults` leaves 0, and
  `RunConfig` passes none: a reload is tried once.
- docs/pipelines.md:123-124 says a strict rejection appears "as a `drift` SSE
  event on the dashboard"; jenkins.go:104-106 publishes it, and app.js:202 does
  not listen for that type.
- The RCON address is the server's port plus 10 (main.go:168-174), which may be
  another server's port: `Validate` compares game ports only.

## The proofs

`tlapm` checks every theorem for all values of the constants under the
assumptions the modules name (`NoneAssumption` and so on: the null values are
outside their sets, bounds are naturals, the deploys of a dashboard are finitely
many, paths are sequences).  Every type and safety invariant the passing runs check has its
theorem, and so has the refinement; the provisos are part of the theorems.

- `ReconcilerProofs`: `TypeCorrect`, `RollbackPairAlways`.
- `ProvenanceProofs`: `ProvenanceAlways`.
- `EngineProofs`: `QuietServerUpAlways`, if Docker calls do not fail and nothing
  cuts a deploy off (`DockerAnswers`).
- `WatcherProofs`: `DeployedIsRunningAlways`, if only the watcher deploys;
  `RollbackRestoresAlways`, if then no Docker call fails and no shutdown cancels
  one (`Faultless`).
- `RolloutProofs`: `RolloutRefinedAlways`, if only the watcher deploys.
- `DeliveryProofs`: `TypeCorrect`, `NoCommitSkippedAlways`,
  `NoCommitTwiceAlways`.
- `ProxyProofs`: `ProxyTypeCorrect`, `EveryServerReachableAlways`,
  `FileOfOneManifestAlways`.
- `ServicesProofs`: `CacheTypeCorrect`, `HashedBuildGenuineAlways`,
  `SettledFileWholeAlways`; `BoardTypeCorrect`, `NoSendOnClosedAlways`,
  `EndedIsInHistoryAlways`; `SyncTypeCorrect`, `SyncedMeansLoadedAlways`.

Types alone are not inductive, because a deploy's record is only well-typed if
its locals fit its program counter; `Typed` adds `JobsSound` and
`ObserversSound`.  `RollbackPair` follows from the types and the three functions
that build records (`Progressing`, `SyncedTo`, `Observed`), and carries the
local copies along.

`Provenance` needs more: that an image a record adopts from an observation was
started before.  The observation reads `host`, so the invariant says that what
runs was launched (`PendingLaunched`), which for `StartContainer` needs that the
container found under the deploy's id belongs to the deploy's server and has the
deploy's image (`OwnersSound`).  The inductive invariant is
`Typed /\ OwnersSound /\ Provenance /\ PendingLaunched`; TLC checked it before it
was proved.  Each action has one step, under it one per part of the invariant it
can disturb.

`QuietServerUp` is an argument about hands.  A deploy has a server in its hands
(`AnswersFor`) from the removal of its container to the start of the next one,
and another deploy can take it over only by removing or replacing what the first
one made.  `Up` says that a server that was ever up runs or is in somebody's
hands; a deploy that is over has nothing in its hands.  `Gone` adds that a
deploy whose start failed discards nothing: its container was another's by then.  The proviso is what the
argument needs and what the code does not have a remedy for: a call that fails
between Remove and Start, a crash or a cancelled context there leaves the server
down, and the daemon never starts a container it did not deploy.  A shutdown is
allowed where the watcher does not deploy, because the deploys of HTTP requests do not run
under the context it cancels.

`DeployedIsRunning` rests on `Alone`: the consumer starts a deploy only when the
one before is over.  `Mine` then follows one deploy through its calls: from the
build on its tag names its build, from the creation on the server's container is
its own, and nobody else can change either.  The theorem assumes
`Triggers \subseteq {"git", "config"}`; with manual or Jenkins deploys beside
it the property is false.

`RollbackRestores` adds to this invariant what the one deploy that runs knows of
the name during its own calls (`Restoring`): before each of them the container
there is the one it found, or the one it created itself.  So where Docker
answers no call of a rollback misses, and it ends in an error only after its own
container, with the image to go back to, was started.  Health checks
may time out and saves may fail, and crashes may come at any step.

`RolloutRefined` is proved action by action.  The mapping takes the running
image of each container (`Serving`), the stage of each deploy (`StageOf`) and
what it was asked for (`OrderOf`); a step is an action of `RolloutPromise` or is
not seen (`Unseen`).  The steps that matter need what earlier theorems say:
that a deploy passes while its own image is served is `Mine`, that the image to
go back to has been served is `Provenance`, that only the deploy in progress
takes a server down is `Alone`; `Poised` adds that a container which is about to
be started is down.  All faults are allowed.

`GitDelivery`'s types need `Baseline`: what is read from the working copy is a
tree only because `head` is a position of the branch, and it stays one because
the event inside `emit` ends at or before `head`.  That no commit is skipped or
handled twice rests on one more part, `QueueBehind`: no event in the channel
ends after the baseline.  Then an event that `emit` appends begins where all
earlier ones have ended, and the commits between the old baseline and the new
are those of that event, in the channel or given up with it.  The inductive
invariant is `TypeOK /\ Baseline /\ QueueBehind /\ NoCommitSkipped /\
NoCommitTwice`, for any capacity of the channel and any number of commits,
failures and restarts.

`EveryServerReachable` is about every manifest a goroutine has in its hands, so
the invariant of `ProxyConfig` says that each of them passed `Validate`
(`InForce`): a refused reload leaves the one in force, and a pass takes none
other.  That distinct names give as many entries as gameplay servers is a
bijection between them (`OwnEntries`); that one of them comes first is the
well-ordering of the naturals (`SmallestOf`).  `FileOfOneManifest` follows the
file piece by piece: whoever is writing is among those whose text may be there
(`OwnText`), a piece is the one its text has at that place (`InPlace`), and once
one text was written whole and is the only one, the file is as long as it
(`ToTheEnd`), so that a later write of it, whole or not, changes nothing
(`TextWrittenFacts`).  The inductive invariant adds to these the types and that
no more events wait than commits were made.

`DownloadCache`: a file that a fetch created belongs to the name it was created
under, also after another one unlinked it (`FilesOfName`).  `HashedBuildGenuine`
then rests on `Undisturbed`: a fetch that met no other one of its name
(`AloneUntilMet`) reads back what it wrote, or what it verified.
`SettledFileWhole` allows everybody to write at once, so its part of the invariant
is about a witness (`WholeOrCovered`): a file for which only one body was ever
served is whole, or there is a fetch still copying to it, and all it has
written so far is there, because whoever overwrites it writes the same.  The
last one to truncate the file is that fetch.

`Dashboard`: a send on a closed channel needs a publisher that still has the
subscriber on its list when `Unsubscribe` closes it; `OpenToPublishers` says that
whoever is on a list is subscribed and not closed.  `EndedIsInHistory` needs that
the ring is the end of all that was ever added (`HistoryIsTail`), and that the
deploy is added before its message is made, wherever the message is by now
(`AddedFirst`).  The types need that each deploy writes its record at most
twice (`WrittenTwice`).

`ConfigSync`: `SyncedMeansLoaded` follows one job through its files
(`DoneIsThere`): what it is done with is in the container it found, as new as
when the job began, and once it has reloaded, in the game.  A file that is
skipped is none of its own, because a path inside a directory that is written
without a slash at its end is mapped too (`InsideIsMapped`).  A later job may copy
over it, but what it copies it has read later (`AloneOnServer`), and the working
copy never has an older file than it had (`NeverOlder`); a deploy gives the name
another id, and ids only grow.

Only model-checked: everything under fairness (`DeploysEnd`,
`ProgressingClears`, `EventuallyTruthful`, `CommitsNoticed`, `BuildsConverge`,
`ConfigsConverge`, `DeploysReport`, `PagesConverge`, `ProxyFileSettles`), because
the prover has no fairness and no ENABLED.  The sentences that the code does not
keep are refuted by runs and have no theorem.

## What is not modelled

- The classification of a path by its name (`Classify`): `GitDelivery` takes which
  kinds of files a diff has.
- `Store.Delete`, `Store.AllocatePort`: no caller in the program.
- Dockerfile text, tar headers, `mc-imagegen`, the drawer of the dashboard, RCON
  framing: formatting or I/O without state that a property could be about.
- A data race on `Runner.RepoDir` (config.go:153-155): every goroutine writes the
  value it already has.
- HTTP status codes, tokens, JSON.

## Plan

Order of work and what is left of it:

1. `Rollover`, `Reconciler`, `RolloutPromise`: done, every safety property and
   the refinement proved.
2. `GitDelivery`: done, with types, no commit skipped and none twice proved.
3. `ConfigSync`, `DownloadCache`, `Dashboard`, `ProxyConfig`: done, with all their
   invariants proved.
4. Weaker provisos: `QuietServerUp` across a crash outside the part between
   Remove and Start; `RollbackRestores` for the deploys that met no fault, where
   other ones did.
5. The safety part of the liveness properties: that a step which makes progress
   is never undone (the versions a page has shown, the baseline of the watcher).
6. A second server in `Progress`: a save that fails for one server and the
   observation of the next.
