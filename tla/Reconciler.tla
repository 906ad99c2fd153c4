----------------------------- MODULE Reconciler -----------------------------
(***************************************************************************)
(* internal/gitops/reconciler.go over internal/state/store.go, composed    *)
(* with the pipeline of Rollover.tla and started the way                   *)
(* cmd/mc-operator/main.go and internal/api start it: the consumer of the  *)
(* watcher's events, one goroutine per sync or Jenkins request, and the    *)
(* goroutines that observe.                                                *)
(*                                                                         *)
(* The store's mutex covers one Get or one Upsert.  Every update of a      *)
(* record is a Get, work on the copy and an Upsert of the whole copy, so   *)
(* Get and Upsert are separate steps here.                                 *)
(***************************************************************************)
EXTENDS Rollover

CONSTANTS
    Observers,   \* goroutines in Reconcile: the observe loop, the consumer
    Triggers,    \* the sources of deploys a run explores
    MaxRestarts  \* bound on the restarts of the daemon

ASSUME TriggerAssumption == Triggers \subseteq {"git", "config", "manual", "jenkins"}
ASSUME RestartAssumption == MaxRestarts \in Nat

VARIABLES
    store,     \* Store.s.Servers: the records in memory
    disk,      \* the records in state.json
    snap,      \* deploy -> its copy of the record between Get and Upsert
    obs,       \* observer -> where it is in Reconcile
    attached,  \* Docker answered when the daemon started
    restarts   \* how often the daemon was restarted

recVars == <<store, disk, snap, obs, attached, restarts>>
vars == <<pipeVars, recVars>>

-----------------------------------------------------------------------------
(* Records.  Port, LastCommit, LastDeployedAt and Message are left out: no *)
(* decision of the code depends on them.                                   *)

MaybeImage == Images \cup {NoImage}
Syncs == {"", "Synced", "OutOfSync", "Progressing", "Failed", "Unknown"}
Healths == {"", "Healthy", "Degraded", "Progressing", "Missing", "Unknown"}
Records == [sync : Syncs, health : Healths, cur : MaybeImage,
            prev : MaybeImage]

\* What Get returns for a name the store does not have: the zero value.
NoRecord == [sync |-> "", health |-> "", cur |-> NoImage, prev |-> NoImage]
Known(s) == store[s].sync # ""

\* Mutant of Failed: the two columns are swapped.
FailedSwapped(r) == [r EXCEPT !.sync = "Degraded", !.health = "Failed"]

Progressing(r) == [r EXCEPT !.sync = "Progressing", !.health = "Progressing"]
Failed(r) == [r EXCEPT !.sync = "Failed", !.health = "Degraded"]

\* Mutant of SyncedTo: a deploy of the same image moves the pair too.
SyncedToAlways(r, i) ==
    [r EXCEPT !.sync = "Synced", !.health = "Healthy",
              !.prev = IF i # NoImage THEN r.cur ELSE @,
              !.cur = IF i # NoImage THEN i ELSE @]

\* The rollback pair moves only when the deploy changed the image.
SyncedTo(r, i) ==
    LET new == i \notin {NoImage, r.cur}
    IN  [r EXCEPT !.sync = "Synced", !.health = "Healthy",
                  !.prev = IF new THEN r.cur ELSE @,
                  !.cur = IF new THEN i ELSE @]

\* Upsert changes the memory first; save then writes all records or fails.
Saves == IF "save" \in Faults THEN BOOLEAN ELSE {TRUE}
Upsert(s, r, saved) ==
    /\ store' = [store EXCEPT ![s] = r]
    /\ disk' = IF saved THEN [store EXCEPT ![s] = r] ELSE disk

-----------------------------------------------------------------------------
(* Starting deploys.                                                       *)

Start(d, j) ==
    /\ At(d, "unborn")
    /\ attached
    /\ job' = [job EXCEPT ![d] = j]
    /\ UNCHANGED <<host, content, stopping, ran, healthy, recVars>>

NewJob(s, i) ==
    [Unborn EXCEPT !.pc = "markProgressing", !.server = s, !.image = i]

\* Mutant of ConsumerFree: every event gets a goroutine.
ConsumerPerEvent == TRUE

\* The watcher's events are handled one after the other, and the servers of
\* one event too.
ConsumerFree == \A d \in Deploys : job[d].git => ~Active(d)

\* imageTag: the reference a local build of the server gets, by its revision.
ImageTag(s, i) == i \in LocalTags[s]

GitDeploy(d, s, i) ==
    /\ "git" \in Triggers
    /\ ConsumerFree
    /\ ImageTag(s, i)
    /\ Start(d, [NewJob(s, i) EXCEPT !.git = TRUE])

GitConfig(d, s) ==
    /\ "config" \in Triggers
    /\ ConsumerFree
    /\ Start(d, [NewJob(s, NoImage) EXCEPT !.git = TRUE, !.kind = "config"])

\* Both handlers answer 404 for a server the store does not know, and run the
\* deploy in a goroutine of its own.  A Jenkins request that names no image is
\* built locally, like a manual sync.
ManualSync(d, s, i) ==
    /\ "manual" \in Triggers
    /\ Known(s)
    /\ ImageTag(s, i)
    /\ Start(d, NewJob(s, i))

JenkinsSync(d, s, i, strict, mismatch) ==
    /\ "jenkins" \in Triggers
    /\ Known(s)
    /\ Start(d, [NewJob(s, i) EXCEPT !.prebuilt = TRUE, !.strict = strict,
                                     !.mismatch = mismatch])

-----------------------------------------------------------------------------
(* runJARWithOpts and runConfig around the pipeline.                       *)

ReadRecord(d, l) ==
    /\ snap' = [snap EXCEPT ![d] = store[job[d].server]]
    /\ Goto(d, l)
    /\ UNCHANGED <<host, content, stopping, ran, healthy>>
    /\ UNCHANGED <<store, disk, obs, attached, restarts>>

WriteRecord(d, r, saved, l) ==
    /\ Upsert(job[d].server, r, saved)
    /\ snap' = [snap EXCEPT ![d] = NoRecord]
    /\ Goto(d, l)
    /\ UNCHANGED <<host, content, stopping, ran, healthy>>
    /\ UNCHANGED <<obs, attached, restarts>>

MarkProgressing(d) ==
    \/ At(d, "markProgressing") /\ ReadRecord(d, "putProgressing")
    \/ /\ At(d, "putProgressing")
       /\ \E saved \in Saves :
            WriteRecord(d, Progressing(snap[d]), saved,
                IF job[d].kind = "jar" THEN "readPrevious" ELSE "config")

\* Mutant of PreviousImage: the rollback target is the new image.
PreviousImageNew(d) == job[d].image

\* The rollback target: the record's image before anything is touched.
PreviousImage(d) == store[job[d].server].cur

ReadPrevious(d) ==
    /\ At(d, "readPrevious")
    /\ job' = [job EXCEPT ![d].prev = PreviousImage(d),
                          ![d].pc = "obtain"]
    /\ UNCHANGED <<host, content, stopping, ran, healthy, recVars>>

\* A save that fails hides the success: no history entry is added.
MarkSynced(d) ==
    \/ At(d, "ok") /\ ReadRecord(d, "putSynced")
    \/ /\ At(d, "putSynced")
       /\ \E saved \in Saves :
            WriteRecord(d, SyncedTo(snap[d], job[d].image), saved,
                        IF saved THEN "succeeded" ELSE "unsaved")

MarkFailed(d) ==
    \/ At(d, "err") /\ ReadRecord(d, "putFailed")
    \/ /\ At(d, "putFailed")
       /\ \E saved \in Saves : WriteRecord(d, Failed(snap[d]), saved, "failed")

-----------------------------------------------------------------------------
(* Reconcile and observeOne.                                               *)

Sightings == [status : {"none", "error", "missing", "running", "detached"},
              image : MaybeImage]
Saw(status, i) == [status |-> status, image |-> i]

Observations == [pc : {"idle", "get", "observe", "put"},
                 todo : SUBSET Servers, server : Servers \cup {NoServer},
                 snap : Records, seen : Sightings]
IdleObserver == [pc |-> "idle", todo |-> {}, server |-> NoServer,
                 snap |-> NoRecord, seen |-> Saw("none", NoImage)]

\* Mutant of SeenRunning: whatever runs is taken for the right image.
SeenRunningTrusted(r, i) ==
    [r EXCEPT !.health = "Healthy", !.sync = "Synced",
              !.cur = IF @ = NoImage THEN i ELSE @]

\* A record without an image adopts the one that runs.
SeenRunning(r, i) ==
    [r EXCEPT !.health = "Healthy",
              !.sync = IF r.cur \in {NoImage, i} THEN "Synced" ELSE "OutOfSync",
              !.cur = IF @ = NoImage THEN i ELSE @]

\* observeOne: what an observation makes of a record.
Observed(r, seen) ==
    CASE seen.status = "error" ->
           [r EXCEPT !.sync = "Unknown", !.health = "Unknown"]
      [] seen.status = "missing" ->
           [r EXCEPT !.sync = "OutOfSync", !.health = "Missing"]
      [] seen.status = "detached" ->
           [r EXCEPT !.sync = IF @ = "" THEN "Unknown" ELSE @,
                     !.health = IF @ = "" THEN "Unknown" ELSE @]
      [] OTHER -> SeenRunning(r, seen.image)

\* Mutant of Look: the observer is not wired up after the start.
LookUnwired(s) == {Saw("detached", NoImage)}

\* Observer.Running: a lookup, then an inspection that fails when the container
\* is gone by then, so an error is always possible.
Look(s) ==
    IF ~attached THEN {Saw("detached", NoImage)}
    ELSE {Saw("error", NoImage)} \cup
         (IF stopping THEN {}
          ELSE IF host[s].running THEN {Saw("running", host[s].image)}
          ELSE {Saw("missing", NoImage)})

ReconcileBegin(o) ==
    /\ obs[o].pc = "idle"
    /\ obs' = [obs EXCEPT ![o].pc = "get", ![o].todo = Servers]
    /\ UNCHANGED <<pipeVars, store, disk, snap, attached, restarts>>

ObserveGet(o) ==
    /\ obs[o].pc = "get"
    /\ \E s \in obs[o].todo :
         obs' = [obs EXCEPT ![o].pc = "observe", ![o].todo = @ \ {s},
                            ![o].server = s, ![o].snap = store[s]]
    /\ UNCHANGED <<pipeVars, store, disk, snap, attached, restarts>>

ObserveRunning(o) ==
    /\ obs[o].pc = "observe"
    /\ \E seen \in Look(obs[o].server) :
         obs' = [obs EXCEPT ![o].pc = "put", ![o].seen = seen]
    /\ UNCHANGED <<pipeVars, store, disk, snap, attached, restarts>>

\* The pass ends after the last server, or at the first save that fails.
AfterPut(o, saved) ==
    IF saved /\ obs[o].todo # {}
    THEN [IdleObserver EXCEPT !.pc = "get", !.todo = obs[o].todo]
    ELSE IdleObserver

ObservePut(o) ==
    /\ obs[o].pc = "put"
    /\ \E saved \in Saves :
        /\ Upsert(obs[o].server, Observed(obs[o].snap, obs[o].seen), saved)
        /\ obs' = [obs EXCEPT ![o] = AfterPut(o, saved)]
    /\ UNCHANGED <<pipeVars, snap, attached, restarts>>

-----------------------------------------------------------------------------
(* The life of the daemon.                                                 *)

Shutdown ==
    /\ "shutdown" \in Faults
    /\ ~stopping
    /\ stopping' = TRUE
    /\ UNCHANGED <<job, host, content, ran, healthy, recVars>>

\* The process ends anywhere, and a new one opens state.json.
Restart ==
    /\ "crash" \in Faults
    /\ restarts < MaxRestarts
    /\ restarts' = restarts + 1
    /\ job' = [d \in Deploys |->
                 IF Active(d) THEN [job[d] EXCEPT !.pc = "lost"] ELSE job[d]]
    /\ snap' = [d \in Deploys |-> NoRecord]
    /\ obs' = [o \in Observers |-> IdleObserver]
    /\ store' = disk
    /\ stopping' = FALSE
    /\ attached' \in (IF "detach" \in Faults THEN BOOLEAN ELSE {TRUE})
    /\ UNCHANGED <<host, content, ran, healthy, disk>>

-----------------------------------------------------------------------------
\* The daemon starts on a fresh state.json, or on one that records the image
\* of the container it finds.
Settled(i) == [sync |-> "Synced", health |-> "Healthy", cur |-> i,
               prev |-> NoImage]

Init ==
    /\ PipeInit
    /\ store \in [Servers -> {NoRecord} \cup {Settled(i) : i \in Images}]
    /\ \A s \in Servers : store[s].cur \in {NoImage, host[s].image}
    /\ disk = store
    /\ snap = [d \in Deploys |-> NoRecord]
    /\ obs = [o \in Observers |-> IdleObserver]
    /\ attached = TRUE
    /\ restarts = 0

Begin(d) ==
    \E s \in Servers :
      \/ GitConfig(d, s)
      \/ \E i \in Images :
           \/ GitDeploy(d, s, i)
           \/ ManualSync(d, s, i)
           \/ \E strict, mismatch \in BOOLEAN :
                JenkinsSync(d, s, i, strict, mismatch)

DeployStep(d) ==
    \/ PipelineStep(d) /\ UNCHANGED recVars
    \/ MarkProgressing(d) \/ ReadPrevious(d) \/ MarkSynced(d) \/ MarkFailed(d)

ObserverStep(o) ==
    \/ ReconcileBegin(o) \/ ObserveGet(o) \/ ObserveRunning(o) \/ ObservePut(o)

Next ==
    \/ \E d \in Deploys : Begin(d) \/ DeployStep(d)
    \/ \E o \in Observers : ObserverStep(o)
    \/ Shutdown
    \/ Restart

\* Goroutines are scheduled; nothing makes anyone ask for a deploy, and nothing
\* makes the daemon stop.
Fairness ==
    /\ \A d \in Deploys : WF_vars(DeployStep(d))
    /\ \A o \in Observers : WF_vars(ObserverStep(o))

Spec == Init /\ [][Next]_vars
FairSpec == Spec /\ Fairness

-----------------------------------------------------------------------------
(* Properties.                                                             *)

\* Types of all variables.
TypeOK ==
    /\ PipeTypeOK
    /\ store \in [Servers -> Records]
    /\ disk \in [Servers -> Records]
    /\ snap \in [Deploys -> Records]
    /\ obs \in [Observers -> Observations]
    /\ attached \in BOOLEAN
    /\ restarts \in 0 .. MaxRestarts

\* The rollback pair is worth having: a record never names one image as both
\* current and previous, and has no previous without a current, although
\* deploys, observers and restarts write whole stale copies over each other.
SoundPair(r) ==
    /\ r.cur = NoImage => r.prev = NoImage
    /\ r.cur # NoImage => r.prev # r.cur

RollbackPair ==
    /\ \A s \in Servers : SoundPair(store[s]) /\ SoundPair(disk[s])
    /\ \A d \in Deploys : SoundPair(snap[d])
    /\ \A o \in Observers : SoundPair(obs[o].snap)

\* Provenance: whatever a record of a server, or a rollback of it, names is an
\* image a container of that very server was once started with.  So a rollback
\* never starts an image the server has not run before.
Launched(s, i) == i = NoImage \/ i \in ran[s]
RecordLaunched(s, r) == Launched(s, r.cur) /\ Launched(s, r.prev)

RecordsLaunched ==
    \A s \in Servers : RecordLaunched(s, store[s]) /\ RecordLaunched(s, disk[s])

RollbackLaunched ==
    \A d \in Deploys : Active(d) => Launched(job[d].server, job[d].prev)

Provenance == RecordsLaunched /\ RollbackLaunched

\* A deploy of the watcher that returns without an error left its own container
\* running under the server's name, with the build it made.
GitDeploys == {d \in Deploys : job[d].git /\ job[d].kind = "jar"}
DeployedIsRunning ==
    \A d \in GitDeploys : job[d].pc \in {"ok", "putSynced"} =>
        host[job[d].server] = [id |-> [by |-> d, phase |-> "new"],
            image |-> job[d].image, build |-> d, running |-> TRUE]

\* A rollback that met no fault ends with the previous image running.
RollbackRestores ==
    \A d \in GitDeploys :
        job[d].pc \in {"err", "putFailed"} /\ job[d].phase = "rollback" =>
            /\ host[job[d].server].running
            /\ host[job[d].server].image = job[d].prev

\* A server that was ever up stays up: however its deploys interleave, take
\* each other's containers away and roll back, when they are all over its name
\* belongs to a running container (Docker itself failing nobody).
Quiet(s) == \A d \in Deploys : job[d].server = s => ~Active(d)
QuietServerUp ==
    \A s \in Servers : Quiet(s) /\ ran[s] # {} => host[s].running

-----------------------------------------------------------------------------
(* What the proofs carry along: the parts of the inductive invariant.      *)

Early == {"unborn", "markProgressing", "putProgressing", "readPrevious"}

JobSound(j) ==
    /\ j.pc # "unborn" => j.server \in Servers
    /\ j.pc # "unborn" /\ j.kind = "jar" => j.image \in Images
    /\ j.kind = "config" => j.image = NoImage
    /\ j.pc = "config" => j.kind = "config"
    /\ j.pc \in Preflight \cup Rolling \cup {"readPrevious"} => j.kind = "jar"
    /\ j.pc \in Early \cup Preflight \cup {"health"} => j.phase = "new"
    /\ j.pc \in Early => j.prev = NoImage
    /\ j.phase = "rollback" => j.prev # NoImage
JobsSound == \A d \in Deploys : JobSound(job[d])

ObserverSound(k) ==
    /\ k.pc \in {"observe", "put"} => k.server \in Servers
    /\ k.pc = "put" => k.seen.status # "none"
ObserversSound == \A o \in Observers : ObserverSound(obs[o])

\* A container made by a deploy belongs to that deploy's server and runs the
\* image its id stands for.
OwnerSound(s, d) ==
    /\ job[d].server = s
    /\ job[d].kind = "jar"
    /\ job[d].pc \notin Early \cup Preflight
    /\ host[s].id.phase \in {"new", "rollback"}
    /\ host[s].image = IF host[s].id.phase = "new" THEN job[d].image
                                                   ELSE job[d].prev
OwnersSound ==
    \A s \in Servers, d \in Deploys :
        host[s].id.by = d => OwnerSound(s, d)

\* Everything that can still reach a record or a rollback was launched.
PendingLaunched ==
    /\ \A s \in Servers : host[s].running => host[s].image \in ran[s]
    /\ \A d \in Deploys :
        /\ At(d, "unborn") => snap[d] = NoRecord
        /\ Active(d) => RecordLaunched(job[d].server, snap[d])
        /\ job[d].kind = "jar" /\ job[d].pc \in {"health", "ok", "putSynced"} =>
             job[d].image \in ran[job[d].server]
    /\ \A o \in Observers :
        /\ obs[o].pc \in {"observe", "put"} =>
             RecordLaunched(obs[o].server, obs[o].snap)
        /\ obs[o].pc = "put" /\ obs[o].seen.status = "running" =>
             obs[o].seen.image \in ran[obs[o].server]

-----------------------------------------------------------------------------
(* Statements of the documentation that the code does not keep.            *)

\* docs/pipelines.md: after a successful sync the freshly deployed image is the
\* record's current image.  Stated for a deploy that no other deploy met, and
\* leniently: a record without an image is filled in by the next observation.
DeployRecorded ==
    \A d \in Deploys :
        /\ At(d, "succeeded")
        /\ \A e \in Deploys \ {d} : At(e, "unborn")
        => job[d].image = NoImage \/
           store[job[d].server].cur \in {job[d].image, NoImage}

\* docs/pipelines.md: a rollback container needs no health check because what
\* it runs was healthy before the failed deploy.
RollbackTrusted ==
    \A s \in Servers : host[s].running /\ host[s].id.phase = "rollback" =>
        <<host[s].image, host[s].build>> \in healthy[s]

\* docs/roadmap.md: after simultaneous syncs of one server the state stayed
\* consistent.  A record that says Synced names the image that runs.
Truthful(s) ==
    store[s].sync = "Synced" =>
        host[s].running /\ host[s].image = store[s].cur
QuietRecordTruthful == \A s \in Servers : Quiet(s) => Truthful(s)

-----------------------------------------------------------------------------
(* Deploys that come one at a time implement RolloutPromise.               *)

StageOf(j) ==
    IF j.kind = "config" \/ j.pc = "unborn" THEN "idle"
    ELSE CASE j.pc \in {"markProgressing", "putProgressing", "readPrevious"} ->
                "requested"
           [] j.pc = "health" -> "trial"
           [] j.pc \in (Preflight \cup Rolling) \ {"health"} ->
                IF j.phase = "new" THEN "deploying" ELSE "recovering"
           [] j.pc \in {"ok", "putSynced"} -> "passed"
           [] j.pc \in {"err", "putFailed"} -> "spent"
           [] j.pc = "unsaved" -> "succeeded"
           [] OTHER -> j.pc
OrderOf(j) ==
    IF j.kind = "config" THEN [server |-> NoServer, image |-> NoImage,
                               fallback |-> NoImage]
    ELSE [server |-> j.server, image |-> j.image, fallback |-> j.prev]

Promise == INSTANCE RolloutPromise WITH
    serving <- [s \in Servers |->
                  IF host[s].running THEN host[s].image ELSE NoImage],
    served <- ran,
    stage <- [d \in Deploys |-> StageOf(job[d])],
    order <- [d \in Deploys |-> OrderOf(job[d])]

\* Every behaviour of deploys that come one at a time is one RolloutPromise
\* allows: no step takes the server down outside a deploy, goes back to the
\* failed image after the rollback began, or passes on another image.
RolloutRefined == Promise!Spec

-----------------------------------------------------------------------------
(* Liveness, under FairSpec.                                               *)

\* A deploy that started is over one day.
DeploysEnd == \A d \in Deploys : Active(d) ~> job[d].pc \in Finished

\* No server is shown as progressing for ever, even when the deploy that set it
\* died with the process.
ProgressingClears ==
    \A s \in Servers :
        store[s].sync = "Progressing" ~> store[s].sync # "Progressing"

\* The reconciler's promise: in the end, a server that is shown as Synced runs
\* the image its record names.
EventuallyTruthful == \A s \in Servers : <>[]Truthful(s)
=============================================================================
