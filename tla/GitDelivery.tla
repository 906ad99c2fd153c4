---------------------------- MODULE GitDelivery ----------------------------
(***************************************************************************)
(* How a commit reaches the containers: internal/gitops/watcher.go pulls   *)
(* the working copy and emits what changed, main.go consumes the events    *)
(* and reloads the manifest, Reconciler.HandleChanges picks the pipeline.  *)
(*                                                                         *)
(* Rollover.tla has the inside of a deploy; here the deploy of one server  *)
(* is one step.  What counts is which content of the repository ends up in *)
(* a container: images are built and files are copied from the working     *)
(* copy as it is at that moment, not from the commit of the event.         *)
(***************************************************************************)
EXTENDS Naturals, Sequences

CONSTANTS
    Servers,      \* the manifest's gameplay servers
    Versions,     \* contents of the jars, of a config file, of the manifest
    Broken,       \* content of a manifest that does not parse or validate
    Absent,       \* a config file that is not there
    Unknown,      \* what a failed pipeline left in a container
    Trees,        \* the trees a commit may have
    QueueSize,    \* capacity of watchEvents
    MaxCommits,   \* bound on the commits of a run
    MaxFailures,  \* bound on the pulls, diffs and deploys that fail
    MaxRestarts   \* bound on the restarts of the daemon

ASSUME ContentAssumption ==
    /\ Broken \notin Versions /\ Absent \notin Versions
    /\ Unknown \notin Versions \cup {Broken, Absent}
ASSUME TreeAssumption ==
    Trees \subseteq [jar : Versions, manifest : Versions \cup {Broken},
                     config : [Servers -> Versions \cup {Absent}]]
ASSUME BoundAssumption ==
    /\ QueueSize \in Nat \ {0} /\ MaxCommits \in Nat \ {0}
    /\ MaxFailures \in Nat /\ MaxRestarts \in Nat

VARIABLES
    remote,     \* the working copy has an origin to pull from
    log,        \* the commits of the branch: the tree of each
    head,       \* position of the working copy's HEAD in log
    prevHead,   \* Run's prevHead
    pending,    \* the event Run is emitting
    queue,      \* watchEvents
    manifest,   \* main.go's current manifest; Broken when there is none
    mode,       \* pipeline of the event being handled
    todo,       \* servers it still has to visit
    paths,      \* servers whose config file is in its ConfigPaths
    container,  \* server -> what its container was made of
    told,       \* history: commits the consumer was told of
    lost,       \* history: commits given up before they were handled
    failures, restarts

watcherVars == <<prevHead, pending>>
eventVars == <<mode, todo, paths>>
bounds == <<failures, restarts>>
vars == <<remote, log, head, watcherVars, queue, manifest, eventVars,
          container, told, lost, bounds>>

-----------------------------------------------------------------------------
(* Events and what they say.                                               *)

Positions == 1 .. MaxCommits
Changes == [from : Positions, to : Positions]
Failure == [from |-> 0, to |-> 0]  \* a WatchEvent with Err set
NoEvent == [from |-> 0, to |-> 1]  \* nothing is being emitted
Events == Changes \cup {Failure}

\* The commits an event stands for.
Span(e) == e.from + 1 .. e.to
Waiting(q) == UNION {Span(q[i]) : i \in DOMAIN q}

Tree(n) == log[n]
Files == Tree(head)  \* the working copy

\* Summarize: which kinds of files an event's two commits differ in.
HasJAR(e) == Tree(e.from).jar # Tree(e.to).jar
HasManifest(e) == Tree(e.from).manifest # Tree(e.to).manifest
ConfigPaths(e) ==
    {s \in Servers : Tree(e.from).config[s] # Tree(e.to).config[s]}

\* Mutant of RequiresJARPipeline: a manifest edit alone rebuilds nothing.
RequiresJARPipelineJarsOnly(e) == HasJAR(e)

RequiresJARPipeline(e) == HasJAR(e) \/ HasManifest(e)

-----------------------------------------------------------------------------
(* The repository.  Without a remote, commits are made in the working copy *)
(* itself.                                                                 *)

Commit(t) ==
    /\ Len(log) < MaxCommits
    /\ t # Tree(Len(log))
    /\ log' = Append(log, t)
    /\ head' = IF remote THEN head ELSE Len(log')
    /\ UNCHANGED <<remote, watcherVars, queue, manifest, eventVars, container,
                   told, lost, bounds>>

-----------------------------------------------------------------------------
(* Watcher.Run: one pass of the closure run.                               *)

Fails == failures < MaxFailures /\ failures' = failures + 1
Works == UNCHANGED failures

\* Mutant of Moved: a pull that brings nothing new means no change.
MovedByPull == head # Len(log)

\* newHead is compared with the baseline of the last event.
Moved == prevHead # Len(log)

\* pullAndDiff.  A diff that fails leaves the working copy pulled.
PullAndDiff ==
    /\ pending = NoEvent
    /\ \/ /\ Works
          /\ Moved
          /\ head' = Len(log)
          /\ pending' = [from |-> prevHead, to |-> Len(log)]
       \/ /\ Fails
          /\ head' \in {head, Len(log)}
          /\ pending' = Failure
    /\ UNCHANGED <<remote, log, prevHead, queue, manifest, eventVars, container,
                   told, lost, restarts>>

\* Mutant of Advanced: the baseline moves to HEAD whatever was emitted.
AdvancedAlways == head

\* Mutant of Advanced: an event that found no place does not move it.
AdvancedNever == prevHead

\* Only an event without an error moves the baseline.
Advanced == IF pending = Failure THEN prevHead ELSE pending.to

\* Mutant of Full: the channel takes one event too many.
FullLater == Len(queue) > QueueSize

Full == Len(queue) = QueueSize

\* emit: when the channel is still full after 100 ms the event is dropped.
Emit ==
    /\ pending # NoEvent
    /\ \/ /\ ~Full
          /\ queue' = Append(queue, pending)
          /\ UNCHANGED lost
       \/ /\ Full
          /\ lost' = lost \cup Span(pending)
          /\ UNCHANGED queue
    /\ prevHead' = Advanced
    /\ pending' = NoEvent
    /\ UNCHANGED <<remote, log, head, manifest, eventVars, container, told,
                   bounds>>

-----------------------------------------------------------------------------
(* The consumer of watchEvents and HandleChanges.                          *)

Idle == mode = "idle"

\* loadManifest reads the file of the working copy, once the event says that
\* it changed, and keeps the old manifest when that fails.
Loadable == Files.manifest # Broken
Loaded(e) == IF HasManifest(e) /\ Loadable THEN Files.manifest ELSE manifest

\* A reload that fails, or no manifest at all, ends the handling.
Accepted(e) == IF HasManifest(e) THEN Loadable ELSE manifest # Broken

Dispatch(e) ==
    /\ mode' = IF RequiresJARPipeline(e) THEN "jar" ELSE "config"
    /\ todo' = IF RequiresJARPipeline(e) THEN Servers ELSE ConfigPaths(e)
    /\ paths' = ConfigPaths(e)

Receive ==
    /\ Idle
    /\ queue # <<>>
    /\ queue' = Tail(queue)
    /\ LET e == Head(queue) IN
        /\ told' = told \cup Span(e)
        /\ IF e # Failure /\ Accepted(e)
           THEN Dispatch(e) ELSE UNCHANGED eventVars
        /\ manifest' = IF e = Failure THEN manifest ELSE Loaded(e)
    /\ UNCHANGED <<remote, log, head, watcherVars, container, lost, bounds>>

Visit(s) == s \in todo /\ todo' = todo \ {s}

\* A new container has what its image has: the working copy's jars and labels
\* of the manifest in force, and no config files.
Fresh == [jar |-> Files.jar, spec |-> manifest, config |-> Absent]
Unsettled == [jar |-> Unknown, spec |-> Unknown, config |-> Unknown]

\* runJAR.
DeployJAR(s) ==
    /\ mode = "jar"
    /\ Visit(s)
    /\ \/ Works /\ container' = [container EXCEPT ![s] = Fresh]
       \/ Fails /\ container' = [container EXCEPT ![s] = Unsettled]
    /\ UNCHANGED <<remote, log, head, watcherVars, queue, manifest, mode, paths,
                   told, lost, restarts>>

\* Mutant of Deleted: files that are gone are skipped.
DeletedSkipped == {}

\* A changed file that is gone fails RunConfig, whichever server it was for.
Deleted == {s \in paths : Files.config[s] = Absent}

\* The config files a server has after its changed ones were copied; what an
\* earlier failure left out stays out.
Copied(s) ==
    IF container[s].config # Unknown /\ Files.config[s] # Absent
    THEN Files.config[s] ELSE container[s].config

\* runConfig: it stops at the first error, in the middle of the copying or at
\* the reload.
DeployConfig(s) ==
    /\ mode = "config"
    /\ Visit(s)
    /\ \/ /\ Works
          /\ container' = [container EXCEPT
                             ![s].config = IF Deleted = {} THEN Copied(s)
                                                           ELSE Unknown]
       \/ Fails /\ container' = [container EXCEPT ![s].config = Unknown]
    /\ UNCHANGED <<remote, log, head, watcherVars, queue, manifest, mode, paths,
                   told, lost, restarts>>

Handled ==
    /\ ~Idle
    /\ todo = {}
    /\ mode' = "idle"
    /\ paths' = {}
    /\ UNCHANGED <<remote, log, head, watcherVars, queue, manifest, todo,
                   container, told, lost, bounds>>

-----------------------------------------------------------------------------
(* The daemon stops, in the middle of whatever it does.  The containers    *)
(* and the working copy stay; the next process takes HEAD for its baseline *)
(* and reads the manifest that is there.                                   *)

Restart ==
    /\ restarts < MaxRestarts
    /\ restarts' = restarts + 1
    /\ prevHead' = head
    /\ pending' = NoEvent
    /\ queue' = <<>>
    /\ manifest' = Files.manifest
    /\ mode' = "idle" /\ todo' = {} /\ paths' = {}
    /\ \E cut \in SUBSET todo :
         container' = [s \in Servers |->
                         IF s \in cut THEN Unsettled ELSE container[s]]
    /\ lost' = lost \cup Waiting(queue) \cup (prevHead + 1 .. head)
                 \cup (IF todo = {} THEN {} ELSE told)
    /\ UNCHANGED <<remote, log, head, told, failures>>

-----------------------------------------------------------------------------
\* The daemon starts on containers that were made from the working copy, with
\* or without its config files.
Init ==
    /\ remote \in BOOLEAN
    /\ \E t \in Trees, kept \in SUBSET Servers :
        /\ t.manifest # Broken
        /\ log = <<t>>
        /\ manifest = t.manifest
        /\ container = [s \in Servers |->
                [jar |-> t.jar, spec |-> t.manifest,
                 config |-> IF s \in kept THEN t.config[s] ELSE Absent]]
    /\ head = 1 /\ prevHead = 1
    /\ pending = NoEvent /\ queue = <<>>
    /\ mode = "idle" /\ todo = {} /\ paths = {}
    /\ told = {} /\ lost = {} /\ failures = 0 /\ restarts = 0

Watch == PullAndDiff \/ Emit
Consume ==
    Receive \/ Handled \/ \E s \in Servers : DeployJAR(s) \/ DeployConfig(s)

Next ==
    \/ \E t \in Trees : Commit(t)
    \/ Watch
    \/ Consume
    \/ Restart

Spec == Init /\ [][Next]_vars

\* The ticker fires for ever, and both goroutines are scheduled.
FairSpec == Spec /\ WF_vars(Watch) /\ WF_vars(Consume)

-----------------------------------------------------------------------------
(* Properties.                                                             *)

\* Types of all variables.
TypeOK ==
    /\ remote \in BOOLEAN
    /\ log \in Seq(Trees) /\ Len(log) \in Positions
    /\ head \in Positions /\ prevHead \in Positions
    /\ pending \in Events \cup {NoEvent}
    /\ queue \in Seq(Events) /\ Len(queue) <= QueueSize
    /\ manifest \in Versions \cup {Broken}
    /\ mode \in {"idle", "jar", "config"}
    /\ todo \in SUBSET Servers /\ paths \in SUBSET Servers
    /\ container \in [Servers ->
         [jar : Versions \cup {Unknown}, spec : Versions \cup {Broken, Unknown},
          config : Versions \cup {Absent, Unknown}]]
    /\ told \in SUBSET Positions /\ lost \in SUBSET Positions
    /\ failures \in 0 .. MaxFailures /\ restarts \in 0 .. MaxRestarts

\* The baseline never moves past a commit nobody will hear of: up to it, every
\* commit was told to the consumer, is on its way to it, or was given up.
NoCommitSkipped ==
    2 .. prevHead \subseteq told \cup lost \cup Waiting(queue)

\* No commit is handled twice, or after a later one: the events on their way
\* come in the order of their commits, later than all the consumer was told of
\* and up to the baseline, where the next event begins.
NoCommitTwice ==
    /\ \A i, j \in DOMAIN queue :
         i < j /\ queue[j] # Failure => queue[i].to <= queue[j].from
    /\ \A n \in told, i \in DOMAIN queue :
         queue[i] # Failure => n <= queue[i].from
    /\ \A n \in told \cup lost \cup Waiting(queue) : n <= prevHead
    /\ pending \in Changes => pending.from = prevHead

-----------------------------------------------------------------------------
(* What the proofs carry along: the parts of the inductive invariant.      *)

\* The working copy is behind the branch and the baseline behind the working
\* copy; the event being emitted starts at the baseline.
Baseline ==
    /\ head <= Len(log) /\ prevHead <= head
    /\ pending \in Changes =>
         pending.from = prevHead /\ prevHead < pending.to /\ pending.to <= head

QueueBehind == \A i \in DOMAIN queue : queue[i].to <= prevHead

-----------------------------------------------------------------------------
(* Liveness, under FairSpec.                                               *)

\* Every commit is told to the consumer one day, unless it was given up: a pull
\* or a diff that fails only delays it.
CommitsNoticed ==
    \A n \in Positions : n \in 2 .. Len(log) ~> n \in told \cup lost

\* The containers end up made of the latest commit, unless a commit was given
\* up or the last pipeline of the server failed, whatever changed under the
\* deploys meanwhile and although a manifest that does not load discards the
\* event that brought it.
Latest(s) ==
    /\ container[s].jar \in {Files.jar, Unknown}
    /\ container[s].spec \in {Files.manifest, Unknown}
BuildsConverge ==
    \A s \in Servers : <>[](lost # {} \/ ~Loadable \/ Latest(s))

\* And the config files of a server that has any are those of the latest
\* commit: no older file is put over a newer one.
ConfigsConverge ==
    \A s \in Servers :
        <>[](lost # {} \/ ~Loadable
             \/ container[s].config \in {Files.config[s], Absent, Unknown})

-----------------------------------------------------------------------------
(* Statements of the documentation that the code does not keep.            *)

\* docs/pipelines.md: when a commit changes jars and configs, the JAR pipeline
\* also picks up the config changes.
MixedCommitApplied ==
    [][\A s \in paths \cap todo :
         mode = "jar" /\ mode' = "jar" /\ s \notin todo' =>
             container'[s].config \in {Files.config[s], Unknown}]_vars

\* watcher.go, Run: the initial pull notices in-flight changes.  So a restart
\* loses no commit; what was dropped before it is left aside.
InFlightNoticed ==
    [][restarts' # restarts =>
         2 .. prevHead' \subseteq told \cup lost]_vars
=============================================================================
