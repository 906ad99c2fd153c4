-------------------------- MODULE ProvenanceProofs --------------------------
(***************************************************************************)
(* Provenance: whatever a record or a rollback of a server names was once  *)
(* launched for that server.  The argument is about who owns a container   *)
(* (OwnersSound): the image a deploy starts is the one its container was   *)
(* created with, although other deploys take the name away in between.     *)
(***************************************************************************)
EXTENDS ReconcilerProofs

USE NoneAssumption, PortAssumption, TagAssumption, RestartAssumption

-----------------------------------------------------------------------------
(* What a step does, in terms the invariants need.                         *)

\* Deploy d moved to location l and kept what it was asked for.
Moved(d, l) ==
    /\ \A e \in Deploys \ {d} : job'[e] = job[e]
    /\ job'[d].pc = l
    /\ job'[d].server = job[d].server
    /\ job'[d].kind = job[d].kind
    /\ job'[d].image = job[d].image
    /\ job'[d].prev = job[d].prev

\* Once its rollover began, a deploy's order is settled.
OrderKept(e) ==
    job[e].pc \notin Early \cup Preflight =>
        /\ job'[e].pc \notin Early \cup Preflight
        /\ job'[e].server = job[e].server
        /\ job'[e].kind = job[e].kind
        /\ job'[e].image = job[e].image
        /\ job'[e].prev = job[e].prev

CreatedFor(s, d) ==
    /\ job[d].server = s /\ job[d].kind = "jar" /\ job[d].pc = "create"
    /\ host'[s] = Created(d)

ContainerKept(s) ==
    \/ /\ host'[s].id = host[s].id
       /\ host'[s].image = host[s].image
       /\ host'[s].running => host[s].running \/ host[s].image \in ran'[s]
    \/ host'[s] = NoContainer
    \/ \E d \in Deploys : CreatedFor(s, d)

RanGrows == \A s \in Servers : ran[s] \subseteq ran'[s]

Evolves ==
    /\ \A e \in Deploys : OrderKept(e)
    /\ \A s \in Servers : ContainerKept(s)
    /\ RanGrows

LEMMA GotoMoves ==
    ASSUME job \in [Deploys -> Jobs], NEW d \in Deploys, NEW l, Goto(d, l)
    PROVE  Moved(d, l)
  BY DEF Goto, Moved, Jobs

LEMMA FoundThenMoves ==
    ASSUME job \in [Deploys -> Jobs], NEW d \in Deploys, NEW l, NEW id,
           FoundThen(d, id, l)
    PROVE  Moved(d, l)
  BY DEF FoundThen, Moved, Jobs

LEMMA FailRolloverMoves ==
    ASSUME job \in [Deploys -> Jobs], NEW d \in Deploys, FailRollover(d)
    PROVE  \E l \in {"find", "err"} : Moved(d, l)
  <1>1. Moved(d, IF RollsBack(d) THEN "find" ELSE "err")
    BY DEF FailRollover, Moved, Jobs
  <1> QED
    BY <1>1

\* Where a pipeline step of a deploy can lead.
LEMMA PipelineMoves ==
    ASSUME Typed, NEW d \in Deploys, PipelineStep(d)
    PROVE  /\ job[d].pc \in {"config"} \cup Preflight \cup Rolling
           /\ \E l \in Preflight \cup Rolling \cup Returned :
                /\ Moved(d, l)
                /\ job[d].pc \notin Preflight => l \notin Preflight
                /\ l = "start" => CreateContainer(d)
                /\ l = "health" => StartContainer(d)
                /\ l = "discard" => StartFails(d)
                /\ l = "ok" => job[d].pc \in {"health", "config"}
  <1> USE DEF Preflight, Rolling, Returned, At
  <1>1. job \in [Deploys -> Jobs]
    BY DEF Typed, TypeOK, PipeTypeOK
  <1>2. CASE ObtainImage(d) \/ ObtainFails(d)
    BY <1>1, <1>2, GotoMoves DEF ObtainImage, ObtainFails
  <1>3. CASE CheckDrift(d)
    <2>1. Goto(d, "err") \/ Goto(d, "network")
      BY <1>3 DEF CheckDrift
    <2> QED
      BY <1>1, <1>3, <2>1, GotoMoves DEF CheckDrift
  <1>4. CASE EnsureNetwork(d)
    BY <1>1, <1>4, GotoMoves DEF EnsureNetwork
  <1>5. CASE FindOld(d)
    <2>1. \E id, l : FoundThen(d, id, l) /\ l \in {"stop", "runFind"}
      BY <1>5 DEF FindOld
    <2> QED
      BY <1>1, <1>5, <2>1, FoundThenMoves DEF FindOld
  <1>6. CASE StopOld(d)
    BY <1>1, <1>6, GotoMoves DEF StopOld
  <1>7. CASE RemoveOld(d)
    BY <1>1, <1>7, FoundThenMoves DEF RemoveOld
  <1>8. CASE RunFind(d)
    <2>1. \/ \E id, l : FoundThen(d, id, l) /\ l \in {"create", "runRemove"}
          \/ FailRollover(d)
      BY <1>8 DEF RunFind
    <2> QED
      BY <1>1, <1>8, <2>1, FoundThenMoves, FailRolloverMoves DEF RunFind
  <1>9. CASE RunRemove(d)
    BY <1>1, <1>9, FoundThenMoves, FailRolloverMoves DEF RunRemove
  <1>10. CASE CreateContainer(d)
    BY <1>1, <1>10, GotoMoves, FailRolloverMoves DEF CreateContainer
  <1>11. CASE StartContainer(d)
    <2>1. Goto(d, "health") \/ Goto(d, "err")
      BY <1>11 DEF StartContainer
    <2> QED
      BY <1>1, <1>11, <2>1, GotoMoves DEF StartContainer
  <1>12. CASE StartFails(d) \/ Discard(d)
    BY <1>1, <1>12, GotoMoves, FailRolloverMoves DEF StartFails, Discard
  <1>13. CASE HealthPasses(d)
    BY <1>1, <1>13, GotoMoves DEF HealthPasses
  <1>14. CASE HealthTimeout(d)
    BY <1>1, <1>14, FailRolloverMoves DEF HealthTimeout
  <1>15. CASE HealthCancelled(d)
    BY <1>1, <1>15, GotoMoves DEF HealthCancelled
  <1>16. CASE RunConfig(d)
    BY <1>1, <1>16, GotoMoves DEF RunConfig
  <1> QED
    BY <1>2, <1>3, <1>4, <1>5, <1>6, <1>7, <1>8, <1>9, <1>10, <1>11, <1>12,
       <1>13, <1>14, <1>15, <1>16 DEF PipelineStep

\* The container a deploy starts is its own, with the image it asked for.
LEMMA StartRuns ==
    ASSUME Typed, OwnersSound, NEW d \in Deploys, At(d, "start"), Started(d)
    PROVE  LET t == job[d].server IN
           /\ t \in Servers
           /\ \A s \in Servers \ {t} : host'[s] = host[s] /\ ran'[s] = ran[s]
           /\ host'[t].id = host[t].id /\ host'[t].image = host[t].image
           /\ host[t].image = Target(d)
           /\ ran'[t] = ran[t] \cup {Target(d)}
  <1> DEFINE t == job[d].server
             c == [host[t] EXCEPT !.running = TRUE]
  <1>1. /\ host \in [Servers -> Containers] /\ ran \in [Servers -> SUBSET Images]
        /\ job[d] \in Jobs /\ JobSound(job[d])
    BY DEF Typed, TypeOK, PipeTypeOK, JobsSound
  <1>2. t \in Servers /\ host[t].id = OwnId(d)
    BY <1>1 DEF JobSound, Rolling, Started, At, FindByName
  <1>3. host[t].image = Target(d)
    BY <1>1, <1>2 DEF OwnersSound, OwnerSound, OwnId, Target, Jobs
  <1>4. host[t] \in Containers
    BY <1>1, <1>2
  <1>5. c.id = host[t].id /\ c.image = host[t].image
    BY <1>4 DEF Containers
  <1>6. \A s \in Servers : host'[s] = IF s = t THEN c ELSE host[s]
    BY <1>1, <1>2 DEF Started
  <1>7. \A s \in Servers :
          ran'[s] = IF s = t THEN ran[s] \cup {Target(d)} ELSE ran[s]
    BY <1>1, <1>2 DEF Started
  <1> HIDE DEF c
  <1> QED
    BY <1>2, <1>3, <1>5, <1>6, <1>7

\* What a pipeline step can do to the containers.
LEMMA PipelineContainers ==
    ASSUME Typed, OwnersSound, NEW d \in Deploys, PipelineStep(d)
    PROVE  /\ \A s \in Servers : ContainerKept(s)
           /\ RanGrows
  <1> DEFINE t == job[d].server
  <1>1. /\ host \in [Servers -> Containers] /\ ran \in [Servers -> SUBSET Images]
        /\ job[d] \in Jobs /\ JobSound(job[d])
    BY DEF Typed, TypeOK, PipeTypeOK, JobsSound
  <1>2. job[d].pc \in Rolling => t \in Servers /\ job[d].kind = "jar"
    BY <1>1 DEF JobSound, Rolling
  <1>3. ASSUME host' = host
        PROVE  \A s \in Servers : ContainerKept(s)
    BY <1>3 DEF ContainerKept
  <1>4. ASSUME ran' = ran
        PROVE  RanGrows
    BY <1>4 DEF RanGrows
  <1>5. ASSUME NEW id, host' = Removed(t, id), t \in Servers
        PROVE  \A s \in Servers : ContainerKept(s)
    <2>1. \A s \in Servers : host'[s] = host[s] \/ host'[s] = NoContainer
      BY <1>1, <1>5 DEF Removed
    <2> QED
      BY <2>1 DEF ContainerKept
  <1>6. CASE \/ ObtainImage(d) \/ ObtainFails(d) \/ CheckDrift(d)
             \/ EnsureNetwork(d) \/ FindOld(d) \/ RunFind(d) \/ HealthPasses(d)
             \/ HealthTimeout(d) \/ HealthCancelled(d) \/ RunConfig(d)
    <2>1. host' = host /\ ran' = ran
      BY <1>6 DEF ObtainImage, ObtainFails, CheckDrift, EnsureNetwork, FindOld,
           RunFind, HealthPasses, HealthTimeout, HealthCancelled, RunConfig
    <2> QED
      BY <1>3, <1>4, <2>1
  <1>7. CASE StopOld(d)
    <2>1. t \in Servers /\ ran' = ran
      BY <1>2, <1>7 DEF StopOld, At, Rolling
    <2>2. CASE host' = host
      BY <1>3, <1>4, <2>1, <2>2
    <2>3. CASE host' = Stopped(t, job[d].found)
      <3>1. host[t] \in Containers
        BY <1>1, <2>1
      <3>2. host' = [host EXCEPT ![t] =
                       [host[t] EXCEPT !.running = @ /\ host[t].id # job[d].found]]
        BY <2>3 DEF Stopped
      <3> DEFINE c == [host[t] EXCEPT !.running = @ /\ host[t].id # job[d].found]
      <3>3. c.id = host[t].id /\ c.image = host[t].image
            /\ (c.running => host[t].running)
        BY <3>1 DEF Containers
      <3> HIDE DEF c
      <3>4. \A s \in Servers : host'[s] = IF s = t THEN c ELSE host[s]
        BY <1>1, <3>2 DEF c
      <3> QED
        BY <1>4, <2>1, <3>3, <3>4 DEF ContainerKept
    <2> QED
      BY <1>7, <2>2, <2>3 DEF StopOld
  <1>8. CASE RemoveOld(d) \/ RunRemove(d) \/ Discard(d)
    <2>1. t \in Servers /\ ran' = ran
      BY <1>2, <1>8 DEF RemoveOld, RunRemove, Discard, At, Rolling
    <2>2. host' = host \/ \E id : host' = Removed(t, id)
      BY <1>8 DEF RemoveOld, RunRemove, Discard, MayHappen
    <2> QED
      BY <1>3, <1>4, <1>5, <2>1, <2>2
  <1>9. CASE CreateContainer(d)
    <2>1. /\ t \in Servers /\ ran' = ran /\ job[d].pc = "create"
          /\ job[d].kind = "jar"
      BY <1>2, <1>9 DEF CreateContainer, At, Rolling
    <2>2. host' = host \/ host' = WithCreated(t, d)
      BY <1>9 DEF CreateContainer, MayHappen
    <2>3. \A s \in Servers : host'[s] = host[s] \/ CreatedFor(s, d)
      BY <1>1, <2>1, <2>2 DEF CreatedFor, WithCreated
    <2> QED
      BY <1>4, <2>1, <2>3 DEF ContainerKept
  <1>10. CASE StartContainer(d) \/ StartFails(d)
    <2>1. At(d, "start") /\ (Started(d) \/ UNCHANGED <<host, ran>>)
      BY <1>10 DEF StartContainer, StartFails
    <2>2. ASSUME Started(d), NEW s \in Servers
          PROVE  ContainerKept(s) /\ ran[s] \subseteq ran'[s]
      <3>1. CASE s = t
        BY <2>1, <2>2, <3>1, StartRuns DEF ContainerKept
      <3>2. CASE s # t
        BY <2>1, <2>2, <3>2, StartRuns DEF ContainerKept
      <3> QED
        BY <3>1, <3>2
    <2> QED
      BY <1>3, <1>4, <2>1, <2>2 DEF RanGrows
  <1> QED
    BY <1>6, <1>7, <1>8, <1>9, <1>10 DEF PipelineStep

\* Every step but the beginning of a deploy leaves settled orders settled.
LEMMA MovedKeepsOrders ==
    ASSUME NEW d \in Deploys, NEW l, Moved(d, l),
           job[d].pc \notin Early \cup Preflight => l \notin Early \cup Preflight
    PROVE  \A e \in Deploys : OrderKept(e)
  BY DEF Moved, OrderKept

LEMMA NextEvolves == Typed /\ OwnersSound /\ [Next]_vars => Evolves
  <1> SUFFICES ASSUME Typed, OwnersSound, [Next]_vars PROVE Evolves
    OBVIOUS
  <1> USE DEF Evolves
  <1>1. job \in [Deploys -> Jobs]
    BY DEF Typed, TypeOK, PipeTypeOK
  <1>2. ASSUME host' = host, ran' = ran, \A e \in Deploys : OrderKept(e)
        PROVE  Evolves
    BY <1>2 DEF ContainerKept, RanGrows
  <1>3. ASSUME NEW d \in Deploys, Begin(d)
        PROVE  Evolves
    <2>1. /\ job[d].pc = "unborn" /\ host' = host /\ ran' = ran
          /\ \A e \in Deploys \ {d} : job'[e] = job[e]
      BY <1>1, <1>3 DEF Begin, GitConfig, GitDeploy, ManualSync, JenkinsSync,
                        Start, At
    <2>2. \A e \in Deploys : OrderKept(e)
      BY <2>1 DEF OrderKept, Early
    <2> QED
      BY <1>2, <2>1, <2>2
  <1>4. ASSUME NEW d \in Deploys, PipelineStep(d)
        PROVE  Evolves
    <2>1. PICK l \in Preflight \cup Rolling \cup Returned :
            /\ Moved(d, l)
            /\ job[d].pc \notin Preflight => l \notin Preflight
      BY <1>4, PipelineMoves
    <2>2. l \notin Early
      BY DEF Early, Preflight, Rolling, Returned
    <2>3. \A e \in Deploys : OrderKept(e)
      BY <2>1, <2>2, MovedKeepsOrders
    <2> QED
      BY <1>4, <2>3, PipelineContainers
  <1>5. ASSUME NEW d \in Deploys, MarkProgressing(d)
        PROVE  Evolves
    <2>1. /\ host' = host /\ ran' = ran /\ job[d].pc \in Early
          /\ \E l : Goto(d, l)
      BY <1>5 DEF MarkProgressing, ReadRecord, WriteRecord, At, Early
    <2>2. \A e \in Deploys : OrderKept(e)
      BY <1>1, <2>1, GotoMoves, MovedKeepsOrders
    <2> QED
      BY <1>2, <2>1, <2>2
  <1>6. ASSUME NEW d \in Deploys, ReadPrevious(d)
        PROVE  Evolves
    <2>1. /\ host' = host /\ ran' = ran /\ job[d].pc \in Early
          /\ \A e \in Deploys \ {d} : job'[e] = job[e]
      BY <1>1, <1>6 DEF ReadPrevious, At, Early
    <2>2. \A e \in Deploys : OrderKept(e)
      BY <2>1 DEF OrderKept
    <2> QED
      BY <1>2, <2>1, <2>2
  <1>7. ASSUME NEW d \in Deploys, MarkSynced(d) \/ MarkFailed(d)
        PROVE  Evolves
    <2>1. /\ host' = host /\ ran' = ran
          /\ \E l \in Marking \cup Finished : Goto(d, l) /\ l \notin Early
      BY <1>7 DEF MarkSynced, MarkFailed, ReadRecord, WriteRecord, Marking,
                  Finished, Early
    <2>2. PICK l \in Marking \cup Finished : Goto(d, l) /\ l \notin Early
      BY <2>1
    <2>3. l \notin Early \cup Preflight
      BY <2>2 DEF Marking, Finished, Preflight
    <2>4. \A e \in Deploys : OrderKept(e)
      BY <1>1, <2>2, <2>3, GotoMoves, MovedKeepsOrders
    <2> QED
      BY <1>2, <2>1, <2>4
  <1>8. ASSUME job' = job, host' = host, ran' = ran
        PROVE  Evolves
    BY <1>2, <1>8 DEF OrderKept
  <1>9. ASSUME NEW o \in Observers, ObserverStep(o)
        PROVE  Evolves
    BY <1>8, <1>9 DEF ObserverStep, ReconcileBegin, ObserveGet, ObserveRunning,
                      ObservePut, pipeVars
  <1>10. CASE Shutdown
    BY <1>8, <1>10 DEF Shutdown
  <1>11. CASE Restart
    <2>1. ASSUME NEW e \in Deploys
          PROVE  OrderKept(e)
      <3>1. job'[e] = [job[e] EXCEPT !.pc = "lost"] \/ job'[e] = job[e]
        BY <1>11 DEF Restart
      <3>2. job[e] \in Jobs
        BY <1>1
      <3>3. "lost" \notin Early \cup Preflight
        BY DEF Early, Preflight
      <3> QED
        BY <3>1, <3>2, <3>3 DEF OrderKept, Jobs
    <2> QED
      BY <1>2, <1>11, <2>1 DEF Restart
  <1>12. CASE UNCHANGED vars
    BY <1>8, <1>12 DEF vars, pipeVars
  <1> QED
    BY <1>3, <1>4, <1>5, <1>6, <1>7, <1>9, <1>10, <1>11, <1>12
    DEF Next, DeployStep

-----------------------------------------------------------------------------
(* Who owns a container.                                                   *)

LEMMA OwnersInductive == Typed /\ OwnersSound /\ [Next]_vars => OwnersSound'
  <1> SUFFICES ASSUME Typed, OwnersSound, [Next]_vars,
                      NEW s \in Servers, NEW d \in Deploys, host'[s].id.by = d
               PROVE  OwnerSound(s, d)'
    BY DEF OwnersSound
  <1>1. OrderKept(d) /\ ContainerKept(s) /\ \A e \in Deploys : OrderKept(e)
    BY NextEvolves DEF Evolves
  <1>2. CASE host'[s].id = host[s].id /\ host'[s].image = host[s].image
    BY <1>1, <1>2 DEF OwnersSound, OwnerSound, OrderKept
  <1>3. CASE host'[s] = NoContainer
    BY <1>3 DEF NoContainer, NoId
  <1>4. ASSUME NEW e \in Deploys, CreatedFor(s, e)
        PROVE  OwnerSound(s, d)'
    <2>1. /\ host'[s].id = [by |-> e, phase |-> job[e].phase]
          /\ host'[s].image = Target(e)
      BY <1>4 DEF CreatedFor, Created, OwnId
    <2>2. d = e
      BY <2>1
    <2>3. job[d].pc \notin Early \cup Preflight
      BY <1>4, <2>2 DEF CreatedFor, Early, Preflight
    <2>4. job[d].phase \in {"new", "rollback"}
      BY DEF Typed, TypeOK, PipeTypeOK, Jobs
    <2> QED
      BY <1>1, <1>4, <2>1, <2>2, <2>3, <2>4
      DEF CreatedFor, OrderKept, OwnerSound, Target
  <1> QED
    BY <1>1, <1>2, <1>3, <1>4 DEF ContainerKept

-----------------------------------------------------------------------------
(* What has been launched.                                                 *)

Launches == Provenance /\ PendingLaunched
Inv == Typed /\ OwnersSound /\ Launches

\* What was launched stays launched.
LEMMA LaunchedStays ==
    ASSUME RanGrows, NEW s \in Servers, NEW r, RecordLaunched(s, r)
    PROVE  /\ r.cur = NoImage \/ r.cur \in ran'[s]
           /\ r.prev = NoImage \/ r.prev \in ran'[s]
  BY DEF RanGrows, RecordLaunched, Launched

\* Whatever is written to the store names launched images when the copy it was
\* made from did and the image that is added was launched.
LEMMA RecordsStayLaunched ==
    ASSUME NEW s \in Servers, NEW r \in Records, RecordLaunched(s, r),
           NEW i \in MaybeImage, Launched(s, i), NEW seen \in Sightings,
           seen.status # "none",
           seen.status = "running" => seen.image \in ran[s]
    PROVE  /\ RecordLaunched(s, Progressing(r)) /\ RecordLaunched(s, Failed(r))
           /\ RecordLaunched(s, SyncedTo(r, i))
           /\ RecordLaunched(s, Observed(r, seen))
  <1>1. RecordLaunched(s, Progressing(r)) /\ RecordLaunched(s, Failed(r))
    BY DEF Progressing, Failed, Records, RecordLaunched, Launched
  <1>2. RecordLaunched(s, SyncedTo(r, i))
    BY DEF SyncedTo, Records, RecordLaunched, Launched
  <1>3. ASSUME seen.status = "running"
        PROVE  RecordLaunched(s, SeenRunning(r, seen.image))
    BY <1>3 DEF SeenRunning, Records, RecordLaunched, Launched
  <1>4. RecordLaunched(s, Observed(r, seen))
    <2>1. CASE seen.status \in {"error", "missing", "detached"}
      BY <2>1 DEF Observed, Records, RecordLaunched, Launched
    <2>2. CASE seen.status = "running"
      BY <1>3, <2>2 DEF Observed
    <2> QED
      BY <2>1, <2>2 DEF Sightings
  <1> QED
    BY <1>1, <1>2, <1>4

LEMMA EmptyLaunched == \A s \in Servers : RecordLaunched(s, NoRecord)
  BY DEF RecordLaunched, Launched, NoRecord

\* A running container was started with its image.
RunningLaunched ==
    \A s \in Servers : host[s].running => host[s].image \in ran[s]

LEMMA RunningKept ==
    ASSUME Typed, OwnersSound, Launches, [Next]_vars
    PROVE  RunningLaunched'
  <1> SUFFICES ASSUME NEW s \in Servers, host'[s].running
               PROVE  host'[s].image \in ran'[s]
    BY DEF RunningLaunched
  <1>1. ContainerKept(s) /\ ran[s] \subseteq ran'[s]
    BY NextEvolves DEF Evolves, RanGrows
  <1>2. ~NoContainer.running /\ \A d \in Deploys : ~Created(d).running
    BY DEF NoContainer, Created
  <1> QED
    BY <1>1, <1>2 DEF ContainerKept, CreatedFor, Launches, PendingLaunched

\* A step that leaves the records and the orders alone.
LEMMA LaunchesStay ==
    ASSUME Typed, OwnersSound, Launches, [Next]_vars,
           store' = store, disk' = disk, snap' = snap, obs' = obs,
           \A e \in Deploys :
             /\ job[e].pc = "unborn" <=> job'[e].pc = "unborn"
             /\ Active(e)' => Active(e)
             /\ job'[e].server = job[e].server /\ job'[e].kind = job[e].kind
             /\ job'[e].image = job[e].image /\ job'[e].prev = job[e].prev
             /\ job'[e].kind = "jar" /\ job'[e].pc \in {"health", "ok", "putSynced"} =>
                  \/ job[e].pc \in {"health", "ok", "putSynced"}
                  \/ job[e].image \in ran'[job[e].server]
    PROVE  Launches'
  <1>1. RanGrows /\ RunningLaunched'
    BY NextEvolves, RunningKept DEF Evolves
  <1>2. \A e \in Deploys : Active(e) => job[e].server \in Servers
    BY DEF Active, Typed, JobsSound, JobSound
  <1>3. RecordsLaunched'
    BY <1>1 DEF Launches, Provenance, RecordsLaunched, RecordLaunched, Launched,
                RanGrows
  <1>4. RollbackLaunched'
    BY <1>1, <1>2 DEF Launches, Provenance, RollbackLaunched, Launched, RanGrows
  <1>5. ASSUME NEW e \in Deploys
        PROVE  /\ At(e, "unborn")' => snap'[e] = NoRecord
               /\ Active(e)' => RecordLaunched(job[e].server, snap[e])'
               /\ job'[e].kind = "jar" /\ job'[e].pc \in {"health", "ok", "putSynced"} =>
                    job'[e].image \in ran'[job'[e].server]
    <2>1. At(e, "unborn")' => snap'[e] = NoRecord
      BY DEF At, Launches, PendingLaunched
    <2>2. Active(e)' => RecordLaunched(job[e].server, snap[e])'
      BY <1>1, <1>2 DEF Launches, PendingLaunched, RecordLaunched, Launched, RanGrows
    <2>3. job'[e].kind = "jar" /\ job'[e].pc \in {"health", "ok", "putSynced"} =>
            job'[e].image \in ran'[job'[e].server]
      <3>1. CASE job[e].pc \in {"health", "ok", "putSynced"}
        <4>1. job[e].server \in Servers
          BY <3>1 DEF Typed, JobsSound, JobSound
        <4> QED
          BY <1>1, <3>1, <4>1 DEF Launches, PendingLaunched, RanGrows
      <3> QED
        BY <3>1
    <2> QED
      BY <2>1, <2>2, <2>3
  <1>6. ASSUME NEW o \in Observers
        PROVE  /\ obs'[o].pc \in {"observe", "put"} =>
                    RecordLaunched(obs[o].server, obs[o].snap)'
               /\ obs'[o].pc = "put" /\ obs'[o].seen.status = "running" =>
                    obs'[o].seen.image \in ran'[obs'[o].server]
    <2>1. obs[o].pc \in {"observe", "put"} => obs[o].server \in Servers
      BY DEF Typed, ObserversSound, ObserverSound
    <2> QED
      BY <1>1, <2>1 DEF Launches, PendingLaunched, RecordLaunched, Launched, RanGrows
  <1> QED
    BY <1>1, <1>3, <1>4, <1>5, <1>6
    DEF Launches, Provenance, PendingLaunched, RunningLaunched

LEMMA PipelineLaunches ==
    ASSUME Typed, OwnersSound, Launches, [Next]_vars,
           NEW d \in Deploys, PipelineStep(d), UNCHANGED recVars
    PROVE  Launches'
  <1>1. PICK l \in Preflight \cup Rolling \cup Returned :
          /\ Moved(d, l)
          /\ l = "health" => StartContainer(d)
          /\ l = "ok" => job[d].pc \in {"health", "config"}
    BY PipelineMoves
  <1>2. /\ job[d].pc \in {"config"} \cup Preflight \cup Rolling
        /\ job[d].kind = "jar" => job[d].pc # "config"
    BY PipelineMoves DEF Typed, JobsSound, JobSound
  <1>3. Active(d) /\ job[d].pc # "unborn" /\ l \notin {"unborn", "putSynced"}
    BY <1>2 DEF Active, Preflight, Rolling, Returned, Finished
  <1>4. l = "health" => job[d].image \in ran'[job[d].server]
    <2>1. ASSUME l = "health"
          PROVE  At(d, "start") /\ Started(d) /\ job[d].phase = "new"
      <3>1. Goto(d, IF job[d].phase = "new" THEN "health" ELSE "err")
        BY <1>1, <2>1 DEF StartContainer
      <3>2. job'[d].pc = IF job[d].phase = "new" THEN "health" ELSE "err"
        BY <3>1 DEF Goto, Typed, TypeOK, PipeTypeOK, Jobs
      <3> QED
        BY <1>1, <2>1, <3>2 DEF Moved, StartContainer
    <2> QED
      BY <2>1, StartRuns DEF Target
  <1>5. ASSUME NEW e \in Deploys
        PROVE  /\ job[e].pc = "unborn" <=> job'[e].pc = "unborn"
               /\ Active(e)' => Active(e)
               /\ job'[e].server = job[e].server /\ job'[e].kind = job[e].kind
               /\ job'[e].image = job[e].image /\ job'[e].prev = job[e].prev
               /\ job'[e].kind = "jar" /\ job'[e].pc \in {"health", "ok", "putSynced"} =>
                    \/ job[e].pc \in {"health", "ok", "putSynced"}
                    \/ job[e].image \in ran'[job[e].server]
    <2>1. CASE e = d
      BY <1>1, <1>2, <1>3, <1>4, <2>1 DEF Moved
    <2>2. CASE e # d
      BY <1>1, <2>2 DEF Moved, Active
    <2> QED
      BY <2>1, <2>2
  <1>6. store' = store /\ disk' = disk /\ snap' = snap /\ obs' = obs
    BY DEF recVars
  <1> QED
    BY <1>5, <1>6, LaunchesStay

\* Only deploy d moves, containers and what has been launched stay: then only
\* the records and the locals of d are at stake.
LEMMA DeployLaunches ==
    ASSUME Typed, OwnersSound, Launches, [Next]_vars, NEW d \in Deploys,
           ran' = ran, obs' = obs, RecordsLaunched',
           \A e \in Deploys \ {d} : job'[e] = job[e] /\ snap'[e] = snap[e],
           At(d, "unborn")' => snap'[d] = NoRecord,
           Active(d)' => /\ RecordLaunched(job[d].server, snap[d])'
                         /\ Launched(job[d].server, job[d].prev)',
           job'[d].kind = "jar" /\ job'[d].pc \in {"health", "ok", "putSynced"} =>
             job'[d].image \in ran'[job'[d].server]
    PROVE  Launches'
  <1>1. RunningLaunched'
    BY RunningKept
  <1>2. RollbackLaunched'
    BY DEF RollbackLaunched, Launched, Active, Launches, Provenance
  <1>3. ASSUME NEW e \in Deploys
        PROVE  /\ At(e, "unborn")' => snap'[e] = NoRecord
               /\ Active(e)' => RecordLaunched(job[e].server, snap[e])'
               /\ job'[e].kind = "jar" /\ job'[e].pc \in {"health", "ok", "putSynced"} =>
                    job'[e].image \in ran'[job'[e].server]
    BY DEF At, Active, RecordLaunched, Launched, Launches, PendingLaunched
  <1>4. ASSUME NEW o \in Observers
        PROVE  /\ obs'[o].pc \in {"observe", "put"} =>
                    RecordLaunched(obs[o].server, obs[o].snap)'
               /\ obs'[o].pc = "put" /\ obs'[o].seen.status = "running" =>
                    obs'[o].seen.image \in ran'[obs'[o].server]
    BY DEF RecordLaunched, Launched, Launches, PendingLaunched
  <1> QED
    BY <1>1, <1>2, <1>3, <1>4
    DEF Launches, Provenance, PendingLaunched, RunningLaunched

LEMMA RecordsUnchanged ==
    ASSUME Launches, ran' = ran, store' = store, disk' = disk
    PROVE  RecordsLaunched'
  BY DEF Launches, Provenance, RecordsLaunched, RecordLaunched, Launched

LEMMA RecordsUpserted ==
    ASSUME Typed, Launches, ran' = ran, NEW s \in Servers, NEW r \in Records,
           RecordLaunched(s, r), NEW saved, Upsert(s, r, saved)
    PROVE  RecordsLaunched'
  BY DEF Launches, Provenance, RecordsLaunched, RecordLaunched, Launched, Upsert,
         Typed, TypeOK

\* The locals of a deploy that begins.
Fresh(j) == j.pc = "markProgressing" /\ j.prev = NoImage /\ j.server \in Servers

LEMMA FreshJobs ==
    ASSUME NEW s \in Servers, NEW i \in MaybeImage,
           NEW strict \in BOOLEAN, NEW mismatch \in BOOLEAN
    PROVE  /\ NewJob(s, i) \in Jobs /\ Fresh(NewJob(s, i))
           /\ LET j == [NewJob(s, i) EXCEPT !.git = TRUE]
              IN  j \in Jobs /\ Fresh(j)
           /\ LET j == [NewJob(s, i) EXCEPT !.git = TRUE, !.kind = "config"]
              IN  j \in Jobs /\ Fresh(j)
           /\ LET j == [NewJob(s, i) EXCEPT !.prebuilt = TRUE, !.strict = strict,
                                            !.mismatch = mismatch]
              IN  j \in Jobs /\ Fresh(j)
  <1> DEFINE new == NewJob(s, i)
  <1>1. /\ new \in Jobs /\ new.pc = "markProgressing" /\ new.server = s
        /\ new.prev = NoImage
    BY Values DEF NewJob, Unborn, Jobs, Locations, Marking, MaybeImage
  <1> HIDE DEF new
  <1> QED
    BY <1>1 DEF Jobs, Fresh, new

LEMMA BeginLaunches ==
    ASSUME Typed, OwnersSound, Launches, [Next]_vars, NEW d \in Deploys, Begin(d)
    PROVE  Launches'
  <1>1. PICK j \in Jobs : Start(d, j) /\ Fresh(j)
    <2>1. PICK s \in Servers :
            \/ GitConfig(d, s)
            \/ \E i \in Images :
                 \/ GitDeploy(d, s, i)
                 \/ ManualSync(d, s, i)
                 \/ \E strict, mismatch \in BOOLEAN :
                      JenkinsSync(d, s, i, strict, mismatch)
      BY DEF Begin
    <2>2. CASE GitConfig(d, s)
      BY <2>2, FreshJobs DEF GitConfig, MaybeImage
    <2>3. ASSUME NEW i \in Images, GitDeploy(d, s, i)
          PROVE  \E j \in Jobs : Start(d, j) /\ Fresh(j)
      BY <2>3, FreshJobs DEF GitDeploy, MaybeImage
    <2>4. ASSUME NEW i \in Images, ManualSync(d, s, i)
          PROVE  \E j \in Jobs : Start(d, j) /\ Fresh(j)
      BY <2>4, FreshJobs DEF ManualSync, MaybeImage
    <2>5. ASSUME NEW i \in Images, NEW strict \in BOOLEAN, NEW mismatch \in BOOLEAN,
                 JenkinsSync(d, s, i, strict, mismatch)
          PROVE  \E j \in Jobs : Start(d, j) /\ Fresh(j)
      BY <2>5, FreshJobs DEF JenkinsSync, MaybeImage
    <2> QED
      BY <2>1, <2>2, <2>3, <2>4, <2>5
  <1>2. /\ job' = [job EXCEPT ![d] = j] /\ snap[d] = NoRecord
        /\ job'[d] = j /\ \A e \in Deploys \ {d} : job'[e] = job[e]
    BY <1>1 DEF Start, Launches, PendingLaunched, Typed, TypeOK, PipeTypeOK
  <1>3. /\ ran' = ran /\ obs' = obs /\ snap' = snap /\ store' = store /\ disk' = disk
    BY <1>1 DEF Start, recVars
  <1>4. RecordLaunched(job[d].server, snap[d])' /\ Launched(job[d].server, job[d].prev)'
    <2>1. snap'[d] = NoRecord /\ job'[d].prev = NoImage
      BY <1>1, <1>2, <1>3 DEF Fresh
    <2>2. NoRecord.cur = NoImage /\ NoRecord.prev = NoImage
      BY DEF NoRecord
    <2> QED
      BY <2>1, <2>2 DEF RecordLaunched, Launched
  <1> QED
    BY <1>1, <1>2, <1>3, <1>4, RecordsUnchanged, DeployLaunches DEF At, Fresh

\* Reading and writing a record between the steps of the pipeline.
LEMMA ReadLaunches ==
    ASSUME Typed, OwnersSound, Launches, [Next]_vars, NEW d \in Deploys,
           NEW l, ReadRecord(d, l), Active(d), job[d].server \in Servers,
           l # "unborn", l # "health",
           l \in {"ok", "putSynced"} => job[d].pc = "ok"
    PROVE  Launches'
  <1>1. /\ Moved(d, l) /\ ran' = ran /\ obs' = obs
        /\ store' = store /\ disk' = disk
    BY GotoMoves DEF ReadRecord, Typed, TypeOK, PipeTypeOK
  <1>2. \A e \in Deploys \ {d} : job'[e] = job[e] /\ snap'[e] = snap[e]
    BY <1>1 DEF Moved, ReadRecord, Typed, TypeOK
  <1>3. RecordLaunched(job[d].server, snap[d])'
    <2>1. snap'[d] = store[job[d].server]
      BY DEF ReadRecord, Typed, TypeOK
    <2>2. RecordLaunched(job[d].server, store[job[d].server])
      BY DEF Launches, Provenance, RecordsLaunched
    <2> QED
      BY <1>1, <2>1, <2>2 DEF Moved, RecordLaunched, Launched
  <1>4. Launched(job[d].server, job[d].prev)'
    BY <1>1 DEF Moved, Launched, Launches, Provenance, RollbackLaunched
  <1>5. job'[d].kind = "jar" /\ job'[d].pc \in {"health", "ok", "putSynced"} =>
          job'[d].image \in ran'[job'[d].server]
    BY <1>1 DEF Moved, Launches, PendingLaunched
  <1>6. ~At(d, "unborn")'
    BY <1>1 DEF Moved, At
  <1> QED
    BY <1>1, <1>2, <1>3, <1>4, <1>5, <1>6, RecordsUnchanged, DeployLaunches

LEMMA WriteLaunches ==
    ASSUME Typed, OwnersSound, Launches, [Next]_vars, NEW d \in Deploys,
           NEW r \in Records, RecordLaunched(job[d].server, r), NEW saved,
           NEW l, WriteRecord(d, r, saved, l), Active(d),
           job[d].server \in Servers,
           l \notin {"unborn", "health", "ok", "putSynced"}
    PROVE  Launches'
  <1>1. Moved(d, l) /\ ran' = ran /\ obs' = obs
    BY GotoMoves DEF WriteRecord, Typed, TypeOK, PipeTypeOK
  <1>2. RecordsLaunched'
    BY <1>1, RecordsUpserted DEF WriteRecord
  <1>3. /\ \A e \in Deploys \ {d} : job'[e] = job[e] /\ snap'[e] = snap[e]
        /\ snap'[d] = NoRecord
    BY <1>1 DEF Moved, WriteRecord, Typed, TypeOK
  <1>4. RecordLaunched(job[d].server, snap[d])'
    <2>1. NoRecord.cur = NoImage /\ NoRecord.prev = NoImage
      BY DEF NoRecord
    <2> QED
      BY <1>3, <2>1 DEF RecordLaunched, Launched
  <1>5. Launched(job[d].server, job[d].prev)'
    BY <1>1 DEF Moved, Launched, Launches, Provenance, RollbackLaunched
  <1> QED
    BY <1>1, <1>2, <1>3, <1>4, <1>5, DeployLaunches DEF Moved

LEMMA MarkLaunches ==
    ASSUME Typed, OwnersSound, Launches, [Next]_vars, NEW d \in Deploys,
           MarkProgressing(d) \/ MarkSynced(d) \/ MarkFailed(d)
    PROVE  Launches'
  <1> DEFINE s == job[d].server
             i == job[d].image
             seen == Saw("missing", NoImage)
  <1>1. job[d].pc \in {"markProgressing", "putProgressing", "ok", "putSynced",
                       "err", "putFailed"}
    BY DEF MarkProgressing, MarkSynced, MarkFailed, At
  <1>2. /\ Active(d) /\ s \in Servers /\ snap[d] \in Records /\ i \in MaybeImage
        /\ job[d].kind \in {"jar", "config"}
        /\ job[d].kind = "config" => i = NoImage
    BY <1>1 DEF Active, Finished, Typed, TypeOK, PipeTypeOK, JobsSound, JobSound,
                Jobs, MaybeImage
  <1>3. RecordLaunched(s, snap[d])
    BY <1>2 DEF Launches, PendingLaunched
  <1>4. At(d, "putSynced") => Launched(s, i)
    BY <1>2 DEF Launches, PendingLaunched, Launched, At
  <1>5. seen \in Sightings /\ seen.status = "missing"
    BY DEF Saw, Sightings, MaybeImage
  <1>6. /\ Progressing(snap[d]) \in Records /\ Failed(snap[d]) \in Records
        /\ SyncedTo(snap[d], i) \in Records
    BY <1>2, <1>5, RecordTypes
  <1>7. /\ RecordLaunched(s, Progressing(snap[d]))
        /\ RecordLaunched(s, Failed(snap[d]))
    BY <1>2, <1>3, <1>5, RecordsStayLaunched DEF Launched, MaybeImage
  <1>8. At(d, "putSynced") => RecordLaunched(s, SyncedTo(snap[d], i))
    BY <1>2, <1>3, <1>4, <1>5, RecordsStayLaunched
  <1>9. CASE MarkProgressing(d)
    BY <1>2, <1>6, <1>7, <1>9, ReadLaunches, WriteLaunches DEF MarkProgressing
  <1>10. CASE MarkSynced(d)
    BY <1>2, <1>6, <1>8, <1>10, ReadLaunches, WriteLaunches DEF MarkSynced, At
  <1>11. CASE MarkFailed(d)
    BY <1>2, <1>6, <1>7, <1>11, ReadLaunches, WriteLaunches DEF MarkFailed
  <1> QED
    BY <1>9, <1>10, <1>11

LEMMA PreviousLaunches ==
    ASSUME Typed, OwnersSound, Launches, [Next]_vars, NEW d \in Deploys,
           ReadPrevious(d)
    PROVE  Launches'
  <1> DEFINE s == job[d].server
             k == [job[d] EXCEPT !.prev = PreviousImage(d), !.pc = "obtain"]
  <1>1. /\ job[d] \in Jobs /\ job[d].pc = "readPrevious" /\ s \in Servers
        /\ job \in [Deploys -> Jobs]
    BY DEF Typed, TypeOK, PipeTypeOK, JobsSound, JobSound, ReadPrevious, At
  <1>2. k.pc = "obtain" /\ k.server = s /\ k.prev = store[s].cur
    BY <1>1 DEF Jobs, PreviousImage
  <1>3. job' = [job EXCEPT ![d] = k]
    BY DEF ReadPrevious
  <1> HIDE DEF k
  <1>4. job'[d] = k /\ \A e \in Deploys \ {d} : job'[e] = job[e]
    BY <1>1, <1>3
  <1>5. /\ ran' = ran /\ obs' = obs /\ snap' = snap
        /\ store' = store /\ disk' = disk
    BY DEF ReadPrevious, recVars
  <1>6. Active(d)
    BY <1>1 DEF Active, Finished
  <1>7. RecordLaunched(s, snap[d]) /\ RecordLaunched(s, store[s])
    BY <1>1, <1>6 DEF Launches, PendingLaunched, Provenance, RecordsLaunched
  <1>8. RecordLaunched(job[d].server, snap[d])' /\ Launched(job[d].server, job[d].prev)'
    BY <1>2, <1>4, <1>5, <1>7 DEF RecordLaunched, Launched
  <1> QED
    BY <1>2, <1>4, <1>5, <1>8, RecordsUnchanged, DeployLaunches DEF At

\* Only an observer moves.
LEMMA WatchLaunches ==
    ASSUME Typed, OwnersSound, Launches, [Next]_vars, NEW o \in Observers,
           UNCHANGED pipeVars, snap' = snap, RecordsLaunched',
           NEW k \in Observations, obs' = [obs EXCEPT ![o] = k],
           k.pc \in {"observe", "put"} => RecordLaunched(k.server, k.snap),
           k.pc = "put" /\ k.seen.status = "running" =>
             k.seen.image \in ran[k.server]
    PROVE  Launches'
  <1>1. /\ job' = job /\ host' = host /\ ran' = ran
        /\ obs'[o] = k /\ \A p \in Observers \ {o} : obs'[p] = obs[p]
    BY DEF pipeVars, Typed, TypeOK
  <1>2. RunningLaunched'
    BY RunningKept
  <1>3. RollbackLaunched'
    BY <1>1 DEF RollbackLaunched, Launched, Active, Launches, Provenance
  <1>4. ASSUME NEW e \in Deploys
        PROVE  /\ At(e, "unborn")' => snap'[e] = NoRecord
               /\ Active(e)' => RecordLaunched(job[e].server, snap[e])'
               /\ job'[e].kind = "jar" /\ job'[e].pc \in {"health", "ok", "putSynced"} =>
                    job'[e].image \in ran'[job'[e].server]
    BY <1>1 DEF At, Active, RecordLaunched, Launched, Launches, PendingLaunched
  <1>5. ASSUME NEW p \in Observers
        PROVE  /\ obs'[p].pc \in {"observe", "put"} =>
                    RecordLaunched(obs[p].server, obs[p].snap)'
               /\ obs'[p].pc = "put" /\ obs'[p].seen.status = "running" =>
                    obs'[p].seen.image \in ran'[obs'[p].server]
    <2>1. CASE p = o
      BY <1>1, <2>1 DEF RecordLaunched, Launched
    <2>2. CASE p # o
      BY <1>1, <2>2 DEF RecordLaunched, Launched, Launches, PendingLaunched
    <2> QED
      BY <2>1, <2>2
  <1> QED
    BY <1>2, <1>3, <1>4, <1>5
    DEF Launches, Provenance, PendingLaunched, RunningLaunched

LEMMA ObserverLaunches ==
    ASSUME Typed, OwnersSound, Launches, [Next]_vars, NEW o \in Observers,
           ObserverStep(o)
    PROVE  Launches'
  <1>1. /\ obs[o] \in Observations /\ ObserverSound(obs[o])
        /\ UNCHANGED pipeVars /\ snap' = snap /\ ran' = ran
    BY DEF Typed, TypeOK, ObserversSound, ObserverStep, ReconcileBegin,
           ObserveGet, ObserveRunning, ObservePut, pipeVars
  <1>2. CASE ReconcileBegin(o)
    <2> DEFINE k == [obs[o] EXCEPT !.pc = "get", !.todo = Servers]
    <2>1. k \in Observations /\ k.pc = "get"
      BY ONLY <1>1 DEF Observations
    <2>2. obs' = [obs EXCEPT ![o] = k] /\ RecordsLaunched'
      BY <1>1, <1>2, RecordsUnchanged DEF ReconcileBegin
    <2> HIDE DEF k
    <2> QED
      BY <1>1, <2>1, <2>2, WatchLaunches
  <1>3. CASE ObserveGet(o)
    <2>1. PICK s \in obs[o].todo :
            obs' = [obs EXCEPT ![o].pc = "observe", ![o].todo = @ \ {s},
                               ![o].server = s, ![o].snap = store[s]]
      BY <1>3 DEF ObserveGet
    <2> DEFINE k == [obs[o] EXCEPT !.pc = "observe", !.todo = @ \ {s},
                                   !.server = s, !.snap = store[s]]
    <2>2. s \in Servers
      BY <1>1 DEF Observations
    <2>3. store[s] \in Records /\ RecordLaunched(s, store[s])
      BY <2>2 DEF Typed, TypeOK, Launches, Provenance, RecordsLaunched
    <2>4. /\ k \in Observations /\ k.pc = "observe" /\ k.server = s
          /\ k.snap = store[s]
      BY ONLY <1>1, <2>2, <2>3 DEF Observations
    <2>5. obs' = [obs EXCEPT ![o] = k] /\ RecordsLaunched'
      BY <1>1, <1>3, <2>1, RecordsUnchanged DEF ObserveGet
    <2> HIDE DEF k
    <2> QED
      BY <1>1, <2>3, <2>4, <2>5, WatchLaunches
  <1>4. CASE ObserveRunning(o)
    <2>1. PICK seen \in Look(obs[o].server) :
            obs' = [obs EXCEPT ![o].pc = "put", ![o].seen = seen]
      BY <1>4 DEF ObserveRunning
    <2> DEFINE k == [obs[o] EXCEPT !.pc = "put", !.seen = seen]
    <2>2. /\ obs[o].pc = "observe" /\ obs[o].server \in Servers
          /\ RecordLaunched(obs[o].server, obs[o].snap)
      BY <1>1, <1>4 DEF ObserveRunning, ObserverSound, Launches, PendingLaunched
    <2>3. /\ seen \in Sightings
          /\ seen.status = "running" => seen.image \in ran[obs[o].server]
      BY <2>1, <2>2 DEF Look, Saw, Sightings, MaybeImage, Typed, TypeOK, PipeTypeOK,
                        Containers, Launches, PendingLaunched
    <2>4. /\ k \in Observations /\ k.server = obs[o].server
          /\ k.snap = obs[o].snap /\ k.seen = seen
      BY ONLY <1>1, <2>3 DEF Observations
    <2>5. obs' = [obs EXCEPT ![o] = k] /\ RecordsLaunched'
      BY <1>1, <1>4, <2>1, RecordsUnchanged DEF ObserveRunning
    <2> HIDE DEF k
    <2> QED
      BY <1>1, <2>2, <2>3, <2>4, <2>5, WatchLaunches
  <1>5. CASE ObservePut(o)
    <2>1. PICK saved \in Saves :
            /\ Upsert(obs[o].server, Observed(obs[o].snap, obs[o].seen), saved)
            /\ obs' = [obs EXCEPT ![o] = AfterPut(o, saved)]
      BY <1>5 DEF ObservePut
    <2>2. /\ obs[o].pc = "put" /\ obs[o].server \in Servers
          /\ obs[o].snap \in Records /\ obs[o].seen \in Sightings
          /\ obs[o].seen.status # "none" /\ obs[o].todo \in SUBSET Servers
          /\ RecordLaunched(obs[o].server, obs[o].snap)
          /\ obs[o].seen.status = "running" => obs[o].seen.image \in ran[obs[o].server]
      BY <1>1, <1>5 DEF ObservePut, ObserverSound, Observations, Launches,
                        PendingLaunched
    <2>3. NoImage \in MaybeImage /\ Launched(obs[o].server, NoImage)
      BY DEF MaybeImage, Launched
    <2>4. /\ Observed(obs[o].snap, obs[o].seen) \in Records
          /\ RecordLaunched(obs[o].server, Observed(obs[o].snap, obs[o].seen))
      BY <2>2, <2>3, RecordTypes, RecordsStayLaunched
    <2>5. RecordsLaunched'
      BY <1>1, <2>1, <2>2, <2>4, RecordsUpserted
    <2>6. AfterPut(o, saved) \in Observations /\ AfterPut(o, saved).pc \in {"idle", "get"}
      BY <2>2, Values DEF AfterPut, IdleObserver, Observations
    <2> QED
      BY <1>1, <2>1, <2>5, <2>6, WatchLaunches
  <1> QED
    BY <1>2, <1>3, <1>4, <1>5 DEF ObserverStep

LEMMA RestartLaunches ==
    ASSUME Typed, OwnersSound, Launches, [Next]_vars, Restart
    PROVE  Launches'
  <1>1. /\ ran' = ran /\ disk' = disk /\ store' = disk
        /\ \A e \in Deploys : snap'[e] = NoRecord
        /\ \A o \in Observers : obs'[o].pc = "idle"
    BY DEF Restart, IdleObserver
  <1>2. ASSUME NEW e \in Deploys
        PROVE  /\ ~Active(e)'
               /\ job'[e].pc \notin {"health", "ok", "putSynced"}
    <2>1. job[e] \in Jobs
      BY DEF Typed, TypeOK, PipeTypeOK
    <2>2. job'[e] = IF Active(e) THEN [job[e] EXCEPT !.pc = "lost"] ELSE job[e]
      BY DEF Restart
    <2>3. CASE Active(e)
      <3>1. job'[e].pc = "lost"
        BY <2>1, <2>2, <2>3 DEF Jobs
      <3> QED
        BY <3>1 DEF Active, Finished
    <2>4. CASE ~Active(e)
      BY <2>2, <2>4 DEF Active, Finished
    <2> QED
      BY <2>3, <2>4
  <1>3. RecordsLaunched'
    BY <1>1 DEF Launches, Provenance, RecordsLaunched, RecordLaunched, Launched
  <1>4. RollbackLaunched'
    BY <1>2 DEF RollbackLaunched
  <1>5. RunningLaunched'
    BY RunningKept
  <1> QED
    BY <1>1, <1>2, <1>3, <1>4, <1>5
    DEF Launches, Provenance, PendingLaunched, RunningLaunched

LEMMA LaunchesInductive ==
    Typed /\ OwnersSound /\ Launches /\ [Next]_vars => Launches'
  <1> SUFFICES ASSUME Typed, OwnersSound, Launches, [Next]_vars PROVE Launches'
    OBVIOUS
  <1>1. ASSUME store' = store, disk' = disk, snap' = snap, obs' = obs, job' = job
        PROVE  Launches'
    BY <1>1, LaunchesStay DEF Active
  <1>2. CASE Shutdown
    BY <1>1, <1>2 DEF Shutdown, recVars
  <1>3. CASE UNCHANGED vars
    BY <1>1, <1>3 DEF vars, pipeVars, recVars
  <1>4. ASSUME NEW d \in Deploys, DeployStep(d)
        PROVE  Launches'
    BY <1>4, PipelineLaunches, MarkLaunches, PreviousLaunches DEF DeployStep
  <1> QED
    BY <1>2, <1>3, <1>4, BeginLaunches, ObserverLaunches, RestartLaunches DEF Next

LEMMA InvInitially == Init => Inv
  <1> SUFFICES ASSUME Init PROVE Inv
    OBVIOUS
  <1>1. Typed
    BY TypedInitially
  <1>2. \A d \in Deploys : job[d] = Unborn /\ snap[d] = NoRecord /\ ~Active(d)
    BY DEF Init, PipeInit, Active, Unborn
  <1>3. ASSUME NEW s \in Servers
        PROVE  /\ host[s].id.by = NoDeploy
               /\ ran[s] = {host[s].image} \ {NoImage}
               /\ host[s].running => host[s].image \in Images
    BY DEF Init, PipeInit, NoContainer, NoId, Original, OriginalId
  <1>4. OwnersSound
    BY <1>3 DEF OwnersSound
  <1>5. ASSUME NEW s \in Servers
        PROVE  RecordLaunched(s, store[s]) /\ disk[s] = store[s]
    <2>1. store[s].prev = NoImage /\ disk[s] = store[s]
      <3>1. NoRecord.prev = NoImage /\ \A i \in Images : Settled(i).prev = NoImage
        BY DEF NoRecord, Settled
      <3>2. store[s] \in {NoRecord} \cup {Settled(i) : i \in Images}
        BY DEF Init
      <3>3. disk[s] = store[s]
        BY DEF Init
      <3> QED
        BY <3>1, <3>2, <3>3
    <2>2. store[s].cur = NoImage \/ store[s].cur = host[s].image
      BY DEF Init
    <2> QED
      BY <1>3, <2>1, <2>2 DEF RecordLaunched, Launched
  <1>6. Provenance
    BY <1>2, <1>5 DEF Provenance, RecordsLaunched, RollbackLaunched
  <1>7. PendingLaunched
    BY <1>2, <1>3 DEF PendingLaunched, Unborn, Init, IdleObserver
  <1> QED
    BY <1>1, <1>4, <1>6, <1>7 DEF Inv, Launches

\* Provenance always holds: the current and previous image of a record, and the
\* image an unfinished deploy would roll back to, were all launched for that
\* very server, in whatever order deploys, observers, Docker errors, failed
\* saves, shutdowns and restarts come.
THEOREM ProvenanceAlways == Spec => []Provenance
  <1>1. Inv /\ [Next]_vars => Inv'
    BY TypedInductive, OwnersInductive, LaunchesInductive DEF Inv
  <1>2. Inv => Provenance
    BY DEF Inv, Launches
  <1> QED
    BY <1>1, <1>2, InvInitially, PTL DEF Spec
=============================================================================
