-------------------------- MODULE ReconcilerProofs --------------------------
(***************************************************************************)
(* Theorems about Reconciler for every set of servers, images, deploys and *)
(* observers, every choice of triggers and faults and any number of        *)
(* restarts: types, with the shape of a deploy's locals (Typed), and the   *)
(* rollback pair.  ProvenanceProofs, EngineProofs, WatcherProofs and       *)
(* RolloutProofs build on them.                                            *)
(***************************************************************************)
EXTENDS Reconciler, TLAPS

Typed == TypeOK /\ JobsSound /\ ObserversSound

USE NoneAssumption, PortAssumption, TagAssumption, RestartAssumption

\* What the operators of the model return has the type it should have.
LEMMA Values ==
    /\ NoId \in Ids /\ OriginalId \in Ids
    /\ NoContainer \in Containers
    /\ Unborn \in Jobs
    /\ NoRecord \in Records
    /\ IdleObserver \in Observations
  BY DEF NoId, OriginalId, Ids, NoContainer, Containers, Builds, Unborn, Jobs,
         Locations, NoRecord, Records, Syncs, Healths, MaybeImage,
         IdleObserver, Observations, Sightings, Saw

LEMMA JobReplaced ==
    ASSUME job \in [Deploys -> Jobs], JobsSound,
           NEW d \in Deploys, NEW j \in Jobs, JobSound(j),
           job' = [job EXCEPT ![d] = j]
    PROVE  job' \in [Deploys -> Jobs] /\ JobsSound'
  BY DEF JobsSound

\* Moving the program counter keeps a deploy sound if it goes somewhere its
\* locals allow.
LEMMA JobMoved ==
    ASSUME NEW j \in Jobs, JobSound(j), j.pc # "unborn",
           NEW l \in Locations \ (Early \cup {"config"}),
           l \in Preflight \cup Rolling => j.kind = "jar",
           l \in Preflight \cup {"health"} => j.phase = "new"
    PROVE  /\ [j EXCEPT !.pc = l] \in Jobs
           /\ JobSound([j EXCEPT !.pc = l])
  <1> DEFINE k == [j EXCEPT !.pc = l]
  <1>1. k \in Jobs
    BY DEF Jobs
  <1>2. /\ k.pc = l /\ k.server = j.server /\ k.kind = j.kind
        /\ k.image = j.image /\ k.phase = j.phase /\ k.prev = j.prev
    BY DEF Jobs
  <1>3. l # "unborn" /\ l # "readPrevious" /\ l # "config"
    BY DEF Early
  <1> HIDE DEF k
  <1>4. JobSound(k)
    BY <1>2, <1>3 DEF JobSound
  <1> QED
    BY <1>1, <1>4 DEF k

\* The same for a step that notes the container it found.
LEMMA JobFound ==
    ASSUME NEW j \in Jobs, JobSound(j), j.kind = "jar", j.pc # "unborn",
           NEW id \in Ids, NEW l \in Rolling \ {"health"}
    PROVE  /\ [j EXCEPT !.found = id, !.pc = l] \in Jobs
           /\ JobSound([j EXCEPT !.found = id, !.pc = l])
  <1> DEFINE k == [j EXCEPT !.found = id, !.pc = l]
  <1>1. /\ l \in Locations
        /\ l \notin Early \cup Preflight
                      \cup {"health", "readPrevious", "unborn", "config"}
    BY DEF Rolling, Locations, Early, Preflight
  <1>2. k \in Jobs
    BY <1>1 DEF Jobs
  <1>3. /\ k.pc = l /\ k.server = j.server /\ k.kind = j.kind
        /\ k.image = j.image /\ k.phase = j.phase /\ k.prev = j.prev
    BY DEF Jobs
  <1> HIDE DEF k
  <1>4. JobSound(k)
    BY <1>1, <1>3 DEF JobSound
  <1> QED
    BY <1>2, <1>4 DEF k

LEMMA GotoTypes ==
    ASSUME job \in [Deploys -> Jobs], JobsSound, NEW d \in Deploys,
           NEW l \in Locations \ (Early \cup {"config"}), Goto(d, l),
           job[d].pc # "unborn",
           l \in Preflight \cup Rolling => job[d].kind = "jar",
           l \in Preflight \cup {"health"} => job[d].phase = "new"
    PROVE  job' \in [Deploys -> Jobs] /\ JobsSound'
  <1>1. job[d] \in Jobs /\ JobSound(job[d])
    BY DEF JobsSound
  <1>2. job' = [job EXCEPT ![d] = [job[d] EXCEPT !.pc = l]]
    BY DEF Goto
  <1>3. [job[d] EXCEPT !.pc = l] \in Jobs /\ JobSound([job[d] EXCEPT !.pc = l])
    BY <1>1, JobMoved
  <1> QED
    BY <1>2, <1>3, JobReplaced

LEMMA FoundThenTypes ==
    ASSUME job \in [Deploys -> Jobs], JobsSound, NEW d \in Deploys,
           NEW l \in Rolling \ {"health"}, NEW id \in Ids, FoundThen(d, id, l),
           job[d].kind = "jar", job[d].pc # "unborn"
    PROVE  job' \in [Deploys -> Jobs] /\ JobsSound'
  <1> DEFINE k == [job[d] EXCEPT !.found = id, !.pc = l]
  <1>1. job[d] \in Jobs /\ JobSound(job[d])
    BY DEF JobsSound
  <1>2. job' = [job EXCEPT ![d] = k]
    BY DEF FoundThen
  <1>3. k \in Jobs /\ JobSound(k)
    BY <1>1, JobFound
  <1> QED
    BY <1>2, <1>3, JobReplaced

\* Giving up on a rollover moves to the rollback or to its end.
LEMMA RolloverFailed ==
    ASSUME job \in [Deploys -> Jobs], JobsSound, NEW d \in Deploys,
           job[d].pc \in Rolling, FailRollover(d)
    PROVE  job' \in [Deploys -> Jobs] /\ JobsSound'
  <1> DEFINE j == job[d]
             k == [j EXCEPT !.pc = IF RollsBack(d) THEN "find" ELSE "err",
                            !.phase = IF RollsBack(d) THEN "rollback" ELSE @,
                            !.found = NoId]
  <1>1. j \in Jobs /\ JobSound(j) /\ j.kind = "jar" /\ j.pc # "unborn"
    BY DEF JobsSound, JobSound, Rolling
  <1>2. k \in Jobs
    <2>1. CASE RollsBack(d)
      BY <1>1, <2>1, Values DEF Jobs, Locations, Rolling
    <2>2. CASE ~RollsBack(d)
      BY <1>1, <2>2, Values DEF Jobs, Locations, Returned
    <2> QED
      BY <2>1, <2>2
  <1>3. /\ k.pc = IF RollsBack(d) THEN "find" ELSE "err"
        /\ k.phase = IF RollsBack(d) THEN "rollback" ELSE j.phase
        /\ k.server = j.server /\ k.kind = j.kind
        /\ k.image = j.image /\ k.prev = j.prev
    BY <1>1 DEF Jobs
  <1>4. job' = [job EXCEPT ![d] = k]
    BY DEF FailRollover
  <1> HIDE DEF k
  <1>5. JobSound(k)
    BY <1>1, <1>3
    DEF JobSound, RollsBack, Early, Preflight, Rolling
  <1> QED
    BY <1>1, <1>2, <1>4, <1>5, JobReplaced

LEMMA HostTypes ==
    ASSUME host \in [Servers -> Containers], NEW t \in Servers, NEW id \in Ids
    PROVE  /\ FindByName(t) \in Ids
           /\ Stopped(t, id) \in [Servers -> Containers]
           /\ Removed(t, id) \in [Servers -> Containers]
  <1>1. host[t] \in Containers
    OBVIOUS
  <1>2. FindByName(t) \in Ids
    BY <1>1 DEF FindByName, Containers
  <1>3. [host[t] EXCEPT !.running = @ /\ host[t].id # id] \in Containers
    BY <1>1 DEF Containers
  <1>4. Stopped(t, id)
          = [host EXCEPT ![t] = [host[t] EXCEPT !.running = @ /\ host[t].id # id]]
    BY DEF Stopped
  <1>5. Removed(t, id) \in [Servers -> Containers]
    BY Values DEF Removed
  <1> QED
    BY <1>2, <1>3, <1>4, <1>5

LEMMA PipelineTypes ==
    ASSUME Typed, NEW d \in Deploys, PipelineStep(d)
    PROVE  PipeTypeOK' /\ JobsSound'
  <1> USE DEF Typed, TypeOK, PipeTypeOK
  <1> DEFINE j == job[d]
             s == j.server
  <1>1. j \in Jobs /\ JobSound(j)
    BY DEF JobsSound
  <1>2. ASSUME NEW l \in Locations \ (Early \cup {"config"}), Goto(d, l),
               j.pc # "unborn", l \in Preflight \cup Rolling => j.kind = "jar",
               l \in Preflight \cup {"health"} => j.phase = "new"
        PROVE  job' \in [Deploys -> Jobs] /\ JobsSound'
    BY <1>2, GotoTypes
  <1>3. ASSUME NEW l \in Rolling \ {"health"}, NEW id \in Ids,
               FoundThen(d, id, l), j.kind = "jar", j.pc # "unborn"
        PROVE  job' \in [Deploys -> Jobs] /\ JobsSound'
    BY <1>3, FoundThenTypes
  <1>4. /\ j.pc \in Preflight \cup Rolling => j.kind = "jar" /\ s \in Servers /\ j.image \in Images
        /\ j.pc \in Preflight \cup {"health"} => j.phase = "new"
    BY <1>1 DEF JobSound, Preflight, Rolling
  <1>5. CASE ObtainImage(d)
    <2>1. content' \in [Images -> Builds]
      BY <1>5, <1>4 DEF ObtainImage, ObtainedContent, Builds, At
    <2>2. job' \in [Deploys -> Jobs] /\ JobsSound'
      BY <1>2, <1>4, <1>5 DEF ObtainImage, At, Preflight, Locations, Early, Rolling
    <2> QED
      BY <2>1, <2>2, <1>5 DEF ObtainImage
  <1>6. CASE ObtainFails(d)
    <2>1. content' \in [Images -> Builds]
      BY <1>6, <1>4 DEF ObtainFails, ObtainedContent, Builds, At
    <2>2. job' \in [Deploys -> Jobs] /\ JobsSound'
      BY <1>2, <1>4, <1>6 DEF ObtainFails, At, Preflight, Locations, Early, Rolling, Returned
    <2> QED
      BY <2>1, <2>2, <1>6 DEF ObtainFails
  <1>7. CASE CheckDrift(d)
    <2>1. Goto(d, "err") \/ Goto(d, "network")
      BY <1>7 DEF CheckDrift
    <2>2. job' \in [Deploys -> Jobs] /\ JobsSound'
      BY <1>2, <1>4, <1>7, <2>1 DEF CheckDrift, At, Preflight, Locations, Early, Rolling, Returned
    <2> QED
      BY <2>2, <1>7 DEF CheckDrift
  <1>8. CASE EnsureNetwork(d)
    <2>2. job' \in [Deploys -> Jobs] /\ JobsSound'
      BY <1>2, <1>4, <1>8 DEF EnsureNetwork, At, Preflight, Locations, Early, Rolling, Returned
    <2> QED
      BY <2>2, <1>8 DEF EnsureNetwork
  <1>9. CASE FindOld(d)
    <2>1. FindByName(s) \in Ids
      BY <1>4, <1>9, HostTypes, Values DEF FindOld, At, Rolling
    <2>2. \E id \in Ids, l \in {"stop", "runFind"} : FoundThen(d, id, l)
      BY <1>9, <2>1, Values DEF FindOld
    <2>3. job' \in [Deploys -> Jobs] /\ JobsSound'
      BY <1>3, <1>4, <1>9, <2>2 DEF FindOld, At, Rolling
    <2> QED
      BY <2>3, <1>9 DEF FindOld
  <1>10. CASE StopOld(d)
    <2>1. s \in Servers /\ j.found \in Ids
      BY <1>1, <1>4, <1>10 DEF StopOld, At, Rolling, Jobs
    <2>2. host' \in [Servers -> Containers]
      BY <1>10, <2>1, HostTypes, Values DEF StopOld
    <2>3. job' \in [Deploys -> Jobs] /\ JobsSound'
      BY <1>2, <1>4, <1>10 DEF StopOld, At, Preflight, Locations, Early, Rolling
    <2> QED
      BY <2>2, <2>3, <1>10 DEF StopOld
  <1>11. CASE RemoveOld(d)
    <2>1. s \in Servers /\ j.found \in Ids
      BY <1>1, <1>4, <1>11 DEF RemoveOld, At, Rolling, Jobs
    <2>2. host' \in [Servers -> Containers]
      BY <1>11, <2>1, HostTypes, Values DEF RemoveOld
    <2>3. job' \in [Deploys -> Jobs] /\ JobsSound'
      BY <1>3, <1>4, <1>11, Values DEF RemoveOld, At, Rolling
    <2> QED
      BY <2>2, <2>3, <1>11 DEF RemoveOld
  <1>12. CASE RunFind(d)
    <2>1. FindByName(s) \in Ids
      BY <1>4, <1>12, HostTypes, Values DEF RunFind, At, Rolling
    <2>2. \/ \E id \in Ids, l \in {"create", "runRemove"} : FoundThen(d, id, l)
          \/ FailRollover(d)
      BY <1>12, <2>1, Values DEF RunFind
    <2>3. job' \in [Deploys -> Jobs] /\ JobsSound'
      BY <1>3, <1>4, <1>12, <2>2, RolloverFailed DEF RunFind, At, Rolling
    <2> QED
      BY <2>3, <1>12 DEF RunFind
  <1>13. CASE RunRemove(d)
    <2>1. s \in Servers /\ j.found \in Ids
      BY <1>1, <1>4, <1>13 DEF RunRemove, At, Rolling, Jobs
    <2>2. host' \in [Servers -> Containers]
      BY <1>13, <2>1, HostTypes, Values DEF RunRemove, MayHappen
    <2>3. job' \in [Deploys -> Jobs] /\ JobsSound'
      BY <1>3, <1>4, <1>13, Values, RolloverFailed DEF RunRemove, At, Rolling
    <2> QED
      BY <2>2, <2>3, <1>13 DEF RunRemove
  <1>14. ASSUME j.pc \in Rolling
         PROVE  /\ OwnId(d) \in Ids
                /\ Target(d) \in Images
    BY <1>1, <1>4, <1>14 DEF JobSound, OwnId, Target, Ids, Jobs
  <1>15. CASE CreateContainer(d)
    <2>1. s \in Servers /\ j.pc \in Rolling /\ j.kind = "jar" /\ j.pc # "unborn"
      BY <1>4, <1>15 DEF CreateContainer, At, Rolling
    <2>2. Created(d) \in Containers
      BY <1>14, <2>1 DEF Created, Containers
    <2>3. host' \in [Servers -> Containers]
      <3>1. host' = host \/ host' = WithCreated(s, d)
        BY <1>15 DEF CreateContainer, MayHappen
      <3> QED
        BY <2>1, <2>2, <3>1 DEF WithCreated
    <2>4. job' \in [Deploys -> Jobs] /\ JobsSound'
      BY <1>2, <1>15, <2>1, RolloverFailed
      DEF CreateContainer, Preflight, Locations, Early, Rolling
    <2> QED
      BY <2>3, <2>4, <1>15 DEF CreateContainer
  <1>16. ASSUME j.pc = "start", Started(d)
         PROVE  /\ host' \in [Servers -> Containers]
                /\ ran' \in [Servers -> SUBSET Images]
    <2>1. s \in Servers /\ j.pc \in Rolling
      BY <1>4, <1>16 DEF Rolling
    <2>2. host' = [host EXCEPT ![s] = [host[s] EXCEPT !.running = TRUE]]
      BY <1>16 DEF Started
    <2>3. host' \in [Servers -> Containers]
      <3>1. host[s] \in Containers
        BY <2>1
      <3>2. [host[s] EXCEPT !.running = TRUE] \in Containers
        BY ONLY <3>1 DEF Containers
      <3> QED
        BY <2>1, <2>2, <3>2
    <2>4. ran' \in [Servers -> SUBSET Images]
      BY <1>14, <1>16, <2>1 DEF Started
    <2> QED
      BY <2>3, <2>4
  <1>17. CASE StartContainer(d)
    <2>1. j.pc = "start" /\ j.kind = "jar"
      BY <1>4, <1>17 DEF StartContainer, At, Rolling
    <2>2. job' \in [Deploys -> Jobs] /\ JobsSound'
      BY <1>1, <1>2, <1>17, <2>1
      DEF StartContainer, Preflight, Locations, Early, Rolling, Returned, Jobs
    <2> QED
      BY <1>16, <1>17, <2>1, <2>2 DEF StartContainer
  <1>18. CASE StartFails(d)
    <2>1. j.pc = "start" /\ j.kind = "jar"
      BY <1>4, <1>18 DEF StartFails, At, Rolling
    <2>2. job' \in [Deploys -> Jobs] /\ JobsSound'
      BY <1>2, <1>18, <2>1
      DEF StartFails, Preflight, Locations, Early, Rolling
    <2> QED
      BY <1>16, <1>18, <2>1, <2>2 DEF StartFails
  <1>19. CASE Discard(d)
    <2>1. s \in Servers /\ j.pc \in Rolling
      BY <1>4, <1>19 DEF Discard, At, Rolling
    <2>2. host' \in [Servers -> Containers]
      BY <1>14, <1>19, <2>1, HostTypes DEF Discard
    <2>3. job' \in [Deploys -> Jobs] /\ JobsSound'
      BY <1>19, <2>1, RolloverFailed DEF Discard
    <2> QED
      BY <2>2, <2>3, <1>19 DEF Discard
  <1>20. CASE HealthPasses(d)
    <2>1. s \in Servers /\ j.pc # "unborn"
      BY <1>4, <1>20 DEF HealthPasses, At, Rolling
    <2>2. host[s].image \in Images \cup {NoImage} /\ host[s].build \in Builds
      BY <2>1 DEF Containers
    <2>3. healthy' \in [Servers -> SUBSET ((Images \cup {NoImage}) \X Builds)]
      BY <1>20, <2>1, <2>2 DEF HealthPasses
    <2>4. job' \in [Deploys -> Jobs] /\ JobsSound'
      BY <1>2, <1>20, <2>1
      DEF HealthPasses, Preflight, Locations, Early, Rolling, Returned
    <2> QED
      BY <2>3, <2>4, <1>20 DEF HealthPasses
  <1>21. CASE HealthTimeout(d)
    <2>1. job' \in [Deploys -> Jobs] /\ JobsSound'
      BY <1>21, RolloverFailed DEF HealthTimeout, At, Rolling
    <2> QED
      BY <2>1, <1>21 DEF HealthTimeout
  <1>22. CASE HealthCancelled(d)
    <2>1. job' \in [Deploys -> Jobs] /\ JobsSound'
      BY <1>2, <1>22
      DEF HealthCancelled, At, Preflight, Locations, Early, Rolling, Returned
    <2> QED
      BY <2>1, <1>22 DEF HealthCancelled
  <1>23. CASE RunConfig(d)
    <2>1. job' \in [Deploys -> Jobs] /\ JobsSound'
      BY <1>2, <1>23
      DEF RunConfig, At, Preflight, Locations, Early, Rolling, Returned
    <2> QED
      BY <2>1, <1>23 DEF RunConfig
  <1> QED
    BY <1>5, <1>6, <1>7, <1>8, <1>9, <1>10, <1>11, <1>12, <1>13, <1>15, <1>16,
       <1>17, <1>18, <1>19, <1>20, <1>21, <1>22, <1>23 DEF PipelineStep

\* Start gives an unborn deploy sound locals.
LEMMA StartTypes ==
    ASSUME Typed, NEW d \in Deploys, NEW j \in Jobs, JobSound(j), Start(d, j)
    PROVE  Typed'
  <1>1. job' \in [Deploys -> Jobs] /\ JobsSound'
    BY JobReplaced DEF Start, Typed, TypeOK, PipeTypeOK
  <1> QED
    BY <1>1 DEF Start, recVars, Typed, TypeOK, PipeTypeOK,
                 ObserversSound

LEMMA NewJobSound ==
    ASSUME NEW s \in Servers, NEW i \in Images,
           NEW strict \in BOOLEAN, NEW mismatch \in BOOLEAN
    PROVE  /\ NewJob(s, i) \in Jobs /\ JobSound(NewJob(s, i))
           /\ LET j == [NewJob(s, i) EXCEPT !.git = TRUE]
              IN  j \in Jobs /\ JobSound(j)
           /\ LET j == [NewJob(s, i) EXCEPT !.prebuilt = TRUE, !.strict = strict,
                                            !.mismatch = mismatch]
              IN  j \in Jobs /\ JobSound(j)
  <1> DEFINE new == NewJob(s, i)
             git == [new EXCEPT !.git = TRUE]
             jenkins == [new EXCEPT !.prebuilt = TRUE, !.strict = strict,
                                    !.mismatch = mismatch]
  <1>1. /\ new \in Jobs /\ new.pc = "markProgressing" /\ new.kind = "jar"
        /\ new.server = s /\ new.image = i /\ new.phase = "new"
        /\ new.prev = NoImage
    BY Values DEF NewJob, Unborn, Jobs, Locations, Marking
  <1> HIDE DEF new
  <1>2. git \in Jobs /\ jenkins \in Jobs
    BY <1>1 DEF Jobs
  <1>3. /\ git.pc = new.pc /\ git.kind = new.kind /\ git.server = new.server
        /\ git.image = new.image /\ git.phase = new.phase /\ git.prev = new.prev
    BY <1>1 DEF Jobs
  <1>4. /\ jenkins.pc = new.pc /\ jenkins.kind = new.kind
        /\ jenkins.server = new.server /\ jenkins.image = new.image
        /\ jenkins.phase = new.phase /\ jenkins.prev = new.prev
    BY <1>1 DEF Jobs
  <1> HIDE DEF git, jenkins
  <1>5. "markProgressing" \notin Preflight \cup Rolling \cup {"readPrevious"}
    BY DEF Preflight, Rolling
  <1>6. JobSound(new) /\ JobSound(git) /\ JobSound(jenkins)
    BY <1>1, <1>3, <1>4, <1>5 DEF JobSound
  <1> QED
    BY <1>1, <1>2, <1>6 DEF new, git, jenkins

LEMMA NewConfigSound ==
    ASSUME NEW s \in Servers
    PROVE  LET j == [NewJob(s, NoImage) EXCEPT !.git = TRUE, !.kind = "config"]
           IN  j \in Jobs /\ JobSound(j)
  <1> DEFINE j == [NewJob(s, NoImage) EXCEPT !.git = TRUE, !.kind = "config"]
  <1>1. /\ j \in Jobs /\ j.pc = "markProgressing" /\ j.kind = "config"
        /\ j.server = s /\ j.image = NoImage /\ j.phase = "new"
        /\ j.prev = NoImage
    BY Values DEF NewJob, Unborn, Jobs, Locations, Marking
  <1> HIDE DEF j
  <1>2. "markProgressing" \notin Preflight \cup Rolling \cup {"readPrevious"}
    BY DEF Preflight, Rolling
  <1>3. JobSound(j)
    BY <1>1, <1>2 DEF JobSound
  <1> QED
    BY <1>1, <1>3 DEF j

LEMMA BeginTypes ==
    ASSUME Typed, NEW d \in Deploys, Begin(d)
    PROVE  Typed'
  <1>1. PICK s \in Servers :
          \/ GitConfig(d, s)
          \/ \E i \in Images :
               \/ GitDeploy(d, s, i)
               \/ ManualSync(d, s, i)
               \/ \E strict, mismatch \in BOOLEAN :
                    JenkinsSync(d, s, i, strict, mismatch)
    BY DEF Begin
  <1>2. CASE GitConfig(d, s)
    BY <1>2, NewConfigSound, StartTypes DEF GitConfig
  <1>3. ASSUME NEW i \in Images, GitDeploy(d, s, i)
        PROVE  Typed'
    BY <1>3, NewJobSound, StartTypes DEF GitDeploy
  <1>4. ASSUME NEW i \in Images, ManualSync(d, s, i)
        PROVE  Typed'
    BY <1>4, NewJobSound, StartTypes DEF ManualSync
  <1>5. ASSUME NEW i \in Images, NEW strict \in BOOLEAN, NEW mismatch \in BOOLEAN,
               JenkinsSync(d, s, i, strict, mismatch)
        PROVE  Typed'
    BY <1>5, NewJobSound, StartTypes DEF JenkinsSync
  <1> QED
    BY <1>1, <1>2, <1>3, <1>4, <1>5

\* What is written to the store is a record.
LEMMA RecordTypes ==
    ASSUME NEW r \in Records, NEW i \in MaybeImage, NEW seen \in Sightings
    PROVE  /\ Progressing(r) \in Records
           /\ Failed(r) \in Records
           /\ SyncedTo(r, i) \in Records
           /\ Observed(r, seen) \in Records
  <1>1. Progressing(r) \in Records /\ Failed(r) \in Records
    BY DEF Progressing, Failed, Records, Syncs, Healths
  <1>2. SyncedTo(r, i) \in Records
    BY DEF SyncedTo, Records, Syncs, Healths
  <1>3. SeenRunning(r, seen.image) \in Records
    BY DEF SeenRunning, Records, Syncs, Healths, Sightings
  <1>4. Observed(r, seen) \in Records
    <2>1. CASE seen.status = "error"
      BY <2>1 DEF Observed, Records, Syncs, Healths
    <2>2. CASE seen.status = "missing"
      BY <2>2 DEF Observed, Records, Syncs, Healths
    <2>3. CASE seen.status = "detached"
      BY <2>3 DEF Observed, Records, Syncs, Healths
    <2>4. CASE seen.status \notin {"error", "missing", "detached"}
      BY <1>3, <2>4 DEF Observed
    <2> QED
      BY <2>1, <2>2, <2>3, <2>4
  <1> QED
    BY <1>1, <1>2, <1>4

\* Before a rollover nothing but the program counter and, at the end, the
\* rollback target moves.
LEMMA EarlyMoved ==
    ASSUME job \in [Deploys -> Jobs], JobsSound, NEW d \in Deploys,
           job[d].pc \in Early \ {"unborn"},
           NEW l \in {"putProgressing", "readPrevious", "config"}, Goto(d, l),
           l = "readPrevious" => job[d].kind = "jar",
           l = "config" => job[d].kind = "config"
    PROVE  job' \in [Deploys -> Jobs] /\ JobsSound'
  <1> DEFINE j == job[d]
             k == [j EXCEPT !.pc = l]
  <1>1. j \in Jobs /\ JobSound(j)
    BY DEF JobsSound
  <1>2. job' = [job EXCEPT ![d] = k]
    BY DEF Goto
  <1>3. k \in Jobs
    BY <1>1 DEF Jobs, Locations, Marking
  <1>4. /\ k.pc = l /\ k.server = j.server /\ k.kind = j.kind
        /\ k.image = j.image /\ k.phase = j.phase /\ k.prev = j.prev
    BY <1>1 DEF Jobs
  <1> HIDE DEF k
  <1>5. JobSound(k)
    BY <1>1, <1>4 DEF JobSound, Early, Preflight, Rolling
  <1> QED
    BY <1>2, <1>3, <1>5, JobReplaced

LEMMA PreviousRead ==
    ASSUME Typed, NEW d \in Deploys, ReadPrevious(d)
    PROVE  Typed'
  <1> DEFINE j == job[d]
             i == PreviousImage(d)
             k == [j EXCEPT !.prev = i, !.pc = "obtain"]
  <1>1. j \in Jobs /\ JobSound(j) /\ j.pc = "readPrevious"
    BY DEF Typed, TypeOK, PipeTypeOK, JobsSound, ReadPrevious, At
  <1>2. j.server \in Servers /\ j.kind = "jar" /\ j.phase = "new"
    BY <1>1 DEF JobSound, Early
  <1>3. i \in MaybeImage
    BY <1>2 DEF PreviousImage, Typed, TypeOK, Records
  <1> HIDE DEF i
  <1>4. k \in Jobs
    BY <1>1, <1>3 DEF Jobs, Locations, Preflight, MaybeImage
  <1>5. /\ k.pc = "obtain" /\ k.server = j.server /\ k.kind = j.kind
        /\ k.image = j.image /\ k.phase = j.phase
    BY <1>1 DEF Jobs
  <1> HIDE DEF k
  <1>6. JobSound(k)
    BY <1>1, <1>2, <1>5 DEF JobSound, Early, Preflight, Rolling
  <1>7. job' = [job EXCEPT ![d] = k]
    BY DEF ReadPrevious, i, k
  <1>8. job' \in [Deploys -> Jobs] /\ JobsSound'
    BY <1>4, <1>6, <1>7, JobReplaced DEF Typed, TypeOK, PipeTypeOK
  <1> QED
    BY <1>8 DEF ReadPrevious, recVars, Typed, TypeOK, PipeTypeOK,
                 ObserversSound

LEMMA UpsertTypes ==
    ASSUME Typed, NEW s \in Servers, NEW r \in Records, NEW saved \in BOOLEAN,
           Upsert(s, r, saved)
    PROVE  store' \in [Servers -> Records] /\ disk' \in [Servers -> Records]
  BY DEF Upsert, Typed, TypeOK

LEMMA SavesTypes == Saves \subseteq BOOLEAN
  BY DEF Saves

LEMMA ReadTypes ==
    ASSUME Typed, NEW d \in Deploys, NEW l, ReadRecord(d, l),
           job[d].server \in Servers, job' \in [Deploys -> Jobs], JobsSound'
    PROVE  Typed'
  <1>1. snap' \in [Deploys -> Records]
    BY DEF ReadRecord, Typed, TypeOK
  <1> QED
    BY <1>1 DEF ReadRecord, Typed, TypeOK, PipeTypeOK,
                 ObserversSound

LEMMA WriteTypes ==
    ASSUME Typed, NEW d \in Deploys, NEW r \in Records, NEW saved \in Saves,
           NEW l, WriteRecord(d, r, saved, l),
           job[d].server \in Servers, job' \in [Deploys -> Jobs], JobsSound'
    PROVE  Typed'
  <1>1. snap' \in [Deploys -> Records]
    BY Values DEF WriteRecord, Typed, TypeOK
  <1>2. store' \in [Servers -> Records] /\ disk' \in [Servers -> Records]
    BY UpsertTypes, SavesTypes DEF WriteRecord
  <1> QED
    BY <1>1, <1>2 DEF WriteRecord, Typed, TypeOK, PipeTypeOK,
                 ObserversSound

\* Writing down how a deploy stands keeps the types.
LEMMA MarkTypes ==
    ASSUME Typed, NEW d \in Deploys,
           MarkProgressing(d) \/ MarkSynced(d) \/ MarkFailed(d)
    PROVE  Typed'
  <1> DEFINE j == job[d]
  <1>1. /\ j \in Jobs /\ JobSound(j) /\ job \in [Deploys -> Jobs] /\ JobsSound
        /\ snap[d] \in Records /\ j.image \in MaybeImage
    BY DEF Typed, TypeOK, PipeTypeOK, JobsSound, Jobs, MaybeImage
  <1>2. j.pc # "unborn" => j.server \in Servers
    BY <1>1 DEF JobSound
  <1>3. ASSUME NEW l \in {"putSynced", "putFailed", "succeeded", "unsaved", "failed"},
               Goto(d, l), j.pc # "unborn"
        PROVE  job' \in [Deploys -> Jobs] /\ JobsSound'
    <2>1. /\ l \in Locations \ (Early \cup {"config"})
          /\ l \notin Preflight \cup Rolling \cup {"health"}
      BY DEF Locations, Marking, Finished, Early, Preflight, Rolling
    <2> QED
      BY <1>1, <1>3, <2>1, GotoTypes
  <1>4. CASE MarkProgressing(d)
    <2>1. CASE At(d, "markProgressing") /\ ReadRecord(d, "putProgressing")
      <3>1. job' \in [Deploys -> Jobs] /\ JobsSound'
        BY <1>1, <2>1, EarlyMoved DEF ReadRecord, At, Early
      <3> QED
        BY <1>2, <2>1, <3>1, ReadTypes DEF At
    <2>2. ASSUME NEW saved \in Saves, At(d, "putProgressing"),
                 WriteRecord(d, Progressing(snap[d]), saved,
                     IF job[d].kind = "jar" THEN "readPrevious" ELSE "config")
          PROVE  Typed'
      <3>1. j.kind \in {"jar", "config"}
        BY <1>1 DEF Jobs
      <3>2. job' \in [Deploys -> Jobs] /\ JobsSound'
        <4>1. CASE j.kind = "jar"
          BY <1>1, <2>2, <4>1, EarlyMoved DEF WriteRecord, At, Early
        <4>2. CASE j.kind = "config"
          BY <1>1, <2>2, <4>2, EarlyMoved DEF WriteRecord, At, Early
        <4> QED
          BY <3>1, <4>1, <4>2
      <3>3. Progressing(snap[d]) \in Records
        BY <1>1, RecordTypes DEF Progressing, Records, Syncs, Healths
      <3> QED
        BY <1>2, <2>2, <3>2, <3>3, WriteTypes DEF At
    <2> QED
      BY <1>4, <2>1, <2>2 DEF MarkProgressing
  <1>5. CASE MarkSynced(d)
    <2>1. CASE At(d, "ok") /\ ReadRecord(d, "putSynced")
      <3>1. job' \in [Deploys -> Jobs] /\ JobsSound'
        BY <1>3, <2>1 DEF ReadRecord, At
      <3> QED
        BY <1>2, <2>1, <3>1, ReadTypes DEF At
    <2>2. ASSUME NEW saved \in Saves, At(d, "putSynced"),
                 WriteRecord(d, SyncedTo(snap[d], job[d].image), saved,
                             IF saved THEN "succeeded" ELSE "unsaved")
          PROVE  Typed'
      <3>1. job' \in [Deploys -> Jobs] /\ JobsSound'
        BY <1>3, <2>2 DEF WriteRecord, At
      <3>2. SyncedTo(snap[d], job[d].image) \in Records
        BY <1>1 DEF SyncedTo, Records, Syncs, Healths
      <3> QED
        BY <1>2, <2>2, <3>1, <3>2, WriteTypes DEF At
    <2> QED
      BY <1>5, <2>1, <2>2 DEF MarkSynced
  <1>6. CASE MarkFailed(d)
    <2>1. CASE At(d, "err") /\ ReadRecord(d, "putFailed")
      <3>1. job' \in [Deploys -> Jobs] /\ JobsSound'
        BY <1>3, <2>1 DEF ReadRecord, At
      <3> QED
        BY <1>2, <2>1, <3>1, ReadTypes DEF At
    <2>2. ASSUME NEW saved \in Saves, At(d, "putFailed"),
                 WriteRecord(d, Failed(snap[d]), saved, "failed")
          PROVE  Typed'
      <3>1. job' \in [Deploys -> Jobs] /\ JobsSound'
        BY <1>3, <2>2 DEF WriteRecord, At
      <3>2. Failed(snap[d]) \in Records
        BY <1>1 DEF Failed, Records, Syncs, Healths
      <3> QED
        BY <1>2, <2>2, <3>1, <3>2, WriteTypes DEF At
    <2> QED
      BY <1>6, <2>1, <2>2 DEF MarkFailed
  <1> QED
    BY <1>4, <1>5, <1>6

\* An observer's pass keeps the types.
LEMMA ObserverMoved ==
    ASSUME Typed, NEW o \in Observers, NEW k \in Observations, ObserverSound(k),
           obs' = [obs EXCEPT ![o] = k]
    PROVE  obs' \in [Observers -> Observations] /\ ObserversSound'
  BY DEF Typed, TypeOK, ObserversSound

LEMMA ObserverTypes ==
    ASSUME Typed, NEW o \in Observers, ObserverStep(o)
    PROVE  Typed'
  <1> USE DEF Typed, TypeOK
  <1>1. obs[o] \in Observations /\ ObserverSound(obs[o])
    BY DEF ObserversSound
  <1>2. CASE ReconcileBegin(o)
    <2> DEFINE k == [obs[o] EXCEPT !.pc = "get", !.todo = Servers]
    <2>1. k \in Observations /\ k.pc = "get"
      BY ONLY <1>1 DEF Observations
    <2>2. obs' = [obs EXCEPT ![o] = k]
      BY <1>2 DEF ReconcileBegin
    <2> HIDE DEF k
    <2>3. obs' \in [Observers -> Observations] /\ ObserversSound'
      BY <2>1, <2>2, ObserverMoved DEF ObserverSound
    <2> QED
      BY <1>2, <2>3 DEF ReconcileBegin, pipeVars, PipeTypeOK, JobsSound
  <1>3. CASE ObserveGet(o)
    <2>1. PICK s \in obs[o].todo :
            obs' = [obs EXCEPT ![o].pc = "observe", ![o].todo = @ \ {s},
                               ![o].server = s, ![o].snap = store[s]]
      BY <1>3 DEF ObserveGet
    <2> DEFINE k == [obs[o] EXCEPT !.pc = "observe", !.todo = @ \ {s},
                                   !.server = s, !.snap = store[s]]
    <2>2. s \in Servers
      BY <1>1 DEF Observations
    <2>3. store[s] \in Records
      BY <2>2
    <2>4. k \in Observations /\ k.pc = "observe" /\ k.server = s
      BY ONLY <1>1, <2>2, <2>3 DEF Observations
    <2>5. obs' = [obs EXCEPT ![o] = k]
      BY <2>1
    <2> HIDE DEF k
    <2>6. obs' \in [Observers -> Observations] /\ ObserversSound'
      BY <2>2, <2>4, <2>5, ObserverMoved DEF ObserverSound
    <2> QED
      BY <1>3, <2>6 DEF ObserveGet, pipeVars, PipeTypeOK, JobsSound
  <1>4. CASE ObserveRunning(o)
    <2>1. PICK seen \in Look(obs[o].server) :
            obs' = [obs EXCEPT ![o].pc = "put", ![o].seen = seen]
      BY <1>4 DEF ObserveRunning
    <2> DEFINE k == [obs[o] EXCEPT !.pc = "put", !.seen = seen]
    <2>2. obs[o].pc = "observe" /\ obs[o].server \in Servers
      BY <1>1, <1>4 DEF ObserveRunning, ObserverSound
    <2>3. seen \in Sightings /\ seen.status # "none"
      BY <2>1, <2>2 DEF Look, Saw, Sightings, MaybeImage, PipeTypeOK, Containers
    <2>4. /\ k \in Observations /\ k.pc = "put" /\ k.server = obs[o].server
          /\ k.seen = seen
      BY ONLY <1>1, <2>3 DEF Observations
    <2>5. obs' = [obs EXCEPT ![o] = k]
      BY <2>1
    <2> HIDE DEF k
    <2>6. obs' \in [Observers -> Observations] /\ ObserversSound'
      BY <2>2, <2>3, <2>4, <2>5, ObserverMoved DEF ObserverSound
    <2> QED
      BY <1>4, <2>6 DEF ObserveRunning, pipeVars, PipeTypeOK, JobsSound
  <1>5. CASE ObservePut(o)
    <2>1. PICK saved \in Saves :
            /\ Upsert(obs[o].server, Observed(obs[o].snap, obs[o].seen), saved)
            /\ obs' = [obs EXCEPT ![o] = AfterPut(o, saved)]
      BY <1>5 DEF ObservePut
    <2>2. /\ obs[o].server \in Servers /\ obs[o].snap \in Records
          /\ obs[o].seen \in Sightings /\ obs[o].todo \in SUBSET Servers
      BY <1>1, <1>5 DEF ObservePut, ObserverSound, Observations
    <2>3. Observed(obs[o].snap, obs[o].seen) \in Records
      BY <2>2, RecordTypes DEF MaybeImage
    <2>4. store' \in [Servers -> Records] /\ disk' \in [Servers -> Records]
      BY <2>1, <2>2, <2>3, UpsertTypes, SavesTypes
    <2> DEFINE k == [IdleObserver EXCEPT !.pc = "get", !.todo = obs[o].todo]
    <2>5. /\ IdleObserver \in Observations /\ IdleObserver.pc = "idle"
          /\ k \in Observations /\ k.pc = "get"
      BY <2>2, Values DEF IdleObserver, Observations
    <2>6. AfterPut(o, saved) = k \/ AfterPut(o, saved) = IdleObserver
      BY DEF AfterPut
    <2> HIDE DEF k
    <2>7. obs' \in [Observers -> Observations] /\ ObserversSound'
      BY <2>1, <2>5, <2>6, ObserverMoved DEF ObserverSound
    <2> QED
      BY <1>5, <2>4, <2>7 DEF ObservePut, pipeVars, PipeTypeOK, JobsSound
  <1> QED
    BY <1>2, <1>3, <1>4, <1>5 DEF ObserverStep

LEMMA DaemonTypes ==
    ASSUME Typed, Shutdown \/ Restart
    PROVE  Typed'
  <1> USE DEF Typed, TypeOK
  <1>1. CASE Shutdown
    BY <1>1 DEF Shutdown, recVars, PipeTypeOK, JobsSound, ObserversSound
  <1>2. CASE Restart
    <2>1. ASSUME NEW d \in Deploys
          PROVE  job'[d] \in Jobs /\ JobSound(job'[d])
      <3>1. job[d] \in Jobs /\ JobSound(job[d])
        BY DEF PipeTypeOK, JobsSound
      <3>2. job'[d] = IF Active(d) THEN [job[d] EXCEPT !.pc = "lost"] ELSE job[d]
        BY <1>2 DEF Restart
      <3>3. CASE Active(d)
        <4>1. /\ "lost" \in Locations \ (Early \cup {"config"})
              /\ "lost" \notin Preflight \cup Rolling \cup {"health"}
          BY DEF Locations, Finished, Early, Preflight, Rolling
        <4> QED
          BY <3>1, <3>2, <3>3, <4>1, JobMoved DEF Active
      <3> QED
        BY <3>1, <3>2, <3>3
    <2>2. job' \in [Deploys -> Jobs] /\ JobsSound'
      BY <1>2, <2>1 DEF Restart, JobsSound
    <2>3. obs' \in [Observers -> Observations] /\ ObserversSound'
      BY <1>2, Values DEF Restart, ObserversSound, ObserverSound, IdleObserver
    <2>4. snap' \in [Deploys -> Records] /\ attached' \in BOOLEAN
      BY <1>2, Values DEF Restart
    <2>5. restarts' \in 0 .. MaxRestarts
      BY <1>2 DEF Restart
    <2> QED
      BY <1>2, <2>2, <2>3, <2>4, <2>5 DEF Restart, PipeTypeOK
  <1> QED
    BY <1>1, <1>2

LEMMA TypedInitially == Init => Typed
  <1> SUFFICES ASSUME Init PROVE Typed
    OBVIOUS
  <1>1. job \in [Deploys -> Jobs] /\ JobsSound
    BY Values DEF Init, PipeInit, JobsSound, JobSound, Unborn, Early, Preflight, Rolling
  <1>2. host \in [Servers -> Containers]
    <2>1. \A i \in Images : Original(i) \in Containers
      BY Values DEF Original, Containers, Builds
    <2> QED
      BY <2>1, Values DEF Init, PipeInit
  <1>3. /\ ran \in [Servers -> SUBSET Images]
        /\ healthy \in [Servers -> SUBSET ((Images \cup {NoImage}) \X Builds)]
    <2>1. \A s \in Servers : host[s].image \in Images \cup {NoImage}
      BY <1>2 DEF Containers
    <2> QED
      BY <2>1 DEF Init, PipeInit, Builds
  <1>4. PipeTypeOK
    BY <1>1, <1>2, <1>3 DEF Init, PipeInit, PipeTypeOK, Builds
  <1>5. store \in [Servers -> Records] /\ disk \in [Servers -> Records]
    <2>1. \A i \in Images : Settled(i) \in Records
      BY DEF Settled, Records, Syncs, Healths, MaybeImage
    <2> QED
      BY <2>1, Values DEF Init
  <1>6. obs \in [Observers -> Observations] /\ ObserversSound
    BY Values DEF Init, ObserversSound, ObserverSound, IdleObserver
  <1>7. snap \in [Deploys -> Records] /\ attached \in BOOLEAN /\ restarts \in 0 .. MaxRestarts
    BY Values DEF Init
  <1> QED
    BY <1>1, <1>4, <1>5, <1>6, <1>7 DEF Typed, TypeOK

LEMMA TypedInductive == Typed /\ [Next]_vars => Typed'
  <1> SUFFICES ASSUME Typed, [Next]_vars PROVE Typed'
    OBVIOUS
  <1>1. ASSUME NEW d \in Deploys, PipelineStep(d), UNCHANGED recVars
        PROVE  Typed'
    BY <1>1, PipelineTypes DEF recVars, Typed, TypeOK, ObserversSound
  <1>2. ASSUME NEW d \in Deploys, DeployStep(d)
        PROVE  Typed'
    BY <1>1, <1>2, MarkTypes, PreviousRead DEF DeployStep
  <1>3. CASE UNCHANGED vars
    BY <1>3 DEF vars, pipeVars, recVars, Typed, TypeOK, PipeTypeOK, JobsSound,
                ObserversSound
  <1> QED
    BY <1>2, <1>3, BeginTypes, ObserverTypes, DaemonTypes DEF Next

\* The variables always have their types (TypeOK), the locals of a deploy fit
\* the line it is at, and an observer knows which server it looked at.
THEOREM TypeCorrect == Spec => []TypeOK
  <1>1. Typed => TypeOK
    BY DEF Typed
  <1> QED
    BY <1>1, TypedInitially, TypedInductive, PTL DEF Spec

-----------------------------------------------------------------------------
(* The rollback pair.                                                      *)

\* Whatever is written to the store is a sound pair when the copy it was made
\* from was.
LEMMA PairsKept ==
    ASSUME NEW r \in Records, SoundPair(r), NEW i \in MaybeImage,
           NEW seen \in Sightings
    PROVE  /\ SoundPair(Progressing(r)) /\ SoundPair(Failed(r))
           /\ SoundPair(SyncedTo(r, i)) /\ SoundPair(Observed(r, seen))
  <1>1. SoundPair(Progressing(r)) /\ SoundPair(Failed(r))
    BY DEF Progressing, Failed, Records, SoundPair
  <1>2. SoundPair(SyncedTo(r, i))
    BY DEF SyncedTo, Records, SoundPair
  <1>3. SoundPair(SeenRunning(r, seen.image))
    BY DEF SeenRunning, Records, SoundPair
  <1>4. SoundPair(Observed(r, seen))
    <2>1. CASE seen.status \in {"error", "missing", "detached"}
      BY <2>1 DEF Observed, Records, SoundPair
    <2>2. CASE seen.status \notin {"error", "missing", "detached"}
      BY <1>3, <2>2 DEF Observed
    <2> QED
      BY <2>1, <2>2
  <1> QED
    BY <1>1, <1>2, <1>4

LEMMA EmptyPair == SoundPair(NoRecord)
  BY DEF SoundPair, NoRecord

LEMMA PairUpsert ==
    ASSUME Typed, RollbackPair, NEW s \in Servers, NEW r \in Records,
           SoundPair(r), NEW saved, Upsert(s, r, saved)
    PROVE  \A t \in Servers : SoundPair(store'[t]) /\ SoundPair(disk'[t])
  BY DEF Upsert, Typed, TypeOK, RollbackPair

LEMMA PairRead ==
    ASSUME Typed, RollbackPair, NEW d \in Deploys, NEW l, ReadRecord(d, l),
           job[d].server \in Servers
    PROVE  RollbackPair'
  BY DEF ReadRecord, RollbackPair, Typed, TypeOK

LEMMA PairWrite ==
    ASSUME Typed, RollbackPair, NEW d \in Deploys, NEW r \in Records,
           SoundPair(r), NEW saved, NEW l, WriteRecord(d, r, saved, l),
           job[d].server \in Servers
    PROVE  RollbackPair'
  <1>1. \A t \in Servers : SoundPair(store'[t]) /\ SoundPair(disk'[t])
    BY PairUpsert DEF WriteRecord
  <1>2. \A e \in Deploys : SoundPair(snap'[e])
    BY EmptyPair DEF WriteRecord, RollbackPair, Typed, TypeOK
  <1> QED
    BY <1>1, <1>2 DEF WriteRecord, RollbackPair

LEMMA PairInductive == Typed /\ RollbackPair /\ [Next]_vars => RollbackPair'
  <1> SUFFICES ASSUME Typed, RollbackPair, [Next]_vars PROVE RollbackPair'
    OBVIOUS
  <1>1. ASSUME store' = store, disk' = disk, snap' = snap, obs' = obs
        PROVE  RollbackPair'
    BY <1>1 DEF RollbackPair
  <1>2. ASSUME NEW d \in Deploys, Begin(d)
        PROVE  RollbackPair'
    BY <1>1, <1>2
    DEF Begin, GitConfig, GitDeploy, ManualSync, JenkinsSync, Start, recVars
  <1>3. ASSUME NEW d \in Deploys, DeployStep(d)
        PROVE  RollbackPair'
    <2>1. /\ snap[d] \in Records /\ SoundPair(snap[d])
          /\ job[d].image \in MaybeImage
          /\ job[d].pc # "unborn" => job[d].server \in Servers
      BY DEF Typed, TypeOK, PipeTypeOK, JobsSound, JobSound, Jobs, MaybeImage,
             RollbackPair
    <2>2. Saw("none", NoImage) \in Sightings
      BY DEF Saw, Sightings, MaybeImage
    <2>3. /\ Progressing(snap[d]) \in Records /\ Failed(snap[d]) \in Records
          /\ SyncedTo(snap[d], job[d].image) \in Records
      BY <2>1, <2>2, RecordTypes
    <2>4. /\ SoundPair(Progressing(snap[d])) /\ SoundPair(Failed(snap[d]))
          /\ SoundPair(SyncedTo(snap[d], job[d].image))
      BY <2>1, <2>2, PairsKept
    <2>5. CASE PipelineStep(d) /\ UNCHANGED recVars
      BY <1>1, <2>5 DEF recVars
    <2>6. CASE MarkProgressing(d)
      BY <2>1, <2>3, <2>4, <2>6, PairRead, PairWrite DEF MarkProgressing, At
    <2>7. CASE ReadPrevious(d)
      BY <1>1, <2>7 DEF ReadPrevious, recVars
    <2>8. CASE MarkSynced(d)
      BY <2>1, <2>3, <2>4, <2>8, PairRead, PairWrite DEF MarkSynced, At
    <2>9. CASE MarkFailed(d)
      BY <2>1, <2>3, <2>4, <2>9, PairRead, PairWrite DEF MarkFailed, At
    <2> QED
      BY <1>3, <2>5, <2>6, <2>7, <2>8, <2>9 DEF DeployStep
  <1>4. ASSUME NEW o \in Observers, ObserverStep(o)
        PROVE  RollbackPair'
    <2>1. obs[o] \in Observations /\ ObserverSound(obs[o])
      BY DEF Typed, TypeOK, ObserversSound
    <2>2. ASSUME NEW k \in Observations, SoundPair(k.snap),
                 obs' = [obs EXCEPT ![o] = k]
          PROVE  \A p \in Observers : SoundPair(obs'[p].snap)
      BY <2>2 DEF RollbackPair, Typed, TypeOK
    <2>3. CASE ReconcileBegin(o)
      <3> DEFINE k == [obs[o] EXCEPT !.pc = "get", !.todo = Servers]
      <3>1. k \in Observations /\ k.snap = obs[o].snap
        BY ONLY <2>1 DEF Observations
      <3>2. obs' = [obs EXCEPT ![o] = k]
        BY <2>3 DEF ReconcileBegin
      <3> HIDE DEF k
      <3> QED
        BY <2>2, <2>3, <3>1, <3>2 DEF ReconcileBegin, RollbackPair
    <2>4. CASE ObserveGet(o)
      <3>1. PICK s \in obs[o].todo :
              obs' = [obs EXCEPT ![o].pc = "observe", ![o].todo = @ \ {s},
                                 ![o].server = s, ![o].snap = store[s]]
        BY <2>4 DEF ObserveGet
      <3> DEFINE k == [obs[o] EXCEPT !.pc = "observe", !.todo = @ \ {s},
                                     !.server = s, !.snap = store[s]]
      <3>2. s \in Servers
        BY <2>1 DEF Observations
      <3>3. store[s] \in Records /\ SoundPair(store[s])
        BY <3>2 DEF Typed, TypeOK, RollbackPair
      <3>4. k \in Observations /\ k.snap = store[s]
        BY ONLY <2>1, <3>2, <3>3 DEF Observations
      <3>5. obs' = [obs EXCEPT ![o] = k]
        BY <3>1
      <3> HIDE DEF k
      <3> QED
        BY <2>2, <2>4, <3>3, <3>4, <3>5 DEF ObserveGet, RollbackPair
    <2>5. CASE ObserveRunning(o)
      <3>1. PICK seen \in Look(obs[o].server) :
              obs' = [obs EXCEPT ![o].pc = "put", ![o].seen = seen]
        BY <2>5 DEF ObserveRunning
      <3>2. ASSUME NEW p \in Observers
            PROVE  obs'[p].snap = obs[p].snap
        BY <3>1 DEF Typed, TypeOK, Observations
      <3> QED
        BY <2>5, <3>2 DEF ObserveRunning, RollbackPair
    <2>6. CASE ObservePut(o)
      <3>1. PICK saved \in Saves :
              /\ Upsert(obs[o].server, Observed(obs[o].snap, obs[o].seen), saved)
              /\ obs' = [obs EXCEPT ![o] = AfterPut(o, saved)]
        BY <2>6 DEF ObservePut
      <3>2. /\ obs[o].server \in Servers /\ obs[o].snap \in Records
            /\ obs[o].seen \in Sightings /\ obs[o].todo \in SUBSET Servers
            /\ SoundPair(obs[o].snap)
        BY <2>1, <2>6 DEF ObservePut, ObserverSound, Observations, RollbackPair
      <3>3. /\ Observed(obs[o].snap, obs[o].seen) \in Records
            /\ SoundPair(Observed(obs[o].snap, obs[o].seen))
        BY <3>2, RecordTypes, PairsKept DEF MaybeImage
      <3>4. \A t \in Servers : SoundPair(store'[t]) /\ SoundPair(disk'[t])
        BY <3>1, <3>2, <3>3, PairUpsert
      <3>5. AfterPut(o, saved) \in Observations /\ SoundPair(AfterPut(o, saved).snap)
        BY <3>2, Values, EmptyPair DEF AfterPut, IdleObserver, Observations
      <3>6. \A p \in Observers : SoundPair(obs'[p].snap)
        BY <2>2, <3>1, <3>5
      <3> QED
        BY <2>6, <3>4, <3>6 DEF ObservePut, RollbackPair
    <2> QED
      BY <1>4, <2>3, <2>4, <2>5, <2>6 DEF ObserverStep
  <1>5. CASE Shutdown
    BY <1>1, <1>5 DEF Shutdown, recVars
  <1>6. CASE Restart
    BY <1>6, EmptyPair DEF Restart, RollbackPair, IdleObserver
  <1>7. CASE UNCHANGED vars
    BY <1>1, <1>7 DEF vars, recVars
  <1> QED
    BY <1>2, <1>3, <1>4, <1>5, <1>6, <1>7 DEF Next

\* RollbackPair always holds: the whole-record copies that deploys, observers
\* and restarts write over each other never make a record whose previous image
\* is its current one, or a previous image without a current one.
THEOREM RollbackPairAlways == Spec => []RollbackPair
  <1>1. Init => RollbackPair
    BY Values, EmptyPair DEF Init, RollbackPair, Settled, SoundPair, IdleObserver
  <1> QED
    BY <1>1, TypedInitially, TypedInductive, PairInductive, PTL DEF Spec
=============================================================================
