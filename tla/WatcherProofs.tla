--------------------------- MODULE WatcherProofs ----------------------------
(***************************************************************************)
(* What holds when nobody but the watcher starts deploys: the consumer of  *)
(* its events handles one server at a time, so between two calls of a      *)
(* deploy no other one touches its tag or the server's name (Alone).       *)
(*                                                                         *)
(* A deploy that returns without an error left its own container running,  *)
(* made of its own build (Mine).  Docker errors, failing saves, shutdowns  *)
(* and restarts are all allowed.                                           *)
(*                                                                         *)
(* A rollback that met no fault left the previous image running: none of   *)
(* its calls fails, because the container under the name is the one it has *)
(* just seen or made (Restoring).                                          *)
(***************************************************************************)
EXTENDS ProvenanceProofs

USE NoneAssumption

\* The goroutine that is not finished is the only one, and builds its image.
Alone == \A d, e \in Deploys : Active(d) /\ Active(e) => d = e
WatcherJob(j) == j.git /\ ~j.prebuilt

\* The locations at which the tag of deploy d is known to name its build.
Built == {"drift", "network"} \cup Rolling \cup {"ok", "putSynced"}

Own(d, r) == [id |-> [by |-> d, phase |-> "new"], image |-> job[d].image,
              build |-> d, running |-> r]

\* What deploy d, if it has not turned to the rollback, has made so far.
Mine(d) ==
    /\ Active(d) => WatcherJob(job[d])
    /\ job[d].kind = "jar" /\ job[d].pc \in {"ok", "putSynced"} =>
         job[d].phase = "new"
    /\ job[d].kind = "jar" /\ job[d].phase = "new" =>
         /\ job[d].pc \in Built => content[job[d].image] = d
         /\ job[d].pc = "start" => host[job[d].server] = Own(d, FALSE)
         /\ job[d].pc \in {"health", "ok", "putSynced"} =>
              host[job[d].server] = Own(d, TRUE)

WatcherInv == Typed /\ Alone /\ \A d \in Deploys : Mine(d)

-----------------------------------------------------------------------------
(* One deploy at a time.                                                   *)

\* A deploy that is not running has made nothing that matters any more.
LEMMA IdleIsMine ==
    ASSUME NEW d \in Deploys, ~Active(d)
    PROVE  Mine(d)
  BY DEF Active, Mine, Built, Rolling, Finished

\* So a step of the one that runs has to look after itself only.
LEMMA OnlyMine ==
    ASSUME WatcherInv, NEW d \in Deploys, Active(d), Mine(d)',
           \A e \in Deploys \ {d} : job'[e] = job[e]
    PROVE  Alone' /\ \A e \in Deploys : Mine(e)'
  <1>1. \A e \in Deploys \ {d} : ~Active(e) /\ ~Active(e)'
    BY DEF WatcherInv, Alone, Active
  <1>2. Alone'
    BY <1>1 DEF Alone
  <1>3. ASSUME NEW e \in Deploys \ {d}
        PROVE  Mine(e)'
    BY <1>1 DEF Active, Mine, Built, Rolling, Finished
  <1> QED
    BY <1>2, <1>3

\* Deploy d moved to l and kept what it was asked for.
Stays(d, l) ==
    /\ \A e \in Deploys \ {d} : job'[e] = job[e]
    /\ job'[d].pc = l
    /\ job'[d].git = job[d].git
    /\ job'[d].prebuilt = job[d].prebuilt
    /\ job'[d].kind = job[d].kind
    /\ job'[d].server = job[d].server
    /\ job'[d].image = job[d].image

LEMMA GotoStays ==
    ASSUME job \in [Deploys -> Jobs], NEW d \in Deploys, NEW l, Goto(d, l)
    PROVE  Stays(d, l) /\ job'[d].phase = job[d].phase
  BY DEF Goto, Stays, Jobs

LEMMA FoundThenStays ==
    ASSUME job \in [Deploys -> Jobs], NEW d \in Deploys, NEW l, NEW id,
           FoundThen(d, id, l)
    PROVE  Stays(d, l) /\ job'[d].phase = job[d].phase
  BY DEF FoundThen, Stays, Jobs

\* Giving up leaves nothing to answer for: the rollback is another phase, and
\* an error is no success.
LEMMA FailRolloverMine ==
    ASSUME WatcherInv, NEW d \in Deploys, job[d].pc \in Rolling, FailRollover(d)
    PROVE  Alone' /\ \A e \in Deploys : Mine(e)'
  <1>1. job \in [Deploys -> Jobs] /\ Mine(d)
    BY DEF WatcherInv, Typed, TypeOK, PipeTypeOK
  <1>2. Active(d)
    BY DEF Active, Rolling, Finished
  <1>3. Stays(d, IF RollsBack(d) THEN "find" ELSE "err")
    BY <1>1 DEF FailRollover, Stays, Jobs
  <1>4. job'[d].phase = IF RollsBack(d) THEN "rollback" ELSE job[d].phase
    BY <1>1 DEF FailRollover, Jobs
  <1>5. Mine(d)'
    BY <1>1, <1>2, <1>3, <1>4
    DEF Mine, Stays, WatcherJob, Active, Built, Rolling, Finished
  <1> QED
    BY <1>2, <1>3, <1>5, OnlyMine DEF Stays

\* A step that keeps the containers and the tags, inside the built part or
\* out of it, keeps what is known.
LEMMA MovedOn ==
    ASSUME WatcherInv, NEW d \in Deploys, Active(d), NEW l, Stays(d, l),
           job'[d].phase = job[d].phase, content' = content \/ l \notin Built,
           host' = host \/ l \notin {"ok", "putSynced"},
           l \notin {"start", "health"},
           job[d].kind = "jar" /\ l \in Built => job[d].pc \in Built,
           job[d].kind = "jar" /\ l \in {"ok", "putSynced"} =>
             job[d].pc \in {"health", "ok", "putSynced"}
    PROVE  Alone' /\ \A e \in Deploys : Mine(e)'
  <1>1. Mine(d) /\ JobSound(job[d])
    BY DEF WatcherInv, Typed, JobsSound
  <1>2. job[d].pc = "health" => job[d].phase = "new"
    BY <1>1 DEF JobSound
  <1>3. Own(d, TRUE)' = Own(d, TRUE)
    BY DEF Own, Stays
  <1>4. Mine(d)'
    <2>1. /\ Active(d)' => WatcherJob(job[d])'
          /\ job'[d].kind = "jar" /\ job'[d].pc \in {"ok", "putSynced"} =>
               job'[d].phase = "new"
      BY <1>1, <1>2 DEF Mine, Stays, WatcherJob
    <2>2. ASSUME job'[d].kind = "jar", job'[d].phase = "new", job'[d].pc \in Built
          PROVE  content'[job'[d].image] = d
      BY <1>1, <2>2 DEF Mine, Stays
    <2>3. ASSUME job'[d].kind = "jar", job'[d].phase = "new",
                 job'[d].pc \in {"health", "ok", "putSynced"}
          PROVE  host'[job'[d].server] = Own(d, TRUE)'
      BY <1>1, <1>3, <2>3 DEF Mine, Stays
    <2> QED
      BY <2>1, <2>2, <2>3 DEF Mine, Stays
  <1> QED
    BY <1>4, OnlyMine DEF Stays

-----------------------------------------------------------------------------
(* The three steps that make something.                                    *)

LEMMA ObtainMine ==
    ASSUME WatcherInv, NEW d \in Deploys, ObtainImage(d)
    PROVE  Alone' /\ \A e \in Deploys : Mine(e)'
  <1>1. /\ job \in [Deploys -> Jobs] /\ content \in [Images -> Builds]
        /\ Mine(d) /\ JobSound(job[d])
    BY DEF WatcherInv, Typed, TypeOK, PipeTypeOK, JobsSound
  <1>2. Active(d) /\ job[d].image \in Images /\ job[d].phase = "new"
    BY <1>1 DEF ObtainImage, At, Active, Finished, JobSound, Preflight
  <1>3. Stays(d, "drift") /\ job'[d].phase = job[d].phase
    BY <1>1, GotoStays DEF ObtainImage
  <1>4. content' = [content EXCEPT ![job[d].image] = d]
    BY <1>1, <1>2 DEF ObtainImage, ObtainedContent, Mine, WatcherJob
  <1>5. Mine(d)'
    BY <1>1, <1>2, <1>3, <1>4 DEF Mine, Stays, WatcherJob
  <1> QED
    BY <1>2, <1>3, <1>5, OnlyMine DEF Stays

LEMMA CreateMine ==
    ASSUME WatcherInv, NEW d \in Deploys, CreateContainer(d)
    PROVE  Alone' /\ \A e \in Deploys : Mine(e)'
  <1>1. /\ job \in [Deploys -> Jobs] /\ host \in [Servers -> Containers]
        /\ Mine(d) /\ JobSound(job[d])
    BY DEF WatcherInv, Typed, TypeOK, PipeTypeOK, JobsSound
  <1>2. Active(d) /\ job[d].server \in Servers /\ job[d].kind = "jar"
        /\ job[d].pc \in Rolling /\ job[d].pc \in Built
    BY <1>1 DEF CreateContainer, At, Active, Finished, JobSound, Rolling, Built
  <1>3. CASE FailRollover(d)
    BY <1>2, <1>3, FailRolloverMine
  <1>4. CASE /\ FindByName(job[d].server) = NoId
             /\ host' = WithCreated(job[d].server, d) /\ Goto(d, "start")
    <2>1. Stays(d, "start") /\ job'[d].phase = job[d].phase
      BY <1>1, <1>4, GotoStays
    <2>2. host'[job[d].server] = Created(d)
      BY <1>1, <1>2, <1>4 DEF WithCreated, FindByName
    <2>3. job[d].phase = "new" => Created(d) = Own(d, FALSE)
      BY <1>1, <1>2 DEF Created, Own, OwnId, Target, Mine
    <2>4. Own(d, FALSE)' = Own(d, FALSE)
      BY <2>1 DEF Own, Stays
    <2>5. content' = content
      BY DEF CreateContainer
    <2>6. Mine(d)'
      BY <1>1, <1>2, <2>1, <2>2, <2>3, <2>4, <2>5 DEF Mine, Stays, WatcherJob
    <2> QED
      BY <1>2, <2>1, <2>6, OnlyMine DEF Stays
  <1> QED
    BY <1>3, <1>4 DEF CreateContainer

LEMMA StartMine ==
    ASSUME WatcherInv, NEW d \in Deploys, StartContainer(d)
    PROVE  Alone' /\ \A e \in Deploys : Mine(e)'
  <1> DEFINE s == job[d].server
  <1>1. /\ job \in [Deploys -> Jobs] /\ host \in [Servers -> Containers]
        /\ Mine(d) /\ JobSound(job[d])
    BY DEF WatcherInv, Typed, TypeOK, PipeTypeOK, JobsSound
  <1>2. Active(d) /\ s \in Servers /\ job[d].kind = "jar" /\ job[d].pc = "start"
    BY <1>1 DEF StartContainer, At, Active, Finished, JobSound, Rolling
  <1>3. /\ Stays(d, IF job[d].phase = "new" THEN "health" ELSE "err")
        /\ job'[d].phase = job[d].phase
    BY <1>1, GotoStays DEF StartContainer
  <1>4. host'[s] = [host[s] EXCEPT !.running = TRUE] /\ content' = content
    BY <1>1, <1>2 DEF StartContainer, Started
  <1>5. job[d].phase = "new" => host'[s] = Own(d, TRUE)
    <2>1. job[d].phase = "new" => host[s] = Own(d, FALSE)
      BY <1>1, <1>2 DEF Mine
    <2>2. host[s] \in Containers
      BY <1>1, <1>2
    <2>3. /\ host'[s] \in Containers /\ host'[s].running = TRUE
          /\ host'[s].id = host[s].id /\ host'[s].image = host[s].image
          /\ host'[s].build = host[s].build
      BY <1>4, <2>2 DEF Containers
    <2>4. \A c \in Containers :
            c = [id |-> c.id, image |-> c.image, build |-> c.build,
                 running |-> c.running]
      BY DEF Containers
    <2>5. job[d].phase = "new" =>
            /\ host'[s].id = [by |-> d, phase |-> "new"]
            /\ host'[s].image = job[d].image /\ host'[s].build = d
      BY <2>1, <2>3 DEF Own
    <2> QED
      BY <2>3, <2>4, <2>5 DEF Own
  <1>6. Own(d, TRUE)' = Own(d, TRUE)
    BY <1>3 DEF Own, Stays
  <1>7. "start" \in Built
    BY DEF Built, Rolling
  <1>8. Mine(d)'
    <2>1. CASE job[d].phase = "new"
      BY <1>1, <1>2, <1>3, <1>4, <1>5, <1>6, <1>7, <2>1
      DEF Mine, Stays, WatcherJob
    <2>2. CASE job[d].phase # "new"
      BY <1>1, <1>2, <1>3, <2>2 DEF Mine, Stays, WatcherJob
    <2> QED
      BY <2>1, <2>2
  <1> QED
    BY <1>2, <1>3, <1>8, OnlyMine DEF Stays

-----------------------------------------------------------------------------
LEMMA PipelineMine ==
    ASSUME WatcherInv, NEW d \in Deploys, PipelineStep(d)
    PROVE  Alone' /\ \A e \in Deploys : Mine(e)'
  <1>1. job \in [Deploys -> Jobs] /\ JobSound(job[d])
    BY DEF WatcherInv, Typed, TypeOK, PipeTypeOK, JobsSound
  <1>2. ASSUME job[d].pc \in {"config"} \cup Preflight \cup Rolling
        PROVE  Active(d)
    BY <1>2 DEF Active, Preflight, Rolling, Finished
  <1> USE DEF At, Built, Rolling, Preflight
  <1>3. CASE ObtainImage(d)
    BY <1>3, ObtainMine
  <1>4. CASE ObtainFails(d)
    BY <1>1, <1>2, <1>4, GotoStays, MovedOn DEF ObtainFails
  <1>5. CASE CheckDrift(d)
    <2>1. Goto(d, "err") \/ Goto(d, "network")
      BY <1>5 DEF CheckDrift
    <2> QED
      BY <1>1, <1>2, <1>5, <2>1, GotoStays, MovedOn DEF CheckDrift
  <1>6. CASE EnsureNetwork(d)
    BY <1>1, <1>2, <1>6, GotoStays, MovedOn DEF EnsureNetwork
  <1>7. CASE FindOld(d)
    <2>1. \E id, l : FoundThen(d, id, l) /\ l \in {"stop", "runFind"}
      BY <1>7 DEF FindOld
    <2> QED
      BY <1>1, <1>2, <1>7, <2>1, FoundThenStays, MovedOn DEF FindOld
  <1>8. CASE StopOld(d)
    BY <1>1, <1>2, <1>8, GotoStays, MovedOn DEF StopOld
  <1>9. CASE RemoveOld(d)
    BY <1>1, <1>2, <1>9, FoundThenStays, MovedOn DEF RemoveOld
  <1>10. CASE RunFind(d)
    <2>1. \/ \E id, l : FoundThen(d, id, l) /\ l \in {"create", "runRemove"}
          \/ FailRollover(d)
      BY <1>10 DEF RunFind
    <2> QED
      BY <1>1, <1>2, <1>10, <2>1, FoundThenStays, MovedOn, FailRolloverMine
      DEF RunFind
  <1>11. CASE RunRemove(d)
    BY <1>1, <1>2, <1>11, FoundThenStays, MovedOn, FailRolloverMine
    DEF RunRemove
  <1>12. CASE CreateContainer(d)
    BY <1>12, CreateMine
  <1>13. CASE StartContainer(d)
    BY <1>13, StartMine
  <1>14. CASE StartFails(d)
    BY <1>1, <1>2, <1>14, GotoStays, MovedOn DEF StartFails
  <1>15. CASE Discard(d)
    BY <1>15, FailRolloverMine DEF Discard
  <1>16. CASE HealthPasses(d)
    BY <1>1, <1>2, <1>16, GotoStays, MovedOn DEF HealthPasses
  <1>17. CASE HealthTimeout(d)
    BY <1>17, FailRolloverMine DEF HealthTimeout
  <1>18. CASE HealthCancelled(d)
    BY <1>1, <1>2, <1>18, GotoStays, MovedOn DEF HealthCancelled
  <1>19. CASE RunConfig(d)
    <2>1. Goto(d, "ok") \/ Goto(d, "err")
      BY <1>19 DEF RunConfig
    <2> QED
      BY <1>1, <1>2, <1>19, <2>1, GotoStays, MovedOn DEF RunConfig, JobSound
  <1> QED
    BY <1>3, <1>4, <1>5, <1>6, <1>7, <1>8, <1>9, <1>10, <1>11, <1>12, <1>13,
       <1>14, <1>15, <1>16, <1>17, <1>18, <1>19 DEF PipelineStep

\* The record keeping touches no container and no tag.
LEMMA MarkMine ==
    ASSUME WatcherInv, NEW d \in Deploys,
           \/ MarkProgressing(d) \/ ReadPrevious(d)
           \/ MarkSynced(d) \/ MarkFailed(d)
    PROVE  Alone' /\ \A e \in Deploys : Mine(e)'
  <1>1. job \in [Deploys -> Jobs]
    BY DEF WatcherInv, Typed, TypeOK, PipeTypeOK
  <1>2. host' = host /\ content' = content
    BY DEF MarkProgressing, ReadPrevious, MarkSynced, MarkFailed, ReadRecord,
           WriteRecord
  <1>3. /\ job[d].pc \in Marking \cup Returned
        /\ \E l : /\ Stays(d, l) /\ job'[d].phase = job[d].phase
                  /\ \/ l = "putSynced" /\ job[d].pc = "ok"
                     \/ l \in Marking \cup Finished \cup {"obtain", "config"}
                        /\ l # "putSynced"
    <2>1. CASE ReadPrevious(d)
      <3>1. Stays(d, "obtain") /\ job'[d].phase = job[d].phase
        BY <1>1, <2>1 DEF ReadPrevious, Stays, Jobs
      <3> QED
        BY <2>1, <3>1 DEF ReadPrevious, At, Marking
    <2>2. CASE MarkProgressing(d)
      <3>1. \E l \in {"putProgressing", "readPrevious", "config"} : Goto(d, l)
        BY <2>2 DEF MarkProgressing, ReadRecord, WriteRecord
      <3> QED
        BY <1>1, <2>2, <3>1, GotoStays DEF MarkProgressing, At, Marking
    <2>3. CASE MarkSynced(d)
      <3>1. \/ Goto(d, "putSynced") /\ job[d].pc = "ok"
            \/ /\ Goto(d, "succeeded") \/ Goto(d, "unsaved")
               /\ job[d].pc = "putSynced"
        BY <2>3 DEF MarkSynced, ReadRecord, WriteRecord, At
      <3> QED
        BY <1>1, <3>1, GotoStays DEF Marking, Returned, Finished
    <2>4. CASE MarkFailed(d)
      <3>1. Goto(d, "putFailed") \/ Goto(d, "failed")
        BY <2>4 DEF MarkFailed, ReadRecord, WriteRecord
      <3> QED
        BY <1>1, <2>4, <3>1, GotoStays
        DEF MarkFailed, At, Marking, Returned, Finished
    <2> QED
      BY <2>1, <2>2, <2>3, <2>4
  <1>4. Active(d)
    BY <1>3 DEF Active, Marking, Returned, Finished
  <1> QED
    BY <1>2, <1>3, <1>4, MovedOn DEF Built, Rolling, Marking, Finished

\* A step of a deploy is a step of an active one, and of no other.
LEMMA StepIsActive ==
    ASSUME Typed, NEW d \in Deploys, DeployStep(d)
    PROVE  /\ Active(d)
           /\ \A e \in Deploys \ {d} : job'[e] = job[e]
           /\ job'[d].pc # "unborn"
  <1>1. job \in [Deploys -> Jobs]
    BY DEF Typed, TypeOK, PipeTypeOK
  <1>2. CASE PipelineStep(d)
    BY <1>2, PipelineMoves
    DEF Moved, Active, Preflight, Rolling, Returned, Finished
  <1>3. CASE ReadPrevious(d)
    BY <1>1, <1>3 DEF ReadPrevious, At, Active, Finished, Jobs
  <1>4. CASE MarkProgressing(d)
    <2>1. \E l \in {"putProgressing", "readPrevious", "config"} : Goto(d, l)
      BY <1>4 DEF MarkProgressing, ReadRecord, WriteRecord
    <2> QED
      BY <1>1, <1>4, <2>1, GotoMoves
      DEF MarkProgressing, At, Active, Finished, Moved
  <1>5. CASE MarkSynced(d) \/ MarkFailed(d)
    <2>1. \E l \in {"putSynced", "putFailed"} \cup Finished : Goto(d, l)
      BY <1>5 DEF MarkSynced, MarkFailed, ReadRecord, WriteRecord, Finished
    <2> QED
      BY <1>1, <1>5, <2>1, GotoMoves
      DEF MarkSynced, MarkFailed, At, Active, Finished, Moved
  <1> QED
    BY <1>2, <1>3, <1>4, <1>5 DEF DeployStep

\* Only the consumer starts deploys, and only when it is free.
LEMMA WatcherStarts ==
    ASSUME Triggers \subseteq {"git", "config"}, NEW d \in Deploys, Begin(d)
    PROVE  /\ ConsumerFree
           /\ \E j : Start(d, j) /\ WatcherJob(j) /\ j.pc = "markProgressing"
  <1>1. PICK s \in Servers :
          GitConfig(d, s) \/ \E i \in Images : GitDeploy(d, s, i)
    BY DEF Begin, ManualSync, JenkinsSync
  <1>2. ASSUME NEW i \in Images \cup {NoImage}
        PROVE  LET j == [NewJob(s, i) EXCEPT !.git = TRUE]
                   c == [NewJob(s, i) EXCEPT !.git = TRUE, !.kind = "config"]
               IN  /\ WatcherJob(j) /\ j.pc = "markProgressing"
                   /\ WatcherJob(c) /\ c.pc = "markProgressing"
    <2> DEFINE new == NewJob(s, i)
    <2>1. /\ new \in Jobs /\ new.pc = "markProgressing" /\ new.prebuilt = FALSE
      BY Values DEF NewJob, Unborn, Jobs, Locations, Marking
    <2> HIDE DEF new
    <2> QED
      BY <2>1 DEF Jobs, WatcherJob, new
  <1> QED
    BY <1>1, <1>2 DEF GitConfig, GitDeploy

LEMMA BeginMine ==
    ASSUME WatcherInv, Triggers \subseteq {"git", "config"},
           NEW d \in Deploys, Begin(d)
    PROVE  Alone' /\ \A e \in Deploys : Mine(e)'
  <1>1. job \in [Deploys -> Jobs]
    BY DEF WatcherInv, Typed, TypeOK, PipeTypeOK
  <1>2. ConsumerFree
    BY WatcherStarts
  <1>3. PICK j : Start(d, j) /\ WatcherJob(j) /\ j.pc = "markProgressing"
    BY WatcherStarts
  <1>4. \A e \in Deploys : ~Active(e)
    BY <1>2 DEF ConsumerFree, WatcherInv, Mine, WatcherJob
  <1>5. job'[d] = j /\ \A e \in Deploys \ {d} : job'[e] = job[e]
    BY <1>1, <1>3 DEF Start
  <1>6. \A e \in Deploys \ {d} : ~Active(e)'
    BY <1>4, <1>5 DEF Active
  <1>7. Mine(d)'
    BY <1>3, <1>5 DEF Mine, Built, Rolling
  <1>8. \A e \in Deploys \ {d} : Mine(e)'
    BY <1>6 DEF Active, Mine, Built, Rolling, Finished
  <1> QED
    BY <1>6, <1>7, <1>8 DEF Alone

LEMMA WatcherInductive ==
    ASSUME Triggers \subseteq {"git", "config"}
    PROVE  WatcherInv /\ [Next]_vars => WatcherInv'
  <1> DEFINE Kept == Alone' /\ \A e \in Deploys : Mine(e)'
  <1> SUFFICES ASSUME WatcherInv, [Next]_vars PROVE Kept
    BY TypedInductive DEF WatcherInv
  <1>1. ASSUME NEW d \in Deploys, Begin(d)
        PROVE  Kept
    BY <1>1, BeginMine
  <1>2. ASSUME NEW d \in Deploys, DeployStep(d)
        PROVE  Kept
    BY <1>2, PipelineMine, MarkMine DEF DeployStep
  <1>3. ASSUME job' = job, host' = host, content' = content
        PROVE  Kept
    BY <1>3 DEF WatcherInv, Alone, Active, Mine, Own
  <1>4. ASSUME NEW o \in Observers, ObserverStep(o)
        PROVE  Kept
    BY <1>3, <1>4 DEF ObserverStep, ReconcileBegin, ObserveGet, ObserveRunning,
                      ObservePut, pipeVars
  <1>5. CASE Shutdown
    BY <1>3, <1>5 DEF Shutdown
  <1>6. CASE Restart
    <2>1. ASSUME NEW e \in Deploys
          PROVE  ~Active(e)'
      <3>1. job[e] \in Jobs
        BY DEF WatcherInv, Typed, TypeOK, PipeTypeOK
      <3>2. job'[e] = IF Active(e) THEN [job[e] EXCEPT !.pc = "lost"] ELSE job[e]
        BY <1>6 DEF Restart
      <3> QED
        BY <3>1, <3>2 DEF Active, Jobs, Finished
    <2>2. \A e \in Deploys : Mine(e)'
      BY <2>1 DEF Active, Mine, Built, Rolling, Finished
    <2> QED
      BY <2>1, <2>2 DEF Alone
  <1>7. CASE UNCHANGED vars
    BY <1>3, <1>7 DEF vars, pipeVars
  <1> QED
    BY <1>1, <1>2, <1>4, <1>5, <1>6, <1>7 DEF Next

LEMMA WatcherInitially == Init => WatcherInv
  <1> SUFFICES ASSUME Init PROVE WatcherInv
    OBVIOUS
  <1>1. \A d \in Deploys : ~Active(d)
    BY DEF Init, PipeInit, Active, Unborn
  <1> QED
    BY <1>1, TypedInitially, IdleIsMine DEF WatcherInv, Alone

\* With no deploys but the watcher's, a JAR deploy that returns without an error
\* has left its own container running under the server's name, with its image
\* and the build it made, whatever Docker calls failed before, whatever saves
\* fail, and however often the daemon stopped and started.
THEOREM DeployedIsRunningAlways ==
    ASSUME Triggers \subseteq {"git", "config"}
    PROVE  Spec => []DeployedIsRunning
  <1>1. WatcherInv /\ [Next]_vars => WatcherInv'
    BY WatcherInductive
  <1>2. WatcherInv => DeployedIsRunning
    BY DEF WatcherInv, Mine, Own, DeployedIsRunning, GitDeploys
  <1> QED
    BY <1>1, <1>2, WatcherInitially, PTL DEF Spec

-----------------------------------------------------------------------------
(* The rollback, where it meets no fault.                                  *)

\* No call fails, and nobody cancels a deploy.  Crashes and failing saves are
\* allowed.
Faultless == Faults \cap {"docker", "shutdown"} = {}

\* The container under the server's name is the one deploy d left there.
Restoring(d) ==
    LET c == host[job[d].server] IN
    /\ ~At(d, "discard")
    /\ At(d, "runRemove") => c.id = job[d].found
    /\ At(d, "create") => c.id = NoId
    /\ At(d, "start") => c.id = OwnId(d) /\ c.image = Target(d)
    /\ job[d].kind = "jar" /\ job[d].phase = "rollback"
         /\ job[d].pc \in {"err", "putFailed"} =>
           c.running /\ c.image = job[d].prev

RestoreInv == WatcherInv /\ ~stopping /\ \A d \in Deploys : Restoring(d)

LEMMA OnlyRestoring ==
    ASSUME WatcherInv, NEW d \in Deploys, Active(d), Restoring(d)',
           \A e \in Deploys \ {d} : job'[e] = job[e]
    PROVE  \A e \in Deploys : Restoring(e)'
  <1>1. ASSUME NEW e \in Deploys \ {d}
        PROVE  Restoring(e)'
    <2>1. ~Active(e) /\ job'[e] = job[e]
      BY DEF WatcherInv, Alone
    <2> QED
      BY <2>1 DEF Active, Finished, Restoring, At
  <1> QED
    BY <1>1

\* Nothing is claimed at the other locations.
LEMMA NothingClaimed ==
    ASSUME NEW d \in Deploys, NEW l, Moved(d, l),
           job'[d].phase = job[d].phase,
           l \notin {"runRemove", "create", "start", "discard", "putFailed"},
           l = "err" => job[d].phase = "new" \/ job[d].kind = "config"
    PROVE  Restoring(d)'
  BY DEF Moved, Restoring, At

\* A deploy that gives up its new container turns to the rollback, or fails
\* without one.
LEMMA TurnsBack ==
    ASSUME job \in [Deploys -> Jobs], NEW d \in Deploys, FailRollover(d),
           job[d].phase = "new"
    PROVE  Restoring(d)'
  <1>1. /\ job'[d].pc = IF RollsBack(d) THEN "find" ELSE "err"
        /\ job'[d].phase = IF RollsBack(d) THEN "rollback" ELSE "new"
    BY DEF FailRollover, Jobs
  <1> QED
    BY <1>1 DEF Restoring, At

LEMMA PipelineRestores ==
    ASSUME RestoreInv, Faultless, NEW d \in Deploys, PipelineStep(d)
    PROVE  Restoring(d)'
  <1> DEFINE t == job[d].server
  <1>1. /\ job \in [Deploys -> Jobs] /\ host \in [Servers -> Containers]
        /\ JobSound(job[d]) /\ Restoring(d)
    BY DEF RestoreInv, WatcherInv, Typed, TypeOK, PipeTypeOK, JobsSound
  <1>2. DockerOK(d) /\ ~DockerFails(d)
    BY DEF RestoreInv, Faultless, DockerOK, DockerFails, Cancelled
  <1>3. /\ job[d].pc \in Rolling => t \in Servers /\ host[t] \in Containers
        /\ job[d].pc \in Preflight \cup {"health"} => job[d].phase = "new"
        /\ job[d].pc = "config" => job[d].kind = "config"
        /\ job[d].phase \in {"new", "rollback"}
    BY <1>1 DEF JobSound, Rolling, Jobs
  <1>4. ASSUME NEW l, Goto(d, l)
        PROVE  Moved(d, l) /\ job'[d].phase = job[d].phase
    <2>1. job'[d].phase = job[d].phase
      BY <1>1, <1>4 DEF Goto, Jobs
    <2> QED
      BY <1>1, <1>4, <2>1, GotoMoves
  <1>5. ASSUME NEW id, NEW l, FoundThen(d, id, l)
        PROVE  /\ Moved(d, l) /\ job'[d].phase = job[d].phase
               /\ job'[d].found = id
    <2>1. job'[d].phase = job[d].phase /\ job'[d].found = id
      BY <1>1, <1>5 DEF FoundThen, Jobs
    <2> QED
      BY <1>1, <1>5, <2>1, FoundThenMoves
  <1> USE DEF At, Rolling, Preflight
  <1>6. CASE ObtainImage(d) \/ ObtainFails(d)
    BY <1>3, <1>4, <1>6, NothingClaimed DEF ObtainImage, ObtainFails
  <1>7. CASE CheckDrift(d)
    <2>1. Goto(d, "err") \/ Goto(d, "network")
      BY <1>7 DEF CheckDrift
    <2> QED
      BY <1>3, <1>4, <1>7, <2>1, NothingClaimed DEF CheckDrift
  <1>8. CASE EnsureNetwork(d)
    BY <1>3, <1>4, <1>8, NothingClaimed DEF EnsureNetwork
  <1>9. CASE FindOld(d)
    <2>1. \E id, l : FoundThen(d, id, l) /\ l \in {"stop", "runFind"}
      BY <1>9 DEF FindOld
    <2> QED
      BY <1>5, <2>1, NothingClaimed
  <1>10. CASE StopOld(d)
    BY <1>4, <1>10, NothingClaimed DEF StopOld
  <1>11. CASE RemoveOld(d)
    BY <1>5, <1>11, NothingClaimed DEF RemoveOld
  <1>12. CASE RunFind(d)
    <2>1. /\ FoundThen(d, host[t].id,
                       IF host[t].id = NoId THEN "create" ELSE "runRemove")
          /\ host' = host
      BY <1>2, <1>12 DEF RunFind, FindByName
    <2> QED
      BY <1>5, <2>1 DEF Restoring, Moved
  <1>13. CASE RunRemove(d)
    <2>1. host[t].id = job[d].found /\ t \in Servers
      BY <1>1, <1>3, <1>13 DEF RunRemove, Restoring
    <2>2. host' = Removed(t, job[d].found) /\ FoundThen(d, NoId, "create")
      BY <1>2, <1>13, <2>1 DEF RunRemove, FindByName
    <2>3. host'[t].id = NoId
      BY <1>1, <2>1, <2>2 DEF Removed, NoContainer
    <2> QED
      BY <1>5, <2>2, <2>3 DEF Restoring, Moved
  <1>14. CASE CreateContainer(d)
    <2>1. host[t].id = NoId /\ t \in Servers
      BY <1>1, <1>3, <1>14 DEF CreateContainer, Restoring
    <2>2. host' = WithCreated(t, d) /\ Goto(d, "start")
      BY <1>2, <1>14, <2>1 DEF CreateContainer, FindByName
    <2>3. host'[t].id = OwnId(d) /\ host'[t].image = Target(d)
      BY <1>1, <2>1, <2>2 DEF Created, WithCreated
    <2>4. OwnId(d)' = OwnId(d) /\ Target(d)' = Target(d)
      BY <1>4, <2>2 DEF OwnId, Target, Moved
    <2> QED
      BY <1>4, <2>2, <2>3, <2>4 DEF Restoring, Moved
  <1>15. CASE StartContainer(d)
    <2>1. /\ host[t].image = Target(d) /\ t \in Servers /\ host[t] \in Containers
          /\ host' = [host EXCEPT ![t].running = TRUE]
          /\ Goto(d, IF job[d].phase = "new" THEN "health" ELSE "err")
      BY <1>1, <1>3, <1>15 DEF StartContainer, Started, Restoring
    <2>2. host'[t].running /\ host'[t].image = Target(d)
      BY <1>1, <2>1 DEF Containers
    <2> QED
      BY <1>4, <2>1, <2>2 DEF Restoring, Moved, Target
  <1>16. CASE StartFails(d) \/ Discard(d)
    BY <1>1, <1>2, <1>16 DEF Discard, StartFails, Restoring, FindByName
  <1>17. CASE HealthPasses(d)
    BY <1>4, <1>17, NothingClaimed DEF HealthPasses
  <1>18. CASE HealthTimeout(d)
    BY <1>1, <1>3, <1>18, TurnsBack DEF HealthTimeout
  <1>19. CASE HealthCancelled(d)
    BY <1>3, <1>4, <1>19, NothingClaimed DEF HealthCancelled
  <1>20. CASE RunConfig(d)
    BY <1>3, <1>4, <1>20, NothingClaimed DEF RunConfig
  <1> QED
    BY <1>6, <1>7, <1>8, <1>9, <1>10, <1>11, <1>12, <1>13, <1>14, <1>15,
       <1>16, <1>17, <1>18, <1>19, <1>20 DEF PipelineStep

LEMMA MarkRestores ==
    ASSUME RestoreInv, NEW d \in Deploys,
           \/ MarkProgressing(d) \/ ReadPrevious(d)
           \/ MarkSynced(d) \/ MarkFailed(d)
    PROVE  Restoring(d)'
  <1>1. job \in [Deploys -> Jobs] /\ Restoring(d)
    BY DEF RestoreInv, WatcherInv, Typed, TypeOK, PipeTypeOK
  <1>2. host' = host
    BY DEF MarkProgressing, ReadPrevious, MarkSynced, MarkFailed, ReadRecord,
           WriteRecord
  <1>3. ASSUME NEW l, Goto(d, l)
        PROVE  Moved(d, l) /\ job'[d].phase = job[d].phase
    <2>1. job'[d].phase = job[d].phase
      BY <1>1, <1>3 DEF Goto, Jobs
    <2> QED
      BY <1>1, <1>3, <2>1, GotoMoves
  <1>4. CASE ReadPrevious(d)
    <2>1. job'[d].pc = "obtain"
      BY <1>1, <1>4 DEF ReadPrevious, Jobs
    <2> QED
      BY <2>1 DEF Restoring, At
  <1>5. CASE MarkProgressing(d)
    <2>1. \E l \in {"putProgressing", "readPrevious", "config"} : Goto(d, l)
      BY <1>5 DEF MarkProgressing, ReadRecord, WriteRecord
    <2> QED
      BY <1>3, <2>1, NothingClaimed
  <1>6. CASE MarkSynced(d)
    <2>1. \E l \in {"putSynced", "succeeded", "unsaved"} : Goto(d, l)
      BY <1>6 DEF MarkSynced, ReadRecord, WriteRecord
    <2> QED
      BY <1>3, <2>1, NothingClaimed
  <1>7. CASE MarkFailed(d)
    <2>1. \/ At(d, "err") /\ Goto(d, "putFailed")
          \/ Goto(d, "failed")
      BY <1>7 DEF MarkFailed, ReadRecord, WriteRecord
    <2>2. CASE Goto(d, "failed")
      BY <1>3, <2>2, NothingClaimed
    <2>3. CASE At(d, "err") /\ Goto(d, "putFailed")
      BY <1>1, <1>2, <1>3, <2>3 DEF Restoring, Moved, At
    <2> QED
      BY <2>1, <2>2, <2>3
  <1> QED
    BY <1>4, <1>5, <1>6, <1>7

LEMMA RestoreInductive ==
    ASSUME Triggers \subseteq {"git", "config"}, Faultless
    PROVE  RestoreInv /\ [Next]_vars => RestoreInv'
  <1> SUFFICES ASSUME RestoreInv, [Next]_vars
               PROVE  ~stopping' /\ \A e \in Deploys : Restoring(e)'
    BY WatcherInductive DEF RestoreInv
  <1>1. job \in [Deploys -> Jobs]
    BY DEF RestoreInv, WatcherInv, Typed, TypeOK, PipeTypeOK
  <1>2. ASSUME NEW d \in Deploys, Begin(d)
        PROVE  ~stopping' /\ \A e \in Deploys : Restoring(e)'
    <2>1. PICK j : Start(d, j) /\ j.pc = "markProgressing"
      BY <1>2, WatcherStarts
    <2>2. /\ \A e \in Deploys \ {d} : job'[e] = job[e]
          /\ job'[d].pc = "markProgressing"
          /\ host' = host /\ stopping' = stopping
      BY <1>1, <2>1 DEF Start
    <2>3. Restoring(d)'
      BY <2>2 DEF Restoring, At
    <2>4. \A e \in Deploys \ {d} : Restoring(e)'
      BY <2>2 DEF RestoreInv, Restoring, At, OwnId, Target
    <2> QED
      BY <2>2, <2>3, <2>4 DEF RestoreInv
  <1>3. ASSUME NEW d \in Deploys, DeployStep(d)
        PROVE  ~stopping' /\ \A e \in Deploys : Restoring(e)'
    <2>1. stopping' = stopping
      BY <1>3 DEF DeployStep, MarkProgressing, ReadPrevious, MarkSynced,
        MarkFailed, ReadRecord, WriteRecord, PipelineStep, ObtainImage,
        ObtainFails, CheckDrift, EnsureNetwork, FindOld, StopOld, RemoveOld,
        RunFind, RunRemove, CreateContainer, StartContainer, StartFails,
        Discard, HealthPasses, HealthTimeout, HealthCancelled, RunConfig
    <2>2. Active(d) /\ \A e \in Deploys \ {d} : job'[e] = job[e]
      BY <1>1, <1>3, StepIsActive DEF RestoreInv, WatcherInv
    <2>3. Restoring(d)'
      BY <1>3, PipelineRestores, MarkRestores DEF DeployStep
    <2> QED
      BY <2>1, <2>2, <2>3, OnlyRestoring DEF RestoreInv
  <1>4. ASSUME job' = job, host' = host
        PROVE  \A e \in Deploys : Restoring(e)'
    BY <1>4 DEF RestoreInv, Restoring, At, OwnId, Target
  <1>5. ASSUME NEW o \in Observers, ObserverStep(o)
        PROVE  ~stopping' /\ \A e \in Deploys : Restoring(e)'
    <2>1. job' = job /\ host' = host /\ stopping' = stopping
      BY <1>5 DEF ObserverStep, ReconcileBegin, ObserveGet, ObserveRunning,
                  ObservePut, pipeVars
    <2> QED
      BY <1>4, <2>1 DEF RestoreInv
  <1>6. ~Shutdown
    BY DEF Shutdown, Faultless
  <1>7. CASE Restart
    <2>1. ASSUME NEW e \in Deploys
          PROVE  ~Active(e)'
      <3>1. job'[e] = IF Active(e) THEN [job[e] EXCEPT !.pc = "lost"] ELSE job[e]
        BY <1>7 DEF Restart
      <3> QED
        BY <1>1, <3>1 DEF Active, Jobs, Finished
    <2> QED
      BY <1>7, <2>1 DEF Restart, Active, Finished, Restoring, At
  <1>8. CASE UNCHANGED vars
    BY <1>4, <1>8 DEF vars, pipeVars, RestoreInv
  <1> QED
    BY <1>2, <1>3, <1>5, <1>6, <1>7, <1>8 DEF Next

\* With no deploys but the watcher's, a rollback that met no fault ends with the
\* previous image running under the server's name: an error is only recorded
\* after the rollback's own container was started, however often the daemon
\* crashes and whatever saves fail.
THEOREM RollbackRestoresAlways ==
    ASSUME Triggers \subseteq {"git", "config"}, Faultless
    PROVE  Spec => []RollbackRestores
  <1>1. RestoreInv /\ [Next]_vars => RestoreInv'
    BY RestoreInductive
  <1>2. RestoreInv => RollbackRestores
    BY DEF RestoreInv, Restoring, RollbackRestores, GitDeploys
  <1>3. Init => RestoreInv
    <2> SUFFICES ASSUME Init PROVE RestoreInv
      OBVIOUS
    <2>1. ~stopping /\ \A d \in Deploys : job[d].pc = "unborn"
      BY DEF Init, PipeInit, Unborn
    <2> QED
      BY <2>1, WatcherInitially DEF RestoreInv, Restoring, At
  <1> QED
    BY <1>1, <1>2, <1>3, PTL DEF Spec
=============================================================================
