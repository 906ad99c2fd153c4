---------------------------- MODULE EngineProofs ----------------------------
(***************************************************************************)
(* What holds wherever the Docker Engine answers, with deploys started by  *)
(* anyone and interleaved in any way: a server that was ever up is up      *)
(* again when its deploys are over.                                        *)
(*                                                                         *)
(* The argument is about hands: whenever the server's container is down,   *)
(* some deploy has the server in its hands (AnswersFor) and lets go of it  *)
(* only by starting a container, or by losing it to another one that then  *)
(* has it.  A deploy that is cut off in between, by a failing call, by a   *)
(* crash or by a cancelled context, drops it: hence the provisos.          *)
(***************************************************************************)
EXTENDS ProvenanceProofs

\* What the theorem is about: Docker answers, no deploy dies with the process,
\* and a shutdown, if there is one, cancels the context of nobody.
DockerAnswers ==
    /\ "docker" \notin Faults /\ "crash" \notin Faults
    /\ "shutdown" \notin Faults \/ Triggers \cap {"git", "config"} = {}

Uncancelled ==
    IF "shutdown" \in Faults THEN \A d \in Deploys : ~job[d].git ELSE ~stopping

\* Deploy d has server s in its hands: the next thing it does to the name is
\* to give it a container, or to start the one that has it.
AnswersFor(s, d) ==
    /\ job[d].server = s
    /\ \/ host[s].id = NoId /\ job[d].pc \in {"runFind", "create"}
       \/ host[s].id = job[d].found /\ job[d].pc = "remove"
       \/ host[s].id = OwnId(d) /\ job[d].pc = "start"

Up(s) ==
    /\ host[s].id = NoId => ~host[s].running
    /\ ran[s] # {} =>
         host[s].running \/ \E d \in Deploys : AnswersFor(s, d)

\* A deploy that discards its container has lost it already.
Gone ==
    \A d \in Deploys :
        job[d].pc = "discard" => FindByName(job[d].server) # OwnId(d)

UpInv ==
    /\ Typed /\ OwnersSound /\ Uncancelled /\ Gone
    /\ \A s \in Servers : Up(s)

-----------------------------------------------------------------------------
\* No Docker call of a deploy fails for a reason of its own.
LEMMA NobodyFails ==
    ASSUME DockerAnswers, Uncancelled, NEW d \in Deploys
    PROVE  DockerOK(d) /\ ~DockerFails(d) /\ ~Cancelled(d)
  BY DEF DockerAnswers, Uncancelled, DockerOK, DockerFails, Cancelled

\* A step of deploy d can only disturb its own server, and no other deploy's
\* hold on it unless it changes the container.
LEMMA Elsewhere ==
    ASSUME UpInv, NEW d \in Deploys,
           \A e \in Deploys \ {d} : job'[e] = job[e],
           job'[d].server = job[d].server,
           \A s \in Servers \ {job[d].server} :
             host'[s] = host[s] /\ ran'[s] = ran[s],
           job[d].server \in Servers => Up(job[d].server)'
    PROVE  \A s \in Servers : Up(s)'
  <1> SUFFICES ASSUME NEW s \in Servers, s # job[d].server PROVE Up(s)'
    OBVIOUS
  <1>1. Up(s) /\ host'[s] = host[s] /\ ran'[s] = ran[s]
    BY DEF UpInv
  <1>2. \A e \in Deploys : AnswersFor(s, e) => AnswersFor(s, e)'
    BY <1>1 DEF AnswersFor, OwnId
  <1> QED
    BY <1>1, <1>2 DEF Up

LEMMA Untouched ==
    ASSUME UpInv, NEW d \in Deploys,
           \A e \in Deploys \ {d} : job'[e] = job[e],
           job'[d].server = job[d].server,
           host' = host, ran' = ran,
           AnswersFor(job[d].server, d) => AnswersFor(job[d].server, d)'
    PROVE  \A s \in Servers : Up(s)'
  <1> DEFINE t == job[d].server
  <1>1. ASSUME t \in Servers
        PROVE  Up(t)'
    <2>1. Up(t)
      BY <1>1 DEF UpInv
    <2>2. \A e \in Deploys : AnswersFor(t, e) => AnswersFor(t, e)'
      BY DEF AnswersFor, OwnId
    <2>3. host'[t] = host[t] /\ ran'[t] = ran[t]
      OBVIOUS
    <2> QED
      BY <2>1, <2>2, <2>3 DEF Up
  <1> QED
    BY <1>1, Elsewhere

\* A step after which the server's container runs, or d holds the server.
LEMMA InHand ==
    ASSUME UpInv, NEW d \in Deploys,
           \A e \in Deploys \ {d} : job'[e] = job[e],
           job'[d].server = job[d].server,
           \A s \in Servers \ {job[d].server} :
             host'[s] = host[s] /\ ran'[s] = ran[s],
           host'[job[d].server].id = NoId => ~host'[job[d].server].running,
           host'[job[d].server].running \/ AnswersFor(job[d].server, d)'
    PROVE  \A s \in Servers : Up(s)'
  BY Elsewhere DEF Up

\* Giving up a container that is not one's own leaves it to whoever has it.
LEMMA GivesUp ==
    ASSUME UpInv, NEW d \in Deploys, FailRollover(d), host' = host, ran' = ran,
           ~AnswersFor(job[d].server, d)
    PROVE  \A s \in Servers : Up(s)'
  <1>1. job \in [Deploys -> Jobs]
    BY DEF UpInv, Typed, TypeOK, PipeTypeOK
  <1>2. \E l \in {"find", "err"} : Moved(d, l)
    BY <1>1, FailRolloverMoves
  <1> QED
    BY <1>2, Untouched DEF Moved

LEMMA PipelineUp ==
    ASSUME UpInv, DockerAnswers, NEW d \in Deploys, PipelineStep(d)
    PROVE  \A s \in Servers : Up(s)'
  <1> DEFINE t == job[d].server
             Kept == \A s \in Servers : Up(s)'
  <1>1. /\ job \in [Deploys -> Jobs] /\ host \in [Servers -> Containers]
        /\ ran \in [Servers -> SUBSET Images] /\ JobSound(job[d])
    BY DEF UpInv, Typed, TypeOK, PipeTypeOK, JobsSound
  <1>2. DockerOK(d) /\ ~DockerFails(d) /\ ~Cancelled(d)
    BY NobodyFails DEF UpInv
  <1>3. job[d].pc \in Rolling => t \in Servers /\ host[t] \in Containers
    BY <1>1 DEF JobSound, Rolling
  <1>4. ASSUME NEW id, host' = Removed(t, id), ran' = ran, t \in Servers
        PROVE  /\ \A s \in Servers \ {t} : host'[s] = host[s] /\ ran'[s] = ran[s]
               /\ host[t].id = id => host'[t] = NoContainer
               /\ host[t].id # id => host' = host
    BY <1>1, <1>4 DEF Removed
  <1> HIDE DEF Kept
  <1> USE DEF At, Rolling
  <1>5. CASE \/ ObtainImage(d) \/ ObtainFails(d) \/ CheckDrift(d)
             \/ EnsureNetwork(d) \/ HealthPasses(d) \/ HealthCancelled(d)
             \/ RunConfig(d)
    <2>1. /\ \E l : Goto(d, l)
          /\ host' = host /\ ran' = ran /\ ~AnswersFor(t, d)
      BY <1>5 DEF ObtainImage, ObtainFails, CheckDrift, EnsureNetwork,
             HealthPasses, HealthCancelled, RunConfig, AnswersFor
    <2> QED
      BY <1>1, <2>1, GotoMoves, Untouched DEF Moved, Kept
  <1>6. CASE FindOld(d)
    <2>1. /\ \E id, l : FoundThen(d, id, l)
          /\ host' = host /\ ran' = ran /\ ~AnswersFor(t, d)
      BY <1>6 DEF FindOld, AnswersFor
    <2> QED
      BY <1>1, <2>1, FoundThenMoves, Untouched DEF Moved, Kept
  <1>7. CASE StopOld(d)
    <2>1. /\ host' = Stopped(t, job[d].found) /\ Goto(d, "remove") /\ ran' = ran
          /\ t \in Servers /\ host[t] \in Containers
      BY <1>2, <1>3, <1>7 DEF StopOld
    <2>2. /\ Moved(d, "remove")
          /\ job'[d].found = job[d].found
      <3>1. Moved(d, "remove")
        BY <1>1, <2>1, GotoMoves
      <3>2. job'[d].found = job[d].found
        BY <1>1, <2>1 DEF Goto, Jobs
      <3> QED
        BY <3>1, <3>2
    <2>3. CASE host[t].id = job[d].found
      <3> DEFINE c == [host[t] EXCEPT !.running = FALSE]
      <3>1. c.id = host[t].id /\ c.running = FALSE
        BY <2>1 DEF Containers
      <3>2. \A s \in Servers : host'[s] = IF s = t THEN c ELSE host[s]
        BY <1>1, <2>1, <2>3 DEF Stopped
      <3> HIDE DEF c
      <3>3. AnswersFor(t, d)'
        BY <2>1, <2>2, <2>3, <3>1, <3>2 DEF AnswersFor, Moved
      <3> QED
        BY <2>1, <2>2, <3>1, <3>2, <3>3, InHand DEF Moved, Kept
    <2>4. CASE host[t].id # job[d].found
      <3>1. host' = host
        <4>1. [host[t] EXCEPT !.running = @ /\ host[t].id # job[d].found]
                = host[t]
          BY <2>1, <2>4 DEF Containers
        <4> QED
          BY <1>1, <2>1, <4>1 DEF Stopped
      <3> QED
        BY <1>7, <2>1, <2>2, <3>1, Untouched DEF StopOld, AnswersFor, Moved, Kept
    <2> QED
      BY <2>3, <2>4
  <1>8. CASE RemoveOld(d)
    <2>1. /\ host' = Removed(t, job[d].found) /\ FoundThen(d, NoId, "runFind")
          /\ ran' = ran /\ t \in Servers
      BY <1>2, <1>3, <1>8 DEF RemoveOld
    <2>2. Moved(d, "runFind")
      BY <1>1, <2>1, FoundThenMoves
    <2>3. CASE host[t].id = job[d].found
      <3>1. /\ host'[t] = NoContainer
            /\ \A s \in Servers \ {t} : host'[s] = host[s] /\ ran'[s] = ran[s]
        BY <1>4, <2>1, <2>3
      <3>2. AnswersFor(t, d)'
        BY <2>2, <3>1 DEF AnswersFor, Moved, NoContainer
      <3> QED
        BY <2>2, <3>1, <3>2, InHand DEF Moved, NoContainer, Kept
    <2>4. CASE host[t].id # job[d].found
      <3>1. host' = host /\ ~AnswersFor(t, d)
        BY <1>4, <1>8, <2>1, <2>4 DEF RemoveOld, AnswersFor
      <3> QED
        BY <2>1, <2>2, <3>1, Untouched DEF Moved, Kept
    <2> QED
      BY <2>3, <2>4
  <1>9. CASE RunFind(d)
    <2>1. /\ FoundThen(d, host[t].id,
                       IF host[t].id = NoId THEN "create" ELSE "runRemove")
          /\ host' = host /\ ran' = ran
      BY <1>2, <1>9 DEF RunFind, FindByName
    <2>2. Moved(d, IF host[t].id = NoId THEN "create" ELSE "runRemove")
      BY <1>1, <2>1, FoundThenMoves
    <2>3. AnswersFor(t, d) => AnswersFor(t, d)'
      BY <1>9, <2>1, <2>2 DEF RunFind, AnswersFor, Moved
    <2> QED
      BY <2>1, <2>2, <2>3, Untouched DEF Moved, Kept
  <1>10. CASE RunRemove(d)
    <2>1. ran' = ran /\ t \in Servers /\ ~AnswersFor(t, d)
      BY <1>3, <1>10 DEF RunRemove, AnswersFor
    <2>2. CASE /\ FindByName(t) = job[d].found
               /\ host' = Removed(t, job[d].found)
               /\ FoundThen(d, NoId, "create")
      <3>1. /\ host'[t] = NoContainer /\ Moved(d, "create")
            /\ \A s \in Servers \ {t} : host'[s] = host[s] /\ ran'[s] = ran[s]
        BY <1>1, <1>4, <2>1, <2>2, FoundThenMoves DEF FindByName
      <3>2. AnswersFor(t, d)'
        BY <3>1 DEF AnswersFor, Moved, NoContainer
      <3> QED
        BY <3>1, <3>2, InHand DEF Moved, NoContainer, Kept
    <2>3. CASE FailRollover(d) /\ host' = host
      BY <2>1, <2>3, GivesUp DEF Kept
    <2> QED
      BY <1>2, <1>10, <2>2, <2>3 DEF RunRemove, MayHappen
  <1>11. CASE CreateContainer(d)
    <2>1. ran' = ran /\ t \in Servers /\ job[d].pc = "create"
      BY <1>3, <1>11 DEF CreateContainer
    <2>2. CASE /\ FindByName(t) = NoId /\ host' = WithCreated(t, d)
               /\ Goto(d, "start")
      <3>1. /\ host'[t] = Created(d) /\ Moved(d, "start")
            /\ job'[d].phase = job[d].phase
            /\ \A s \in Servers \ {t} : host'[s] = host[s] /\ ran'[s] = ran[s]
        BY <1>1, <2>1, <2>2, GotoMoves DEF Goto, Jobs, WithCreated, FindByName
      <3>2. AnswersFor(t, d)' /\ ~host'[t].running
        BY <3>1 DEF AnswersFor, Moved, Created, OwnId
      <3> QED
        BY <3>1, <3>2, InHand DEF Moved, Kept
    <2>3. CASE FailRollover(d) /\ host' = host /\ FindByName(t) # NoId
      BY <2>1, <2>3, GivesUp DEF AnswersFor, FindByName, Kept
    <2> QED
      BY <1>2, <1>11, <2>2, <2>3 DEF CreateContainer, MayHappen
  <1>12. CASE StartContainer(d)
    <2>1. /\ t \in Servers /\ host[t] \in Containers /\ host[t].id = OwnId(d)
          /\ \E l : Goto(d, l)
          /\ host' = [host EXCEPT ![t].running = TRUE]
          /\ ran' = [ran EXCEPT ![t] = @ \cup {Target(d)}]
      BY <1>3, <1>12 DEF StartContainer, Started, FindByName
    <2>2. job[d].phase \in {"new", "rollback"}
      BY <1>1 DEF Jobs
    <2>3. host'[t].running /\ host'[t].id # NoId
      BY <1>1, <2>1, <2>2 DEF Containers, OwnId, NoId
    <2>4. \A s \in Servers \ {t} : host'[s] = host[s] /\ ran'[s] = ran[s]
      BY <1>1, <2>1
    <2> QED
      BY <1>1, <2>1, <2>3, <2>4, GotoMoves, InHand DEF Moved, Kept
  <1>13. CASE StartFails(d)
    <2>1. /\ host[t].id # OwnId(d) /\ host' = host /\ ran' = ran
          /\ Goto(d, "discard") /\ ~AnswersFor(t, d)
      BY <1>2, <1>13 DEF StartFails, FindByName, AnswersFor
    <2> QED
      BY <1>1, <2>1, GotoMoves, Untouched DEF Moved, Kept
  <1>14. CASE Discard(d)
    <2>1. /\ host[t].id # OwnId(d) /\ host' = Removed(t, OwnId(d))
          /\ FailRollover(d) /\ ran' = ran /\ t \in Servers
      BY <1>2, <1>3, <1>14 DEF Discard, FindByName, UpInv, Gone
    <2>2. host' = host /\ ~AnswersFor(t, d)
      BY <1>4, <1>14, <2>1 DEF Discard, AnswersFor
    <2> QED
      BY <2>1, <2>2, GivesUp DEF Kept
  <1>15. CASE HealthTimeout(d)
    BY <1>15, GivesUp DEF HealthTimeout, AnswersFor, Kept
  <1> QED
    BY <1>5, <1>6, <1>7, <1>8, <1>9, <1>10, <1>11, <1>12, <1>13, <1>14,
       <1>15
    DEF PipelineStep, Kept

-----------------------------------------------------------------------------
\* Who starts a deploy: the consumer if and only if the job is the watcher's.
LEMMA BeginUp ==
    ASSUME UpInv, DockerAnswers, NEW d \in Deploys, Begin(d)
    PROVE  Uncancelled' /\ \A s \in Servers : Up(s)'
  <1>1. job \in [Deploys -> Jobs]
    BY DEF UpInv, Typed, TypeOK, PipeTypeOK
  <1>2. PICK j :
          /\ Start(d, j)
          /\ j.git => Triggers \cap {"git", "config"} # {}
    <2>1. PICK s \in Servers :
            \/ GitConfig(d, s)
            \/ \E i \in Images :
                 \/ GitDeploy(d, s, i)
                 \/ ManualSync(d, s, i)
                 \/ \E strict, mismatch \in BOOLEAN :
                      JenkinsSync(d, s, i, strict, mismatch)
      BY DEF Begin
    <2>2. ASSUME NEW i \in Images, NEW strict \in BOOLEAN, NEW mismatch \in BOOLEAN
          PROVE  /\ ~NewJob(s, i).git
                 /\ ~[NewJob(s, i) EXCEPT !.prebuilt = TRUE, !.strict = strict,
                                          !.mismatch = mismatch].git
      BY DEF NewJob, Unborn
    <2> QED
      BY <2>1, <2>2 DEF GitConfig, GitDeploy, ManualSync, JenkinsSync
  <1>3. /\ job[d].pc = "unborn" /\ job'[d] = j
        /\ \A e \in Deploys \ {d} : job'[e] = job[e]
        /\ host' = host /\ ran' = ran /\ stopping' = stopping
    BY <1>1, <1>2 DEF Start, At
  <1>4. Uncancelled'
    BY <1>2, <1>3 DEF Uncancelled, UpInv, DockerAnswers
  <1>5. \A s \in Servers, e \in Deploys : AnswersFor(s, e) => AnswersFor(s, e)'
    BY <1>3 DEF AnswersFor, OwnId
  <1>6. \A s \in Servers : Up(s)'
    BY <1>3, <1>5 DEF Up, UpInv
  <1> QED
    BY <1>4, <1>6

\* The record keeping holds no server and lets none go.
LEMMA MarkUp ==
    ASSUME UpInv, NEW d \in Deploys,
           \/ MarkProgressing(d) \/ ReadPrevious(d)
           \/ MarkSynced(d) \/ MarkFailed(d)
    PROVE  /\ \A s \in Servers : Up(s)'
           /\ \A e \in Deploys : job'[e].git = job[e].git
           /\ stopping' = stopping
  <1>1. job \in [Deploys -> Jobs]
    BY DEF UpInv, Typed, TypeOK, PipeTypeOK
  <1>2. /\ host' = host /\ ran' = ran /\ stopping' = stopping
        /\ ~AnswersFor(job[d].server, d)
    BY DEF MarkProgressing, ReadPrevious, MarkSynced, MarkFailed, ReadRecord,
           WriteRecord, AnswersFor, At
  <1>3. /\ \A e \in Deploys \ {d} : job'[e] = job[e]
        /\ job'[d].server = job[d].server /\ job'[d].git = job[d].git
    <2>1. ReadPrevious(d) \/ \E l : Goto(d, l)
      BY DEF MarkProgressing, MarkSynced, MarkFailed, ReadRecord, WriteRecord
    <2> QED
      BY <1>1, <2>1 DEF ReadPrevious, Goto, Jobs
  <1> QED
    BY <1>2, <1>3, Untouched

\* Who asked for a deploy never changes, and a pipeline does not shut down.
LEMMA PipelineKeepsGit ==
    ASSUME Typed, NEW d \in Deploys, PipelineStep(d)
    PROVE  (\A e \in Deploys : job'[e].git = job[e].git) /\ stopping' = stopping
  <1>1. job \in [Deploys -> Jobs]
    BY DEF Typed, TypeOK, PipeTypeOK
  <1>2. stopping' = stopping
    BY DEF PipelineStep, ObtainImage, ObtainFails, CheckDrift, EnsureNetwork,
           FindOld, StopOld, RemoveOld, RunFind, RunRemove, CreateContainer,
           StartContainer, StartFails, Discard, HealthPasses,
           HealthTimeout, HealthCancelled, RunConfig
  <1>3. \/ \E l : Goto(d, l)
        \/ \E id, l : FoundThen(d, id, l)
        \/ FailRollover(d)
    BY DEF PipelineStep, ObtainImage, ObtainFails, CheckDrift, EnsureNetwork,
           FindOld, StopOld, RemoveOld, RunFind, RunRemove, CreateContainer,
           StartContainer, StartFails, Discard, HealthPasses,
           HealthTimeout, HealthCancelled, RunConfig
  <1>4. ASSUME NEW l, Goto(d, l)
        PROVE  \A e \in Deploys : job'[e].git = job[e].git
    BY <1>1, <1>4 DEF Goto, Jobs
  <1>5. ASSUME NEW l, NEW id, FoundThen(d, id, l)
        PROVE  \A e \in Deploys : job'[e].git = job[e].git
    BY <1>1, <1>5 DEF FoundThen, Jobs
  <1>6. ASSUME FailRollover(d)
        PROVE  \A e \in Deploys : job'[e].git = job[e].git
    BY <1>1, <1>6 DEF FailRollover, Jobs
  <1> QED
    BY <1>2, <1>3, <1>4, <1>5, <1>6

\* A deploy begins to discard by finding that its container is another's, and
\* nobody makes it a container of its id again.
LEMMA GoneInductive ==
    ASSUME DockerAnswers, UpInv, [Next]_vars
    PROVE  Gone'
  <1> SUFFICES ASSUME NEW d \in Deploys, job'[d].pc = "discard"
               PROVE  host'[job'[d].server].id # OwnId(d)'
    BY DEF Gone, FindByName
  <1> DEFINE Same == job'[d] = job[d]
  <1>1. /\ job \in [Deploys -> Jobs] /\ \A s \in Servers : ContainerKept(s)
        /\ ~DockerFails(d) /\ JobSound(job[d])
    BY NextEvolves, NobodyFails
    DEF UpInv, Evolves, Typed, TypeOK, PipeTypeOK, JobsSound
  <1>2. Same \/ StartFails(d)
    <2>1. ASSUME NEW e \in Deploys, NEW l, Goto(e, l), l # "discard"
          PROVE  Same
      BY <1>1, <2>1, GotoMoves DEF Moved
    <2>2. ASSUME NEW e \in Deploys, Begin(e)
          PROVE  Same
      <3>1. PICK s \in Servers :
              \/ GitConfig(e, s)
              \/ \E i \in Images :
                   \/ GitDeploy(e, s, i)
                   \/ ManualSync(e, s, i)
                   \/ \E strict, mismatch \in BOOLEAN :
                        JenkinsSync(e, s, i, strict, mismatch)
        BY <2>2 DEF Begin
      <3>2. \A i \in Images \cup {NoImage}, strict, mismatch \in BOOLEAN :
              /\ [NewJob(s, i) EXCEPT !.git = TRUE].pc = "markProgressing"
              /\ [NewJob(s, i) EXCEPT !.git = TRUE, !.kind = "config"].pc
                   = "markProgressing"
              /\ NewJob(s, i).pc = "markProgressing"
              /\ [NewJob(s, i) EXCEPT !.prebuilt = TRUE, !.strict = strict,
                                       !.mismatch = mismatch].pc = "markProgressing"
        BY DEF NewJob, Unborn
      <3>3. PICK j : Start(e, j) /\ j.pc = "markProgressing"
        BY <3>1, <3>2 DEF GitConfig, GitDeploy, ManualSync, JenkinsSync
      <3> QED
        BY <1>1, <3>3 DEF Start
    <2>3. ASSUME NEW e \in Deploys, PipelineStep(e)
          PROVE  Same \/ StartFails(d)
      <3>1. PICK l : Moved(e, l) /\ (l = "discard" => StartFails(e))
        BY <2>3, PipelineMoves DEF UpInv
      <3> QED
        BY <3>1 DEF Moved
    <2>4. ASSUME NEW e \in Deploys,
                 MarkProgressing(e) \/ MarkSynced(e) \/ MarkFailed(e)
          PROVE  Same
      <3>1. \E l : Goto(e, l) /\ l # "discard"
        BY <2>4 DEF MarkProgressing, MarkSynced, MarkFailed, ReadRecord, WriteRecord
      <3> QED
        BY <2>1, <3>1
    <2>5. ASSUME NEW e \in Deploys, ReadPrevious(e)
          PROVE  Same
      BY <1>1, <2>5 DEF ReadPrevious, Jobs
    <2>6. CASE job' = job
      BY <2>6
    <2>7. ASSUME NEW o \in Observers, ObserverStep(o)
          PROVE  job' = job
      BY <2>7 DEF ObserverStep, ReconcileBegin, ObserveGet, ObserveRunning,
                  ObservePut, pipeVars
    <2>8. Shutdown \/ UNCHANGED vars => job' = job
      BY DEF Shutdown, vars, pipeVars
    <2>9. ~Restart
      BY DEF Restart, DockerAnswers
    <2> QED
      BY <2>2, <2>3, <2>4, <2>5, <2>6, <2>7, <2>8, <2>9 DEF Next, DeployStep
  <1>3. /\ job'[d].server = job[d].server /\ OwnId(d)' = OwnId(d)
        /\ job[d].pc \in {"start", "discard"} /\ job[d].server \in Servers
        /\ host[job[d].server].id # OwnId(d)
    <2>1. CASE Same
      BY <1>1, <2>1 DEF OwnId, UpInv, Gone, FindByName, JobSound, Rolling
    <2>2. CASE StartFails(d)
      BY <1>1, <2>2 DEF StartFails, At, Goto, Jobs, OwnId, FindByName, JobSound,
                        Rolling
    <2> QED
      BY <1>2, <2>1, <2>2
  <1>4. ContainerKept(job[d].server)
    BY <1>1, <1>3
  <1>5. \A e \in Deploys : CreatedFor(job[d].server, e) =>
                              host'[job[d].server].id # OwnId(d)
    BY <1>3 DEF CreatedFor, Created, OwnId
  <1>6. OwnId(d) # NoContainer.id
    BY <1>1 DEF OwnId, NoContainer, NoId, Jobs
  <1> QED
    BY <1>3, <1>4, <1>5, <1>6 DEF ContainerKept

LEMMA UpInductive ==
    ASSUME DockerAnswers
    PROVE  UpInv /\ [Next]_vars => UpInv'
  <1> DEFINE Kept == Uncancelled' /\ \A s \in Servers : Up(s)'
  <1> SUFFICES ASSUME UpInv, [Next]_vars PROVE Kept
    BY TypedInductive, OwnersInductive, GoneInductive DEF UpInv
  <1>1. ASSUME NEW d \in Deploys, Begin(d)
        PROVE  Kept
    BY <1>1, BeginUp
  <1>2. ASSUME \A e \in Deploys : job'[e].git = job[e].git, stopping' = stopping
        PROVE  Uncancelled'
    BY <1>2 DEF Uncancelled, UpInv
  <1>3. ASSUME NEW d \in Deploys, DeployStep(d)
        PROVE  Kept
    BY <1>2, <1>3, PipelineUp, PipelineKeepsGit, MarkUp DEF DeployStep, UpInv
  <1>4. ASSUME job' = job, host' = host, ran' = ran
        PROVE  \A s \in Servers : Up(s)'
    BY <1>4 DEF UpInv, Up, AnswersFor, OwnId
  <1>5. ASSUME NEW o \in Observers, ObserverStep(o)
        PROVE  Kept
    BY <1>2, <1>4, <1>5 DEF ObserverStep, ReconcileBegin, ObserveGet,
                            ObserveRunning, ObservePut, pipeVars
  <1>6. CASE Shutdown
    BY <1>4, <1>6 DEF Shutdown, Uncancelled, UpInv
  <1>7. ~Restart
    BY DEF Restart, DockerAnswers
  <1>8. CASE UNCHANGED vars
    BY <1>2, <1>4, <1>8 DEF vars, pipeVars
  <1> QED
    BY <1>1, <1>3, <1>5, <1>6, <1>7, <1>8 DEF Next

LEMMA UpInitially == Init => UpInv
  <1> SUFFICES ASSUME Init PROVE UpInv
    OBVIOUS
  <1>1. Uncancelled
    BY DEF Init, PipeInit, Uncancelled, Unborn
  <1>2. ASSUME NEW s \in Servers
        PROVE  Up(s)
    <2>1. host[s] = NoContainer \/ \E i \in Images : host[s] = Original(i)
      BY DEF Init, PipeInit
    <2>2. ran[s] = {host[s].image} \ {NoImage}
      BY DEF Init, PipeInit
    <2>3. CASE host[s] = NoContainer
      BY <2>2, <2>3 DEF Up, NoContainer
    <2>4. CASE \E i \in Images : host[s] = Original(i)
      <3>1. host[s].running /\ host[s].id = OriginalId
        BY <2>4 DEF Original
      <3>2. OriginalId # NoId
        BY DEF OriginalId, NoId
      <3> QED
        BY <3>1, <3>2 DEF Up
    <2> QED
      BY <2>1, <2>3, <2>4
  <1>3. OwnersSound /\ Gone
    BY InvInitially DEF Inv, Gone, Init, PipeInit, Unborn
  <1> QED
    BY <1>1, <1>2, <1>3, TypedInitially DEF UpInv

\* Wherever Docker answers and nobody's deploy is cut off, a server that was
\* ever up is up again when the deploys of it are over, for any number of them,
\* started by anyone and interleaved in any way.
THEOREM QuietServerUpAlways ==
    ASSUME DockerAnswers
    PROVE  Spec => []QuietServerUp
  <1>1. UpInv /\ [Next]_vars => UpInv'
    BY UpInductive
  <1>2. UpInv => QuietServerUp
    <2>1. \A s \in Servers, d \in Deploys : AnswersFor(s, d) => ~Quiet(s)
      BY DEF AnswersFor, Quiet, Active, Finished
    <2> QED
      BY <2>1 DEF UpInv, Up, QuietServerUp
  <1> QED
    BY <1>1, <1>2, UpInitially, PTL DEF Spec
=============================================================================
