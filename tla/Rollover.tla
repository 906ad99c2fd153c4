------------------------------ MODULE Rollover ------------------------------
(***************************************************************************)
(* internal/pipeline/jar.go over internal/docker: the rollover of one      *)
(* server's container to a new image, and the rollback to the image that   *)
(* was current before.                                                     *)
(*                                                                         *)
(* A deploy is one goroutine inside Runner.RunJAR.  Every call it makes to *)
(* the Docker Engine is a step of its own, because that is where other     *)
(* deploys and the observer get in between.  The module has the steps      *)
(* only; Reconciler.tla starts deploys, records their results and composes *)
(* them with the state store and the observers.                            *)
(***************************************************************************)
EXTENDS Naturals, FiniteSets

CONSTANTS
    Servers,    \* names of the manifest's gameplay servers
    Ported,     \* those whose spec.Port is set
    Images,     \* image references ("mc-lobby:abc1234")
    LocalTags,  \* server -> the references imageTag can give its builds
    Deploys,    \* one element per goroutine that ever runs a pipeline
    Faults,     \* the faults a run explores
    NoServer, NoImage, NoDeploy

ASSUME NoneAssumption ==
    /\ NoServer \notin Servers
    /\ NoImage \notin Images
    /\ NoDeploy \notin Deploys
ASSUME PortAssumption == Ported \subseteq Servers
ASSUME TagAssumption == LocalTags \in [Servers -> SUBSET Images]
ASSUME FaultAssumption ==
    Faults \subseteq {"docker", "save", "shutdown", "crash", "detach"}

VARIABLES
    job,       \* deploy -> program counter and local variables
    host,      \* server -> the container that has its name, if any
    content,   \* image -> which build the reference names on this host
    stopping,  \* the context of main.go is cancelled (SIGTERM)
    ran,       \* history: server -> images a container of it was started with
    healthy    \* history: server -> image and build pairs that passed a dial

pipeVars == <<job, host, content, stopping, ran, healthy>>

-----------------------------------------------------------------------------
(* The Docker Engine: at most one container has a name, and an id that was *)
(* found earlier may no longer be the one that has it.                     *)

Builds == Deploys \cup {NoDeploy}

Ids == [by : Deploys \cup {NoDeploy},
        phase : {"none", "original", "new", "rollback"}]
NoId == [by |-> NoDeploy, phase |-> "none"]
OriginalId == [by |-> NoDeploy, phase |-> "original"]

Containers == [id : Ids, image : Images \cup {NoImage}, build : Builds,
               running : BOOLEAN]
NoContainer == [id |-> NoId, image |-> NoImage, build |-> NoDeploy,
                running |-> FALSE]

FindByName(s) == host[s].id

\* Mutant of Removed: the container is addressed by its name.
RemovedByName(s, id) == [host EXCEPT ![s] = NoContainer]

\* Stop and Remove act on an id: one that no longer has the name is not found.
Stopped(s, id) ==
    [host EXCEPT ![s].running = @ /\ host[s].id # id]
Removed(s, id) ==
    [host EXCEPT ![s] = IF host[s].id = id THEN NoContainer ELSE @]

-----------------------------------------------------------------------------
(* A deploy: what it was asked for, and the local variables of the code.   *)

Preflight == {"obtain", "drift", "network"}
Rolling == {"find", "stop", "remove", "runFind", "runRemove", "create",
            "start", "discard", "health"}
Returned == {"ok", "err"}
Marking == {"markProgressing", "putProgressing", "readPrevious",
            "putSynced", "putFailed"}
Finished == {"succeeded", "unsaved", "failed", "lost"}
Locations == {"unborn", "config"} \cup Preflight \cup Rolling \cup Returned
                \cup Marking \cup Finished

Jobs == [pc       : Locations,
         kind     : {"jar", "config"},
         git      : BOOLEAN,               \* run by the watcher's consumer
         server   : Servers \cup {NoServer},
         image    : Images \cup {NoImage}, \* tag; NoImage in runConfig
         prebuilt : BOOLEAN,               \* in.PrebuiltImage is set
         strict   : BOOLEAN,               \* in.Strict
         mismatch : BOOLEAN,   \* the image's labels disagree with the spec
         prev     : Images \cup {NoImage}, \* in.PreviousImg
         phase    : {"new", "rollback"},
         found    : Ids]                   \* oldID, id, existing

Unborn == [pc |-> "unborn", kind |-> "jar", git |-> FALSE,
           server |-> NoServer, image |-> NoImage, prebuilt |-> FALSE,
           strict |-> FALSE, mismatch |-> FALSE, prev |-> NoImage,
           phase |-> "new", found |-> NoId]

Active(d) == job[d].pc \notin Finished \cup {"unborn"}

At(d, l) == job[d].pc = l
Goto(d, l) == job' = [job EXCEPT ![d].pc = l]
FoundThen(d, id, l) == job' = [job EXCEPT ![d].found = id, ![d].pc = l]

\* Only the consumer of the watcher's events runs under the cancelled context:
\* the HTTP handlers use context.Background().
Cancelled(d) == stopping /\ job[d].git
DockerOK(d) == ~Cancelled(d)
DockerFails(d) == Cancelled(d) \/ "docker" \in Faults

\* The Engine may carry out a call whose answer never comes: h is the host then.
MayHappen(d, h) ==
    \/ UNCHANGED host
    \/ DockerFails(d) /\ host' = h

\* Mutant of Target: rollback starts the new image once more.
TargetAlwaysNew(d) == job[d].image

\* The image of the container being created: the new one, then in.PreviousImg.
Target(d) == IF job[d].phase = "new" THEN job[d].image ELSE job[d].prev
OwnId(d) == [by |-> d, phase |-> job[d].phase]

\* Mutant of FailRollover: rollback does not clear the name first.
FailRolloverInPlace(d) ==
    job' = [job EXCEPT
              ![d].pc = IF job[d].phase = "new" /\ job[d].prev # NoImage
                        THEN "create" ELSE "err",
              ![d].phase = "rollback"]

\* Mutant of RollsBack: an error in a rollback is answered by another one.
RollsBackAgain(d) == job[d].prev # NoImage

\* rollback: it is skipped when no previous image is recorded, and an error of
\* its own is only logged.
RollsBack(d) == job[d].phase = "new" /\ job[d].prev # NoImage
FailRollover(d) ==
    job' = [job EXCEPT ![d].pc = IF RollsBack(d) THEN "find" ELSE "err",
                       ![d].phase = IF RollsBack(d) THEN "rollback" ELSE @,
                       ![d].found = NoId]

-----------------------------------------------------------------------------
(* Stages 1 to 3 of RunJAR: nothing here touches the running container.    *)

\* A local build moves its tag to the new build; EnsureImage moves nothing.
ObtainedContent(d) ==
    IF job[d].prebuilt THEN content ELSE [content EXCEPT ![job[d].image] = d]

ObtainImage(d) ==
    /\ At(d, "obtain")
    /\ DockerOK(d)
    /\ content' = ObtainedContent(d)
    /\ Goto(d, "drift")
    /\ UNCHANGED <<host, stopping, ran, healthy>>

\* The resolver, the build or the pull fails, or the end of a build is not told.
ObtainFails(d) ==
    /\ At(d, "obtain")
    /\ \/ UNCHANGED content
       \/ DockerFails(d) /\ content' = ObtainedContent(d)
    /\ Goto(d, "err")
    /\ UNCHANGED <<host, stopping, ran, healthy>>

\* computeDrift: an inspection that fails finds no drift.
DriftFound(d, inspected) == inspected /\ job[d].mismatch

Rejected(d, inspected) == DriftFound(d, inspected) /\ job[d].strict

CheckDrift(d) ==
    /\ At(d, "drift")
    /\ \E inspected \in BOOLEAN :
        /\ IF inspected THEN DockerOK(d) ELSE DockerFails(d)
        /\ Goto(d, IF Rejected(d, inspected) THEN "err" ELSE "network")
    /\ UNCHANGED <<host, content, stopping, ran, healthy>>

EnsureNetwork(d) ==
    /\ At(d, "network")
    /\ \/ DockerOK(d) /\ Goto(d, "find")
       \/ DockerFails(d) /\ Goto(d, "err")
    /\ UNCHANGED <<host, content, stopping, ran, healthy>>

-----------------------------------------------------------------------------
(* Stage 4 and the head of rollback: find, stop and remove the container   *)
(* that has the name.  Every error is ignored.                             *)

FindOld(d) ==
    /\ At(d, "find")
    /\ \/ /\ DockerOK(d)
          /\ LET id == FindByName(job[d].server)
             IN  FoundThen(d, id, IF id = NoId THEN "runFind" ELSE "stop")
       \/ DockerFails(d) /\ FoundThen(d, NoId, "runFind")
    /\ UNCHANGED <<host, content, stopping, ran, healthy>>

StopOld(d) ==
    /\ At(d, "stop")
    /\ \/ host' = Stopped(job[d].server, job[d].found)
       \/ DockerFails(d) /\ UNCHANGED host
    /\ Goto(d, "remove")
    /\ UNCHANGED <<content, stopping, ran, healthy>>

RemoveOld(d) ==
    /\ At(d, "remove")
    /\ \/ host' = Removed(job[d].server, job[d].found)
       \/ DockerFails(d) /\ UNCHANGED host
    /\ FoundThen(d, NoId, "runFind")
    /\ UNCHANGED <<content, stopping, ran, healthy>>

-----------------------------------------------------------------------------
(* docker.Client.Run, for the new container and for the rollback.          *)

RunFind(d) ==
    /\ At(d, "runFind")
    /\ \/ /\ DockerOK(d)
          /\ LET id == FindByName(job[d].server)
             IN  FoundThen(d, id, IF id = NoId THEN "create" ELSE "runRemove")
       \/ DockerFails(d) /\ FailRollover(d)
    /\ UNCHANGED <<host, content, stopping, ran, healthy>>

\* Someone else may have removed the container since RunFind: that is an error.
RunRemove(d) ==
    /\ At(d, "runRemove")
    /\ \/ /\ DockerOK(d)
          /\ FindByName(job[d].server) = job[d].found
          /\ host' = Removed(job[d].server, job[d].found)
          /\ FoundThen(d, NoId, "create")
       \/ /\ DockerFails(d) \/ FindByName(job[d].server) # job[d].found
          /\ FailRollover(d)
          /\ MayHappen(d, Removed(job[d].server, job[d].found))
    /\ UNCHANGED <<content, stopping, ran, healthy>>

Created(d) == [id |-> OwnId(d), image |-> Target(d),
               build |-> content[Target(d)], running |-> FALSE]

\* The Engine refuses a second container of the same name.
WithCreated(s, d) ==
    [host EXCEPT ![s] = IF host[s].id = NoId THEN Created(d) ELSE @]

CreateContainer(d) ==
    /\ At(d, "create")
    /\ LET s == job[d].server IN
       \/ /\ DockerOK(d)
          /\ FindByName(s) = NoId
          /\ host' = WithCreated(s, d)
          /\ Goto(d, "start")
       \/ /\ DockerFails(d) \/ FindByName(s) # NoId
          /\ FailRollover(d)
          /\ MayHappen(d, WithCreated(s, d))
    /\ UNCHANGED <<content, stopping, ran, healthy>>

\* ContainerStart acts on the id that ContainerCreate returned.
Started(d) ==
    LET s == job[d].server IN
    /\ FindByName(s) = OwnId(d)
    /\ host' = [host EXCEPT ![s].running = TRUE]
    /\ ran' = [ran EXCEPT ![s] = @ \cup {Target(d)}]

\* A rollback ends here: its container is not health-checked.
StartContainer(d) ==
    /\ At(d, "start")
    /\ DockerOK(d)
    /\ Started(d)
    /\ Goto(d, IF job[d].phase = "new" THEN "health" ELSE "err")
    /\ UNCHANGED <<content, stopping, healthy>>

\* The container is gone, or the call fails, carried out or not.
StartFails(d) ==
    /\ At(d, "start")
    /\ \/ /\ DockerFails(d) \/ FindByName(job[d].server) # OwnId(d)
          /\ UNCHANGED <<host, ran>>
       \/ DockerFails(d) /\ Started(d)
    /\ Goto(d, "discard")
    /\ UNCHANGED <<content, stopping, healthy>>

\* Run removes the container that it could not start; that may fail as well.
Discard(d) ==
    /\ At(d, "discard")
    /\ \/ host' = Removed(job[d].server, OwnId(d))
       \/ DockerFails(d) /\ UNCHANGED host
    /\ FailRollover(d)
    /\ UNCHANGED <<content, stopping, ran, healthy>>

-----------------------------------------------------------------------------
(* Stage 6: the dial goes to the server's port, whoever listens there.     *)

HealthPasses(d) ==
    LET s == job[d].server IN
    /\ At(d, "health")
    /\ ~Cancelled(d)
    /\ s \in Ported
    /\ host[s].running
    /\ healthy' = [healthy EXCEPT
                     ![s] = @ \cup {<<host[s].image, host[s].build>>}]
    /\ Goto(d, "ok")
    /\ UNCHANGED <<host, content, stopping, ran>>

HealthTimeout(d) ==
    /\ At(d, "health")
    /\ FailRollover(d)
    /\ UNCHANGED <<host, content, stopping, ran, healthy>>

\* A cancelled context leaves the loop without a rollback.
HealthCancelled(d) ==
    /\ At(d, "health")
    /\ Cancelled(d)
    /\ Goto(d, "err")
    /\ UNCHANGED <<host, content, stopping, ran, healthy>>

-----------------------------------------------------------------------------
(* Runner.RunConfig as far as the rollover can tell: it needs a container  *)
(* of the name, may fail at any file or at the reload, and replaces none.  *)

RunConfig(d) ==
    /\ At(d, "config")
    /\ \/ /\ DockerOK(d)
          /\ FindByName(job[d].server) # NoId
          /\ Goto(d, "ok")
       \/ Goto(d, "err")
    /\ UNCHANGED <<host, content, stopping, ran, healthy>>

PipelineStep(d) ==
    \/ ObtainImage(d) \/ ObtainFails(d) \/ CheckDrift(d) \/ EnsureNetwork(d)
    \/ FindOld(d) \/ StopOld(d) \/ RemoveOld(d)
    \/ RunFind(d) \/ RunRemove(d) \/ CreateContainer(d)
    \/ StartContainer(d) \/ StartFails(d) \/ Discard(d)
    \/ HealthPasses(d) \/ HealthTimeout(d) \/ HealthCancelled(d)
    \/ RunConfig(d)

-----------------------------------------------------------------------------
PipeTypeOK ==
    /\ job \in [Deploys -> Jobs]
    /\ host \in [Servers -> Containers]
    /\ content \in [Images -> Builds]
    /\ stopping \in BOOLEAN
    /\ ran \in [Servers -> SUBSET Images]
    /\ healthy \in [Servers -> SUBSET ((Images \cup {NoImage}) \X Builds)]

\* A host as mc-operator finds it: per server no container, or one that an
\* earlier life of the daemon, or an operator, started and left running.
Original(i) == [id |-> OriginalId, image |-> i, build |-> NoDeploy,
                running |-> TRUE]

PipeInit ==
    /\ job = [d \in Deploys |-> Unborn]
    /\ host \in [Servers -> {NoContainer} \cup {Original(i) : i \in Images}]
    /\ content = [i \in Images |-> NoDeploy]
    /\ stopping = FALSE
    /\ ran = [s \in Servers |-> {host[s].image} \ {NoImage}]
    /\ healthy = [s \in Servers |->
                    {<<i, NoDeploy>> : i \in {host[s].image} \ {NoImage}}]
=============================================================================
