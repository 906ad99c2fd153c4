--------------------------- MODULE RolloutProofs ----------------------------
(***************************************************************************)
(* Deploys that come one at a time keep RolloutPromise: every step of them *)
(* is a step of the promise, or one it does not see.  What the mapping     *)
(* needs is what the earlier modules know: a deploy that passes has its    *)
(* own container running (WatcherProofs), a container is started with the  *)
(* image its owner asked for, and a rollback goes to an image that was     *)
(* launched (ProvenanceProofs); and that the container a deploy is about   *)
(* to start is down until then (Poised).                                   *)
(***************************************************************************)
EXTENDS WatcherProofs

\* What the promise sees of the deploys.
Serving == [s \in Servers |->
              IF host[s].running THEN host[s].image ELSE NoImage]
Stage == [d \in Deploys |-> StageOf(job[d])]
Order == [d \in Deploys |-> OrderOf(job[d])]
Off(d) == [Serving EXCEPT ![Order[d].server] = NoImage]
Unseen == Serving' = Serving /\ ran' = ran /\ Stage' = Stage /\ Order' = Order

\* A goroutine that does not run yet was asked for nothing, and a container that
\* is about to be started is not running.
Poised(d) ==
    /\ At(d, "unborn") => job[d] = Unborn
    /\ At(d, "start") => ~host[job[d].server].running

RefineInv == WatcherInv /\ Inv /\ \A d \in Deploys : Poised(d)

-----------------------------------------------------------------------------
(* The actions of the promise, in these terms.                             *)

LEMMA PromiseRequest ==
    ASSUME NEW d \in Deploys, NEW s \in Servers, NEW i \in Images,
           \A e \in Deploys : Stage[e] \notin Promise!InProgress,
           Stage[d] = "idle", Stage' = [Stage EXCEPT ![d] = "requested"],
           Order' = [Order EXCEPT ![d] =
                       [server |-> s, image |-> i, fallback |-> NoImage]],
           Serving' = Serving, ran' = ran
    PROVE  Promise!Next
  <1>1. Promise!Request(d, s, i)
    BY DEF Promise!Request, Promise!Move, Serving, Stage, Order
  <1> QED
    BY <1>1 DEF Promise!Next

LEMMA PromiseCommit ==
    ASSUME NEW d \in Deploys, NEW i \in MaybeImage,
           i \in ran[Order[d].server] \cup {NoImage},
           Stage[d] = "requested", Stage' = [Stage EXCEPT ![d] = "deploying"],
           Order' = [Order EXCEPT ![d].fallback = i],
           Serving' = Serving, ran' = ran
    PROVE  Promise!Next
  <1>1. Promise!Commit(d, i)
    BY DEF Promise!Commit, Promise!Move, Serving, Stage, Order
  <1> QED
    BY <1>1 DEF Promise!Next, MaybeImage

LEMMA PromiseTakeDown ==
    ASSUME NEW d \in Deploys, Stage[d] \in {"deploying", "recovering"},
           Serving' = Off(d), ran' = ran, Stage' = Stage, Order' = Order
    PROVE  Promise!Next
  <1>1. Promise!TakeDown(d)
    BY DEF Promise!TakeDown, Promise!Down, Off, Serving, Stage, Order
  <1> QED
    BY <1>1 DEF Promise!Next

LEMMA PromiseServe ==
    ASSUME NEW d \in Deploys, NEW s, s = Order[d].server, NEW i,
           Serving[s] = NoImage, Serving' = [Serving EXCEPT ![s] = i],
           ran' = [ran EXCEPT ![s] = @ \cup {i}], Order' = Order,
           NEW l, Stage' = [Stage EXCEPT ![d] = l],
           \/ /\ i = Order[d].image
              /\ Stage[d] = "deploying" /\ l \in {"trial", "deploying"}
           \/ /\ i = Order[d].fallback
              /\ Stage[d] = "recovering" /\ l \in {"spent", "recovering"}
    PROVE  Promise!Next
  <1>1. CASE /\ i = Order[d].image
             /\ Stage[d] = "deploying" /\ l \in {"trial", "deploying"}
    <2>1. Promise!BringUp(d)
      BY <1>1 DEF Promise!BringUp, Promise!Serve, Promise!Move, Serving, Stage, Order
    <2> QED
      BY <2>1 DEF Promise!Next
  <1>2. CASE /\ i = Order[d].fallback
             /\ Stage[d] = "recovering" /\ l \in {"spent", "recovering"}
    <2>1. Promise!Recover(d)
      BY <1>2 DEF Promise!Recover, Promise!Serve, Promise!Move, Serving, Stage, Order
    <2> QED
      BY <2>1 DEF Promise!Next
  <1> QED
    BY <1>1, <1>2

\* The actions that only change the stage.
LEMMA PromiseMove ==
    ASSUME NEW d \in Deploys, NEW to, Stage' = [Stage EXCEPT ![d] = to],
           Serving' = Serving, ran' = ran, Order' = Order,
           \/ /\ to = "recovering" /\ Stage[d] \in {"deploying", "trial"}
              /\ Order[d].fallback # NoImage
           \/ /\ to = "passed" /\ Stage[d] = "trial"
              /\ Serving[Order[d].server] = Order[d].image
           \/ to = "spent" /\ Stage[d] \in {"deploying", "trial", "recovering"}
           \/ to = "succeeded" /\ Stage[d] = "passed"
           \/ to = "failed" /\ Stage[d] = "spent"
    PROVE  Promise!Next
  <1>1. \/ Promise!GiveUp(d) \/ Promise!Pass(d)
        \/ Promise!Fail(d) \/ Promise!Conclude(d)
    BY DEF Promise!GiveUp, Promise!Pass, Promise!Fail, Promise!Conclude,
           Promise!Move, Serving, Stage, Order
  <1> QED
    BY <1>1 DEF Promise!Next

\* A deploy that gives up, and takes the server down with it or does not.
LEMMA PromiseDrop ==
    ASSUME NEW d \in Deploys, NEW to, Stage' = [Stage EXCEPT ![d] = to],
           Serving' \in {Serving, Off(d)}, ran' = ran, Order' = Order,
           \/ /\ to = "recovering" /\ Stage[d] \in {"deploying", "trial"}
              /\ Order[d].fallback # NoImage
           \/ to = "spent" /\ Stage[d] \in {"deploying", "trial", "recovering"}
    PROVE  Promise!Next
  <1>1. CASE /\ to = "recovering" /\ Stage[d] \in {"deploying", "trial"}
             /\ Order[d].fallback # NoImage
    <2>1. Promise!GiveUp(d)
      BY <1>1 DEF Promise!GiveUp, Promise!Move, Promise!Down, Off, Serving, Stage,
                  Order
    <2> QED
      BY <2>1 DEF Promise!Next
  <1>2. CASE to = "spent" /\ Stage[d] \in {"deploying", "trial", "recovering"}
    <2>1. Promise!Fail(d)
      BY <1>2 DEF Promise!Fail, Promise!Move, Promise!Down, Off, Serving, Stage,
                  Order
    <2> QED
      BY <2>1 DEF Promise!Next
  <1> QED
    BY <1>1, <1>2

LEMMA PromiseAbandon ==
    ASSUME Stage' = [d \in Deploys |-> IF Stage[d] \in Promise!InProgress
                                       THEN "lost" ELSE Stage[d]],
           Serving' = Serving, ran' = ran, Order' = Order
    PROVE  Promise!Next
  <1>1. Promise!Abandon
    BY DEF Promise!Abandon, Serving, Stage, Order
  <1> QED
    BY <1>1 DEF Promise!Next

-----------------------------------------------------------------------------
(* What the promise sees of a step.                                        *)

\* The stage of a JAR deploy by its location and phase.
LEMMA Stages ==
    ASSUME NEW j, j.kind = "jar"
    PROVE  /\ j.pc \in {"markProgressing", "putProgressing", "readPrevious"} =>
                StageOf(j) = "requested"
           /\ j.pc \in Preflight \cup Rolling /\ j.pc # "health" =>
                StageOf(j) = IF j.phase = "new" THEN "deploying"
                                                ELSE "recovering"
           /\ j.pc = "health" => StageOf(j) = "trial"
           /\ j.pc \in {"ok", "putSynced"} => StageOf(j) = "passed"
           /\ j.pc \in {"err", "putFailed"} => StageOf(j) = "spent"
           /\ j.pc \in {"succeeded", "unsaved"} => StageOf(j) = "succeeded"
           /\ j.pc \in {"failed", "lost"} => StageOf(j) = j.pc
           /\ j.pc = "unborn" => StageOf(j) = "idle"
  BY DEF StageOf, Preflight, Rolling

\* One deploy moved: only its stage and its order can have changed.
LEMMA OneMoved ==
    ASSUME NEW d \in Deploys, \A e \in Deploys \ {d} : job'[e] = job[e]
    PROVE  /\ Stage' = [Stage EXCEPT ![d] = StageOf(job'[d])]
           /\ Order' = [Order EXCEPT ![d] = OrderOf(job'[d])]
           /\ StageOf(job'[d]) = Stage[d] => Stage' = Stage
           /\ OrderOf(job'[d]) = Order[d] => Order' = Order
  BY DEF Stage, Order

LEMMA OrderStays ==
    ASSUME NEW d \in Deploys, NEW l, Moved(d, l)
    PROVE  OrderOf(job'[d]) = Order[d] /\ Order' = Order
  <1>1. OrderOf(job'[d]) = Order[d]
    BY DEF Moved, OrderOf, Order
  <1> QED
    BY <1>1, OneMoved DEF Moved

LEMMA OrderNames ==
    ASSUME NEW d \in Deploys, job[d].kind = "jar"
    PROVE  Order[d].server = job[d].server
  BY DEF Order, OrderOf

LEMMA OneServed ==
    ASSUME NEW t \in Servers,
           \A s \in Servers \ {t} : host'[s] = host[s]
    PROVE  Serving' = [Serving EXCEPT
             ![t] = IF host'[t].running THEN host'[t].image ELSE NoImage]
  <1> DEFINE shown(s) == IF host[s].running THEN host[s].image ELSE NoImage
             now(s) == IF host'[s].running THEN host'[s].image ELSE NoImage
  <1>1. Serving = [s \in Servers |-> shown(s)]
        /\ Serving' = [s \in Servers |-> now(s)]
    BY DEF Serving
  <1>2. \A s \in Servers \ {t} : now(s) = shown(s)
    OBVIOUS
  <1> HIDE DEF shown, now
  <1>3. Serving' = [Serving EXCEPT ![t] = now(t)]
    BY <1>1, <1>2
  <1> QED
    BY <1>3 DEF now

\* A deploy that fails before, in or after its rollout.
LEMMA FailSeen ==
    ASSUME RefineInv, NEW d \in Deploys, job[d].kind = "jar",
           job[d].pc \in Preflight \cup Rolling, Goto(d, "err"),
           Serving' = Serving, ran' = ran
    PROVE  Promise!Next
  <1>1. job \in [Deploys -> Jobs]
    BY DEF RefineInv, WatcherInv, Typed, TypeOK, PipeTypeOK
  <1>2. Moved(d, "err")
    BY <1>1, GotoMoves
  <1>3. StageOf(job'[d]) = "spent"
    BY <1>2, Stages DEF Moved
  <1>4. Stage[d] \in {"deploying", "trial", "recovering"}
    BY <1>1, Stages DEF Stage
  <1>5. Stage' = [Stage EXCEPT ![d] = "spent"]
    BY <1>2, <1>3, OneMoved DEF Moved
  <1> QED
    BY <1>2, <1>4, <1>5, OrderStays, PromiseMove

LEMMA FailRolloverSeen ==
    ASSUME RefineInv, NEW d \in Deploys, job[d].kind = "jar",
           job[d].pc \in Rolling, FailRollover(d),
           Serving' \in {Serving, Off(d)}, ran' = ran
    PROVE  Promise!Next
  <1>1. job \in [Deploys -> Jobs] /\ JobSound(job[d])
    BY DEF RefineInv, WatcherInv, Typed, TypeOK, PipeTypeOK, JobsSound
  <1>2. PICK l \in {"find", "err"} : Moved(d, l)
    BY <1>1, FailRolloverMoves
  <1>3. /\ job'[d].pc = IF RollsBack(d) THEN "find" ELSE "err"
        /\ job'[d].phase = IF RollsBack(d) THEN "rollback" ELSE job[d].phase
        /\ job'[d].kind = "jar"
    BY <1>1 DEF FailRollover, Jobs
  <1>4. Stage[d] \in {"deploying", "trial", "recovering"}
    BY <1>1, Stages DEF Stage
  <1>5. CASE RollsBack(d)
    <2>1. StageOf(job'[d]) = "recovering"
      BY <1>3, <1>5, Stages DEF Rolling
    <2>2. Stage[d] \in {"deploying", "trial"}
      BY <1>1, <1>5, Stages DEF Stage, RollsBack
    <2>3. Order[d].fallback # NoImage
      BY <1>5 DEF Order, OrderOf, RollsBack
    <2>4. Stage' = [Stage EXCEPT ![d] = "recovering"]
      BY <1>2, <2>1, OneMoved DEF Moved
    <2> QED
      BY <1>2, <2>2, <2>3, <2>4, OrderStays, PromiseDrop
  <1>6. CASE ~RollsBack(d)
    <2>1. StageOf(job'[d]) = "spent"
      BY <1>3, <1>6, Stages
    <2>2. Stage' = [Stage EXCEPT ![d] = "spent"]
      BY <1>2, <2>1, OneMoved DEF Moved
    <2> QED
      BY <1>2, <1>4, <2>2, OrderStays, PromiseDrop
  <1> QED
    BY <1>5, <1>6

\* A step inside the rollout, after which the server serves what it did, or
\* nothing.
LEMMA RollSeen ==
    ASSUME RefineInv, NEW d \in Deploys, job[d].kind = "jar",
           NEW l, Moved(d, l), job'[d].phase = job[d].phase,
           {job[d].pc, l} \subseteq (Preflight \cup Rolling) \ {"health"},
           ran' = ran,
           \/ host' = host
           \/ /\ job[d].server \in Servers
              /\ \A s \in Servers \ {job[d].server} : host'[s] = host[s]
              /\ ~host'[job[d].server].running
    PROVE  Promise!Next \/ Unseen
  <1>1. /\ Stage[d] = IF job[d].phase = "new" THEN "deploying" ELSE "recovering"
        /\ StageOf(job'[d]) = Stage[d]
    BY Stages DEF Stage, Moved
  <1>2. Stage' = Stage /\ Order' = Order
    BY <1>1, OneMoved, OrderStays DEF Moved
  <1>3. CASE host' = host
    BY <1>2, <1>3 DEF Unseen, Serving
  <1>4. CASE /\ job[d].server \in Servers
             /\ \A s \in Servers \ {job[d].server} : host'[s] = host[s]
             /\ ~host'[job[d].server].running
    <2>1. Serving' = [Serving EXCEPT ![job[d].server] = NoImage]
      BY <1>4, OneServed
    <2>2. Order[d].server = job[d].server
      BY OrderNames
    <2>3. Serving' = Off(d)
      BY <2>1, <2>2 DEF Off
    <2> QED
      BY <1>1, <1>2, <2>3, PromiseTakeDown
  <1> QED
    BY <1>3, <1>4

\* A deploy of configuration files is none of the promise's business.
LEMMA ConfigSeen ==
    ASSUME NEW d \in Deploys, NEW l, Moved(d, l), job[d].kind # "jar",
           job[d].kind \in {"jar", "config"}, host' = host, ran' = ran
    PROVE  Unseen
  <1>1. StageOf(job'[d]) = Stage[d]
    BY DEF Moved, StageOf, Stage
  <1> QED
    BY <1>1, OneMoved, OrderStays DEF Moved, Unseen, Serving

-----------------------------------------------------------------------------
LEMMA PipelineSeen ==
    ASSUME RefineInv, NEW d \in Deploys, PipelineStep(d)
    PROVE  Promise!Next \/ Unseen
  <1> DEFINE t == job[d].server
  <1>1. /\ job \in [Deploys -> Jobs] /\ host \in [Servers -> Containers]
        /\ ran \in [Servers -> SUBSET Images]
        /\ job[d] \in Jobs /\ JobSound(job[d])
    BY DEF RefineInv, WatcherInv, Typed, TypeOK, PipeTypeOK, JobsSound
  <1>2. /\ job[d].pc \in Preflight \cup Rolling => job[d].kind = "jar"
        /\ job[d].pc \in Rolling => t \in Servers /\ host[t] \in Containers
        /\ job[d].pc = "health" => job[d].phase = "new"
        /\ job[d].pc = "config" => job[d].kind = "config"
    BY <1>1 DEF JobSound, Rolling
  <1>3. ASSUME NEW l, Goto(d, l)
        PROVE  Moved(d, l) /\ job'[d].phase = job[d].phase
    <2>1. job'[d].phase = job[d].phase
      BY <1>1, <1>3 DEF Goto, Jobs
    <2> QED
      BY <1>1, <1>3, <2>1, GotoMoves
  <1>4. ASSUME NEW id, NEW l, FoundThen(d, id, l)
        PROVE  Moved(d, l) /\ job'[d].phase = job[d].phase
    <2>1. job'[d].phase = job[d].phase
      BY <1>1, <1>4 DEF FoundThen, Jobs
    <2> QED
      BY <1>1, <1>4, <2>1, FoundThenMoves
  <1>5. ASSUME host' = host
        PROVE  Serving' = Serving
    BY <1>5 DEF Serving
  <1>6. ASSUME NEW id, t \in Servers, host' = Removed(t, id)
        PROVE  \/ host' = host
               \/ /\ \A s \in Servers \ {t} : host'[s] = host[s]
                  /\ ~host'[t].running
    BY <1>1, <1>6 DEF Removed, NoContainer
  <1> DEFINE TakenDown == /\ \A s \in Servers \ {t} : host'[s] = host[s]
                          /\ ~host'[t].running
  <1>7. ASSUME t \in Servers, job[d].kind = "jar", host' = host \/ TakenDown
        PROVE  Serving' \in {Serving, Off(d)}
    <2>1. Order[d].server = t
      BY <1>7, OrderNames
    <2>2. CASE host' = host
      BY <1>5, <2>2
    <2>3. CASE TakenDown
      <3>1. Serving' = [Serving EXCEPT ![t] = NoImage]
        BY <1>7, <2>3, OneServed
      <3> QED
        BY <2>1, <3>1 DEF Off
    <2> QED
      BY <1>7, <2>2, <2>3
  <1> USE DEF At, Rolling, Preflight
  <1>8. CASE ObtainImage(d)
    BY <1>2, <1>3, <1>8, RollSeen DEF ObtainImage
  <1>9. CASE ObtainFails(d)
    BY <1>2, <1>5, <1>9, FailSeen DEF ObtainFails
  <1>10. CASE CheckDrift(d)
    <2>1. Goto(d, "err") \/ Goto(d, "network")
      BY <1>10 DEF CheckDrift
    <2> QED
      BY <1>2, <1>3, <1>5, <1>10, <2>1, FailSeen, RollSeen DEF CheckDrift
  <1>11. CASE EnsureNetwork(d)
    BY <1>2, <1>3, <1>5, <1>11, FailSeen, RollSeen DEF EnsureNetwork
  <1>12. CASE FindOld(d)
    <2>1. \E id, l : FoundThen(d, id, l) /\ l \in {"stop", "runFind"}
      BY <1>12 DEF FindOld
    <2> QED
      BY <1>2, <1>4, <1>12, <2>1, RollSeen DEF FindOld
  <1>13. CASE StopOld(d)
    <2>1. /\ host' = host \/ host' = Stopped(t, job[d].found)
          /\ t \in Servers /\ host[t] \in Containers
      BY <1>2, <1>13 DEF StopOld
    <2>2. ASSUME host' = Stopped(t, job[d].found)
          PROVE  \/ host' = host
                 \/ /\ \A s \in Servers \ {t} : host'[s] = host[s]
                    /\ ~host'[t].running
      <3> DEFINE c == [host[t] EXCEPT !.running = @ /\ host[t].id # job[d].found]
      <3>1. host' = [host EXCEPT ![t] = c]
        BY <2>2 DEF Stopped
      <3>2. host[t].id # job[d].found => c = host[t]
        BY <2>1 DEF Containers
      <3>3. host[t].id = job[d].found => ~c.running
        BY <2>1 DEF Containers
      <3> HIDE DEF c
      <3> QED
        BY <1>1, <2>1, <3>1, <3>2, <3>3
    <2> QED
      BY <1>2, <1>3, <1>13, <2>1, <2>2, RollSeen DEF StopOld
  <1>14. CASE RemoveOld(d)
    <2>1. t \in Servers /\ (host' = host \/ host' = Removed(t, job[d].found))
      BY <1>2, <1>14 DEF RemoveOld
    <2> QED
      BY <1>2, <1>4, <1>6, <1>14, <2>1, RollSeen DEF RemoveOld
  <1>15. CASE RunFind(d)
    <2>1. \/ \E id, l : FoundThen(d, id, l) /\ l \in {"create", "runRemove"}
          \/ FailRollover(d)
      BY <1>15 DEF RunFind
    <2>2. job[d].pc = "runFind" /\ host' = host /\ ran' = ran
      BY <1>15 DEF RunFind
    <2> QED
      BY <1>2, <1>4, <1>5, <2>1, <2>2, FailRolloverSeen, RollSeen
  <1>16. CASE RunRemove(d)
    <2>1. job[d].pc = "runRemove" /\ ran' = ran /\ t \in Servers
      BY <1>2, <1>16 DEF RunRemove
    <2>2. /\ host' = host \/ host' = Removed(t, job[d].found)
          /\ FoundThen(d, NoId, "create") \/ FailRollover(d)
      BY <1>16 DEF RunRemove, MayHappen
    <2> QED
      BY <1>2, <1>4, <1>6, <1>7, <2>1, <2>2, FailRolloverSeen, RollSeen
  <1>17. CASE CreateContainer(d)
    <2>1. job[d].pc = "create" /\ ran' = ran /\ t \in Servers
      BY <1>2, <1>17 DEF CreateContainer
    <2>2. /\ host' = host \/ host' = WithCreated(t, d)
          /\ Goto(d, "start") \/ FailRollover(d)
      BY <1>17 DEF CreateContainer, MayHappen
    <2>3. host' = host \/ TakenDown
      BY <1>1, <2>1, <2>2 DEF WithCreated, Created
    <2> QED
      BY <1>2, <1>3, <1>7, <2>1, <2>2, <2>3, FailRolloverSeen, RollSeen
  <1>18. ASSUME At(d, "start"), Started(d), NEW l, Goto(d, l),
                l = "discard" \/ l = IF job[d].phase = "new" THEN "health" ELSE "err"
         PROVE  Promise!Next
    <2> DEFINE i == Target(d)
    <2>1. /\ job[d].pc = "start" /\ job[d].kind = "jar" /\ t \in Servers
          /\ host' = [host EXCEPT ![t].running = TRUE]
          /\ ran' = [ran EXCEPT ![t] = @ \cup {i}]
      BY <1>2, <1>18 DEF Started
    <2>2. /\ host[t].image = i /\ host[t] \in Containers
          /\ ~host[t].running
      BY <1>18, <2>1, <1>1, StartRuns DEF RefineInv, WatcherInv, Inv, Poised
    <2>3. host'[t].running /\ host'[t].image = i
      BY <1>1, <2>1, <2>2 DEF Containers
    <2>4. Serving' = [Serving EXCEPT ![t] = i]
      <3>1. \A s \in Servers \ {t} : host'[s] = host[s]
        BY <1>1, <2>1
      <3> QED
        BY <2>1, <2>3, <3>1, OneServed
    <2>5. Serving[t] = NoImage /\ Order[d].server = t
      BY <2>1, <2>2 DEF Serving, Order, OrderOf
    <2>6. Moved(d, l) /\ job'[d].phase = job[d].phase
      BY <1>3, <1>18
    <2>7. Stage' = [Stage EXCEPT ![d] = StageOf(job'[d])]
      BY <2>6, OneMoved DEF Moved
    <2>8. CASE job[d].phase = "new"
      <3>1. i = Order[d].image
        BY <2>1, <2>8 DEF Order, OrderOf, Target
      <3>2. Stage[d] = "deploying" /\ StageOf(job'[d]) \in {"trial", "deploying"}
        BY <1>18, <2>1, <2>6, <2>8, Stages DEF Stage, Moved
      <3> QED
        BY <2>1, <2>4, <2>5, <2>6, <2>7, <3>1, <3>2, OrderStays, PromiseServe
    <2>9. CASE job[d].phase # "new"
      <3>1. i = Order[d].fallback
        BY <2>1, <2>9 DEF Order, OrderOf, Target
      <3>2. Stage[d] = "recovering" /\ StageOf(job'[d]) \in {"spent", "recovering"}
        BY <1>18, <2>1, <2>6, <2>9, Stages DEF Stage, Moved
      <3> QED
        BY <2>1, <2>4, <2>5, <2>6, <2>7, <3>1, <3>2, OrderStays, PromiseServe
    <2> QED
      BY <2>8, <2>9
  <1>19. CASE StartContainer(d)
    BY <1>18, <1>19 DEF StartContainer
  <1>20. CASE StartFails(d)
    <2>1. \/ Started(d)
          \/ host' = host /\ ran' = ran
      BY <1>20 DEF StartFails
    <2>2. job[d].pc = "start" /\ Goto(d, "discard")
      BY <1>20 DEF StartFails
    <2> QED
      BY <1>2, <1>3, <1>18, <2>1, <2>2, RollSeen
  <1>21. CASE Discard(d)
    <2>1. /\ job[d].pc = "discard" /\ t \in Servers /\ ran' = ran
          /\ FailRollover(d)
          /\ host' = host \/ host' = Removed(t, OwnId(d))
      BY <1>2, <1>21 DEF Discard
    <2> QED
      BY <1>2, <1>6, <1>7, <2>1, FailRolloverSeen
  <1>22. CASE HealthPasses(d)
    <2>1. /\ job[d].pc = "health" /\ job[d].kind = "jar"
          /\ job[d].phase = "new" /\ Moved(d, "ok")
          /\ t \in Servers /\ host' = host /\ ran' = ran
      BY <1>2, <1>3, <1>22 DEF HealthPasses
    <2>2. host[t] = Own(d, TRUE)
      BY <2>1 DEF RefineInv, WatcherInv, Mine
    <2>3. Serving[Order[d].server] = Order[d].image
      BY <2>1, <2>2 DEF Serving, Order, OrderOf, Own
    <2>4. Stage[d] = "trial" /\ StageOf(job'[d]) = "passed"
      BY <2>1, Stages DEF Stage, Moved
    <2>5. Stage' = [Stage EXCEPT ![d] = "passed"]
      BY <2>1, <2>4, OneMoved DEF Moved
    <2> QED
      BY <1>5, <2>1, <2>3, <2>4, <2>5, OrderStays, PromiseMove
  <1>23. CASE HealthTimeout(d)
    BY <1>2, <1>5, <1>23, FailRolloverSeen DEF HealthTimeout
  <1>24. CASE HealthCancelled(d)
    BY <1>2, <1>5, <1>24, FailSeen DEF HealthCancelled
  <1>25. CASE RunConfig(d)
    <2>1. \E l : Goto(d, l)
      BY <1>25 DEF RunConfig
    <2> QED
      BY <1>2, <1>3, <1>25, <2>1, ConfigSeen DEF RunConfig
  <1> QED
    BY <1>8, <1>9, <1>10, <1>11, <1>12, <1>13, <1>14, <1>15, <1>16, <1>17,
       <1>19, <1>20, <1>21, <1>22, <1>23, <1>24, <1>25 DEF PipelineStep

\* The record keeping: the fallback is settled by the first read, a result is
\* concluded by the second write.
LEMMA MarkSeen ==
    ASSUME RefineInv, NEW d \in Deploys,
           \/ MarkProgressing(d) \/ ReadPrevious(d)
           \/ MarkSynced(d) \/ MarkFailed(d)
    PROVE  Promise!Next \/ Unseen
  <1> DEFINE t == job[d].server
  <1>1. /\ job \in [Deploys -> Jobs] /\ job[d] \in Jobs /\ JobSound(job[d])
        /\ store \in [Servers -> Records]
    BY DEF RefineInv, WatcherInv, Typed, TypeOK, PipeTypeOK, JobsSound
  <1>2. host' = host /\ ran' = ran /\ Serving' = Serving
    BY DEF MarkProgressing, ReadPrevious, MarkSynced, MarkFailed, ReadRecord,
           WriteRecord, Serving
  <1>3. job[d].kind \in {"jar", "config"}
    BY <1>1 DEF Jobs
  <1>4. ASSUME job[d].kind = "jar", NEW l, Goto(d, l),
               \/ job[d].pc \in {"markProgressing", "putProgressing"}
                    /\ l \in {"putProgressing", "readPrevious"}
               \/ job[d].pc = "ok" /\ l = "putSynced"
               \/ job[d].pc = "err" /\ l = "putFailed"
        PROVE  Unseen
    <2>1. Moved(d, l)
      BY <1>1, <1>4, GotoMoves
    <2>2. StageOf(job'[d]) = Stage[d]
      BY <1>4, <2>1, Stages DEF Stage, Moved
    <2> QED
      BY <1>2, <2>1, <2>2, OneMoved, OrderStays DEF Moved, Unseen
  <1>5. ASSUME job[d].kind = "jar", NEW l, Goto(d, l),
               \/ job[d].pc = "putSynced" /\ l \in {"succeeded", "unsaved"}
               \/ job[d].pc = "putFailed" /\ l = "failed"
        PROVE  Promise!Next
    <2>1. Moved(d, l)
      BY <1>1, <1>5, GotoMoves
    <2>2. \/ Stage[d] = "passed" /\ StageOf(job'[d]) = "succeeded"
          \/ Stage[d] = "spent" /\ StageOf(job'[d]) = "failed"
      BY <1>5, <2>1, Stages DEF Stage, Moved
    <2>3. Stage' = [Stage EXCEPT ![d] = StageOf(job'[d])]
      BY <2>1, OneMoved DEF Moved
    <2> QED
      BY <1>2, <2>1, <2>2, <2>3, OrderStays, PromiseMove
  <1>6. ASSUME job[d].kind = "config", NEW l, Goto(d, l)
        PROVE  Unseen
    BY <1>1, <1>2, <1>6, GotoMoves, ConfigSeen
  <1> USE DEF At
  <1>7. CASE MarkProgressing(d)
    <2>1. /\ job[d].pc \in {"markProgressing", "putProgressing"}
          /\ \E l : /\ Goto(d, l)
                    /\ job[d].kind = "jar" =>
                         l \in {"putProgressing", "readPrevious"}
      BY <1>7 DEF MarkProgressing, ReadRecord, WriteRecord
    <2> QED
      BY <1>3, <1>4, <1>6, <2>1
  <1>8. CASE ReadPrevious(d)
    <2> DEFINE i == store[t].cur
    <2>1. /\ job[d].pc = "readPrevious" /\ job[d].kind = "jar"
          /\ job[d].phase = "new" /\ t \in Servers
      BY <1>1, <1>8 DEF ReadPrevious, JobSound, Early
    <2>2. /\ \A e \in Deploys \ {d} : job'[e] = job[e]
          /\ job'[d] = [job[d] EXCEPT !.prev = i, !.pc = "obtain"]
      BY <1>1, <1>8 DEF ReadPrevious, PreviousImage
    <2>3. /\ job'[d].pc = "obtain" /\ job'[d].prev = i
          /\ job'[d].kind = "jar" /\ job'[d].phase = "new"
          /\ job'[d].server = t /\ job'[d].image = job[d].image
      BY <1>1, <2>1, <2>2 DEF Jobs
    <2>4. Stage[d] = "requested" /\ StageOf(job'[d]) = "deploying"
      BY <2>1, <2>3, Stages DEF Stage, Preflight
    <2>5. Stage' = [Stage EXCEPT ![d] = "deploying"]
      BY <2>2, <2>4, OneMoved
    <2>6. Order' = [Order EXCEPT ![d].fallback = i]
      <3>1. OrderOf(job'[d]) = [Order[d] EXCEPT !.fallback = i]
        BY <2>1, <2>3 DEF Order, OrderOf
      <3> QED
        BY <2>2, <3>1, OneMoved
    <2>7. Order[d].server = t
      BY <2>1 DEF Order, OrderOf
    <2>8. i \in MaybeImage /\ i \in ran[t] \cup {NoImage}
      BY <1>1, <2>1 DEF Records, RefineInv, Inv, Launches, Provenance,
                        RecordsLaunched, RecordLaunched, Launched
    <2> QED
      BY <1>2, <2>4, <2>5, <2>6, <2>7, <2>8, PromiseCommit
  <1>9. CASE MarkSynced(d)
    <2>1. \/ job[d].pc = "ok" /\ Goto(d, "putSynced")
          \/ /\ job[d].pc = "putSynced"
             /\ Goto(d, "succeeded") \/ Goto(d, "unsaved")
      BY <1>9 DEF MarkSynced, ReadRecord, WriteRecord
    <2> QED
      BY <1>3, <1>4, <1>5, <1>6, <2>1
  <1>10. CASE MarkFailed(d)
    <2>1. \/ job[d].pc = "err" /\ Goto(d, "putFailed")
          \/ job[d].pc = "putFailed" /\ Goto(d, "failed")
      BY <1>10 DEF MarkFailed, ReadRecord, WriteRecord
    <2> QED
      BY <1>3, <1>4, <1>5, <1>6, <2>1
  <1> QED
    BY <1>7, <1>8, <1>9, <1>10

\* A deploy that is not running is in progress for nobody.
LEMMA Idle ==
    ASSUME NEW d \in Deploys, ~Active(d), job[d].kind \in {"jar", "config"}
    PROVE  /\ Stage[d] \notin Promise!InProgress
           /\ At(d, "unborn") => Stage[d] = "idle"
  <1>1. CASE job[d].kind = "config"
    BY <1>1 DEF Stage, StageOf, Promise!InProgress
  <1>2. CASE job[d].kind = "jar"
    BY <1>2, Stages DEF Active, Finished, At, Stage, Promise!InProgress
  <1> QED
    BY <1>1, <1>2

LEMMA BeginSeen ==
    ASSUME RefineInv, Triggers \subseteq {"git", "config"},
           NEW d \in Deploys, Begin(d)
    PROVE  Promise!Next \/ Unseen
  <1>1. /\ job \in [Deploys -> Jobs]
        /\ \A e \in Deploys : job[e].kind \in {"jar", "config"}
    BY DEF RefineInv, WatcherInv, Typed, TypeOK, PipeTypeOK, Jobs
  <1>2. PICK s \in Servers :
          GitConfig(d, s) \/ \E i \in Images : GitDeploy(d, s, i)
    BY DEF Begin, ManualSync, JenkinsSync
  <1>3. /\ \A e \in Deploys : ~Active(e)
        /\ host' = host /\ ran' = ran /\ Serving' = Serving
        /\ At(d, "unborn")
    BY <1>2 DEF GitConfig, GitDeploy, Start, ConsumerFree, RefineInv,
                WatcherInv, Mine, WatcherJob, Serving
  <1>4. CASE GitConfig(d, s)
    <2> DEFINE j == [NewJob(s, NoImage) EXCEPT !.git = TRUE, !.kind = "config"]
    <2>1. job' = [job EXCEPT ![d] = j]
      BY <1>4 DEF GitConfig, Start
    <2>2. j.kind = "config"
      BY DEF NewJob, Unborn
    <2> HIDE DEF j
    <2>3. job'[d] = j /\ \A e \in Deploys \ {d} : job'[e] = job[e]
      BY <1>1, <2>1
    <2>4. StageOf(job'[d]) = "idle" /\ Stage[d] = "idle"
      BY <1>1, <1>3, <2>2, <2>3, Idle DEF StageOf
    <2>5. OrderOf(job'[d]) = Order[d]
      <3>1. job[d] = Unborn
        BY <1>3 DEF RefineInv, Poised
      <3>2. OrderOf(Unborn) =
              [server |-> NoServer, image |-> NoImage, fallback |-> NoImage]
        BY DEF OrderOf, Unborn
      <3> QED
        BY <2>2, <2>3, <3>1, <3>2 DEF OrderOf, Order
    <2> QED
      BY <1>3, <2>3, <2>4, <2>5, OneMoved DEF Unseen
  <1>5. ASSUME NEW i \in Images, GitDeploy(d, s, i)
        PROVE  Promise!Next
    <2> DEFINE j == [NewJob(s, i) EXCEPT !.git = TRUE]
    <2>1. job' = [job EXCEPT ![d] = j]
      BY <1>5 DEF GitDeploy, Start
    <2>2. /\ j.kind = "jar" /\ j.pc = "markProgressing"
          /\ j.server = s /\ j.image = i /\ j.prev = NoImage
      BY DEF NewJob, Unborn
    <2> HIDE DEF j
    <2>3. job'[d] = j /\ \A e \in Deploys \ {d} : job'[e] = job[e]
      BY <1>1, <2>1
    <2>4. Stage' = [Stage EXCEPT ![d] = "requested"]
      BY <2>2, <2>3, Stages, OneMoved
    <2>5. Order' = [Order EXCEPT ![d] =
                      [server |-> s, image |-> i, fallback |-> NoImage]]
      <3>1. OrderOf(job'[d]) =
              [server |-> s, image |-> i, fallback |-> NoImage]
        BY <2>2, <2>3 DEF OrderOf
      <3> QED
        BY <2>3, <3>1, OneMoved
    <2> QED
      BY <1>1, <1>3, <2>4, <2>5, Idle, PromiseRequest
  <1> QED
    BY <1>2, <1>4, <1>5

\* A daemon that dies abandons what was in progress.
LEMMA RestartSeen ==
    ASSUME RefineInv, Restart
    PROVE  Promise!Next
  <1>1. job \in [Deploys -> Jobs]
    BY DEF RefineInv, WatcherInv, Typed, TypeOK, PipeTypeOK
  <1>2. ASSUME NEW d \in Deploys
        PROVE  /\ StageOf(job'[d]) = IF Stage[d] \in Promise!InProgress
                                     THEN "lost" ELSE Stage[d]
               /\ OrderOf(job'[d]) = Order[d]
    <2>1. job[d] \in Jobs /\ job[d].kind \in {"jar", "config"}
      BY <1>1 DEF Jobs
    <2>2. job'[d] = IF Active(d) THEN [job[d] EXCEPT !.pc = "lost"] ELSE job[d]
      BY DEF Restart
    <2>3. CASE ~Active(d)
      BY <2>1, <2>2, <2>3, Idle DEF Stage, Order
    <2>4. CASE Active(d)
      <3>1. /\ job'[d].pc = "lost" /\ job'[d].kind = job[d].kind
            /\ job'[d].server = job[d].server /\ job'[d].image = job[d].image
            /\ job'[d].prev = job[d].prev
        BY <2>1, <2>2, <2>4 DEF Jobs
      <3>2. OrderOf(job'[d]) = Order[d]
        BY <3>1 DEF OrderOf, Order
      <3>3. CASE job[d].kind = "config"
        BY <3>1, <3>2, <3>3 DEF StageOf, Stage, Promise!InProgress
      <3>4. CASE job[d].kind = "jar"
        <4>1. job[d].pc \in {"markProgressing", "putProgressing",
                "readPrevious", "ok", "putSynced", "err", "putFailed"}
                \cup Preflight \cup Rolling
          BY <2>1, <2>4, <3>4
          DEF RefineInv, WatcherInv, Typed, JobsSound, JobSound, Jobs, Locations,
              Marking, Returned, Active
        <4>2. Stage[d] \in Promise!InProgress
          <5>1. job[d].phase = "new" \/ job[d].phase # "new"
            OBVIOUS
          <5> QED
            BY <3>4, <4>1, <5>1, Stages DEF Stage, Promise!InProgress
        <4>3. StageOf(job'[d]) = "lost"
          BY <3>1, <3>4, Stages
        <4> QED
          BY <3>2, <4>2, <4>3
      <3> QED
        BY <2>1, <3>3, <3>4
    <2> QED
      BY <2>3, <2>4
  <1>3. Order' = Order
    BY <1>2 DEF Order
  <1>4. Stage' = [d \in Deploys |-> IF Stage[d] \in Promise!InProgress
                                    THEN "lost" ELSE Stage[d]]
    BY <1>2 DEF Stage
  <1>5. Serving' = Serving /\ ran' = ran
    BY DEF Restart, Serving
  <1> QED
    BY <1>3, <1>4, <1>5, PromiseAbandon

-----------------------------------------------------------------------------
\* A container is created stopped, and one deploy at a time leaves it so until
\* it is started.
LEMMA PoisedInductive ==
    ASSUME Triggers \subseteq {"git", "config"}, RefineInv, [Next]_vars,
           NEW d \in Deploys
    PROVE  Poised(d)'
  <1>1. /\ job \in [Deploys -> Jobs] /\ host \in [Servers -> Containers]
        /\ Poised(d)
    BY DEF RefineInv, WatcherInv, Typed, TypeOK, PipeTypeOK
  <1>2. ASSUME job'[d] = job[d], host' = host
        PROVE  Poised(d)'
    BY <1>1, <1>2 DEF Poised, At
  <1>3. ASSUME job'[d].pc \notin {"unborn", "start"}
        PROVE  Poised(d)'
    BY <1>3 DEF Poised, At
  <1>4. ASSUME NEW e \in Deploys, Begin(e)
        PROVE  Poised(d)'
    <2>1. PICK j : Start(e, j) /\ j.pc = "markProgressing"
      BY <1>4, WatcherStarts
    <2> QED
      BY <1>1, <1>2, <1>3, <2>1 DEF Start
  <1>5. ASSUME NEW e \in Deploys, DeployStep(e)
        PROVE  Poised(d)'
    <2>1. /\ Active(e) /\ \A f \in Deploys \ {e} : job'[f] = job[f]
          /\ job'[e].pc # "unborn"
      BY <1>5, StepIsActive DEF RefineInv, WatcherInv
    <2>2. CASE d # e
      <3>1. job'[d] = job[d] /\ ~Active(d)
        BY <2>1, <2>2 DEF RefineInv, WatcherInv, Alone
      <3> QED
        BY <1>1, <3>1 DEF Poised, At, Active, Finished
    <2>3. CASE d = e /\ CreateContainer(d)
      <3>1. job[d].server \in Servers /\ job[d].pc = "create"
        BY <2>3 DEF CreateContainer, At, RefineInv, WatcherInv, Typed,
                    JobsSound, JobSound
      <3>2. CASE FailRollover(d)
        <4>1. \E l \in {"find", "err"} : Moved(d, l)
          BY <1>1, <3>2, FailRolloverMoves
        <4> QED
          BY <1>3, <4>1 DEF Moved
      <3>3. CASE /\ FindByName(job[d].server) = NoId
                 /\ host' = WithCreated(job[d].server, d) /\ Goto(d, "start")
        <4>1. Moved(d, "start") /\ host'[job[d].server] = Created(d)
          BY <1>1, <3>1, <3>3, GotoMoves DEF WithCreated, FindByName
        <4> QED
          BY <4>1 DEF Moved, Created, Poised, At
      <3> QED
        BY <2>3, <3>2, <3>3 DEF CreateContainer
    <2>4. CASE d = e /\ ~CreateContainer(d)
      <3>1. job'[d].pc # "start"
        <4>1. CASE PipelineStep(d)
          BY <2>4, <4>1, PipelineMoves DEF RefineInv, WatcherInv, Moved
        <4>2. CASE ReadPrevious(d)
          BY <1>1, <4>2 DEF ReadPrevious, Jobs
        <4>3. CASE MarkProgressing(d) \/ MarkSynced(d) \/ MarkFailed(d)
          <5>1. \E l : Goto(d, l) /\ l # "start"
            BY <4>3 DEF MarkProgressing, MarkSynced, MarkFailed, ReadRecord,
                        WriteRecord
          <5> QED
            BY <1>1, <5>1, GotoMoves DEF Moved
        <4> QED
          BY <1>5, <2>4, <4>1, <4>2, <4>3 DEF DeployStep
      <3> QED
        BY <1>3, <2>1, <2>4, <3>1
    <2> QED
      BY <2>2, <2>3, <2>4
  <1>6. ASSUME NEW o \in Observers, ObserverStep(o)
        PROVE  Poised(d)'
    BY <1>2, <1>6 DEF ObserverStep, ReconcileBegin, ObserveGet, ObserveRunning,
                      ObservePut, pipeVars
  <1>7. CASE Shutdown
    BY <1>2, <1>7 DEF Shutdown
  <1>8. CASE Restart
    <2>1. job[d] \in Jobs
      BY <1>1
    <2>2. job'[d] = [job[d] EXCEPT !.pc = "lost"] \/ job'[d] = job[d]
      BY <1>8 DEF Restart
    <2>3. host' = host
      BY <1>8 DEF Restart
    <2>4. CASE job'[d] = [job[d] EXCEPT !.pc = "lost"]
      BY <1>3, <2>1, <2>4 DEF Jobs
    <2> QED
      BY <1>2, <2>2, <2>3, <2>4
  <1>9. CASE UNCHANGED vars
    BY <1>2, <1>9 DEF vars, pipeVars
  <1> QED
    BY <1>4, <1>5, <1>6, <1>7, <1>8, <1>9 DEF Next

LEMMA RefineInductive ==
    ASSUME Triggers \subseteq {"git", "config"}
    PROVE  RefineInv /\ [Next]_vars => RefineInv'
  <1> SUFFICES ASSUME RefineInv, [Next]_vars PROVE RefineInv'
    OBVIOUS
  <1>1. WatcherInv'
    BY WatcherInductive DEF RefineInv
  <1>2. Inv'
    BY TypedInductive, OwnersInductive, LaunchesInductive DEF RefineInv, Inv
  <1> QED
    BY <1>1, <1>2, PoisedInductive DEF RefineInv

LEMMA StepSeen ==
    ASSUME Triggers \subseteq {"git", "config"}, RefineInv, [Next]_vars
    PROVE  Promise!Next \/ Unseen
  <1>1. ASSUME job' = job, host' = host, ran' = ran
        PROVE  Unseen
    BY <1>1 DEF Unseen, Serving, Stage, Order
  <1>2. ASSUME NEW d \in Deploys, DeployStep(d)
        PROVE  Promise!Next \/ Unseen
    BY <1>2, PipelineSeen, MarkSeen DEF DeployStep
  <1>3. ASSUME NEW o \in Observers, ObserverStep(o)
        PROVE  Unseen
    BY <1>1, <1>3 DEF ObserverStep, ReconcileBegin, ObserveGet, ObserveRunning,
                      ObservePut, pipeVars
  <1>4. CASE Shutdown
    BY <1>1, <1>4 DEF Shutdown
  <1>5. CASE UNCHANGED vars
    BY <1>1, <1>5 DEF vars, pipeVars
  <1> QED
    BY <1>2, <1>3, <1>4, <1>5, BeginSeen, RestartSeen DEF Next

LEMMA StartsPromised == Init => Promise!Init
  <1> SUFFICES ASSUME Init PROVE Promise!Init
    OBVIOUS
  <1>1. Stage = [d \in Deploys |-> "idle"]
    BY DEF Init, PipeInit, Stage, StageOf, Unborn
  <1>2. Order = [d \in Deploys |-> Promise!NoOrder]
    BY DEF Init, PipeInit, Order, OrderOf, Unborn, Promise!NoOrder
  <1>3. ASSUME NEW s \in Servers
        PROVE  /\ Serving[s] \in Images \cup {NoImage}
               /\ ran[s] = {Serving[s]} \ {NoImage}
    <2>1. host[s] = NoContainer \/ \E i \in Images : host[s] = Original(i)
      BY DEF Init, PipeInit
    <2>2. /\ host[s].running \/ host[s].image = NoImage
          /\ host[s].image \in Images \cup {NoImage}
      <3>1. CASE host[s] = NoContainer
        BY <3>1 DEF NoContainer
      <3>2. ASSUME NEW i \in Images, host[s] = Original(i)
            PROVE  host[s].running /\ host[s].image = i
        BY <3>2 DEF Original
      <3> QED
        BY <2>1, <3>1, <3>2
    <2>3. ran[s] = {host[s].image} \ {NoImage}
      BY DEF Init, PipeInit
    <2>4. Serving[s] = host[s].image
      BY <2>2 DEF Serving
    <2> QED
      BY <2>2, <2>3, <2>4
  <1>4. Serving \in [Servers -> Images \cup {NoImage}]
    BY <1>3 DEF Serving
  <1>5. ran = [s \in Servers |-> {Serving[s]} \ {NoImage}]
    BY <1>3 DEF Init, PipeInit
  <1> QED
    BY <1>1, <1>2, <1>4, <1>5 DEF Promise!Init, Serving, Stage, Order

\* With no deploys but the watcher's, the deploys keep RolloutPromise: only the
\* deploy in progress changes what a server serves, it goes back only to an
\* image the server served before and never returns from there, and it passes
\* only while its own image is served.  Docker errors, failing saves, shutdowns
\* and restarts are all allowed.
THEOREM RolloutRefinedAlways ==
    ASSUME Triggers \subseteq {"git", "config"}
    PROVE  Spec => RolloutRefined
  <1>1. Init => RefineInv
    <2> SUFFICES ASSUME Init PROVE RefineInv
      OBVIOUS
    <2>1. \A d \in Deploys : Poised(d)
      BY DEF Init, PipeInit, Poised, At, Unborn
    <2> QED
      BY <2>1, WatcherInitially, InvInitially DEF RefineInv
  <1>2. RefineInv /\ [Next]_vars => RefineInv'
    BY RefineInductive
  <1>3. RefineInv /\ [Next]_vars => [Promise!Next]_(Promise!promiseVars)
    <2>1. Unseen => UNCHANGED Promise!promiseVars
      BY DEF Unseen, Promise!promiseVars, Serving, Stage, Order
    <2> QED
      BY <2>1, StepSeen
  <1> QED
    BY <1>1, <1>2, <1>3, StartsPromised, PTL
    DEF Spec, RolloutRefined, Promise!Spec
=============================================================================
