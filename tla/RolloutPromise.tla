--------------------------- MODULE RolloutPromise ---------------------------
(***************************************************************************)
(* What deploys that come one at a time promise the players of a server.   *)
(* A server serves one image or nothing.  Only the deploy in progress      *)
(* changes that, it serves nothing in between, it never serves anything    *)
(* but the image it was asked for or an image the server served before,    *)
(* and once it has turned to the latter it does not come back to the       *)
(* former.  It passes only while the server serves the image asked for.    *)
(***************************************************************************)
EXTENDS FiniteSets

CONSTANTS Servers, Images, Deploys, NoServer, NoImage

VARIABLES
    serving,  \* server -> the image it serves
    served,   \* server -> the images it has served
    stage,    \* deploy -> how far it is
    order     \* deploy -> server, image and fallback, the image to go back to

promiseVars == <<serving, served, stage, order>>

InProgress ==
    {"requested", "deploying", "trial", "recovering", "passed", "spent"}
Stages == {"idle", "succeeded", "failed", "lost"} \cup InProgress

NoOrder == [server |-> NoServer, image |-> NoImage, fallback |-> NoImage]

Init ==
    /\ serving \in [Servers -> Images \cup {NoImage}]
    /\ served = [s \in Servers |-> {serving[s]} \ {NoImage}]
    /\ stage = [d \in Deploys |-> "idle"]
    /\ order = [d \in Deploys |-> NoOrder]

Move(d, from, to) ==
    /\ stage[d] \in from
    /\ stage' = [stage EXCEPT ![d] = to]

Request(d, s, i) ==
    /\ \A e \in Deploys : stage[e] \notin InProgress
    /\ Move(d, {"idle"}, "requested")
    /\ order' = [order EXCEPT
         ![d] = [server |-> s, image |-> i, fallback |-> NoImage]]
    /\ UNCHANGED <<serving, served>>

\* The fallback is settled before anything is touched.
Commit(d, fallback) ==
    /\ Move(d, {"requested"}, "deploying")
    /\ fallback \in served[order[d].server] \cup {NoImage}
    /\ order' = [order EXCEPT ![d].fallback = fallback]
    /\ UNCHANGED <<serving, served>>

Down(d) == [serving EXCEPT ![order[d].server] = NoImage]

TakeDown(d) ==
    /\ stage[d] \in {"deploying", "recovering"}
    /\ serving' = Down(d)
    /\ UNCHANGED <<served, stage, order>>

Serve(d, i) ==
    LET s == order[d].server IN
    /\ serving[s] = NoImage
    /\ serving' = [serving EXCEPT ![s] = i]
    /\ served' = [served EXCEPT ![s] = @ \cup {i}]
    /\ UNCHANGED order

\* A deploy that is not told that its image is served has no trial of it.
BringUp(d) ==
    /\ Move(d, {"deploying"}, "trial") \/ Move(d, {"deploying"}, "deploying")
    /\ Serve(d, order[d].image)

\* The deploy turns to the fallback, if it has one.
GiveUp(d) ==
    /\ order[d].fallback # NoImage
    /\ Move(d, {"deploying", "trial"}, "recovering")
    /\ serving' \in {serving, Down(d)}
    /\ UNCHANGED <<served, order>>

Recover(d) ==
    /\ Move(d, {"recovering"}, "spent") \/ Move(d, {"recovering"}, "recovering")
    /\ Serve(d, order[d].fallback)

Pass(d) ==
    /\ Move(d, {"trial"}, "passed")
    /\ serving[order[d].server] = order[d].image
    /\ UNCHANGED <<serving, served, order>>

Fail(d) ==
    /\ Move(d, {"deploying", "trial", "recovering"}, "spent")
    /\ serving' \in {serving, Down(d)}
    /\ UNCHANGED <<served, order>>

Conclude(d) ==
    /\ \/ Move(d, {"passed"}, "succeeded")
       \/ Move(d, {"spent"}, "failed")
    /\ UNCHANGED <<serving, served, order>>

\* The daemon dies: what was in progress is abandoned as it stands.
Abandon ==
    /\ stage' = [d \in Deploys |->
                   IF stage[d] \in InProgress THEN "lost" ELSE stage[d]]
    /\ UNCHANGED <<serving, served, order>>

Next ==
    \/ \E d \in Deploys :
        \/ \E s \in Servers, i \in Images : Request(d, s, i)
        \/ \E i \in Images \cup {NoImage} : Commit(d, i)
        \/ TakeDown(d) \/ BringUp(d) \/ GiveUp(d) \/ Recover(d)
        \/ Pass(d) \/ Fail(d) \/ Conclude(d)
    \/ Abandon

Spec == Init /\ [][Next]_promiseVars
=============================================================================
