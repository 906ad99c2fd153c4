--------------------------- MODULE DeliveryProofs ---------------------------
(***************************************************************************)
(* Theorems about GitDelivery for every set of servers and trees, every    *)
(* capacity of the channel and any number of commits, failures and         *)
(* restarts: no commit is skipped, and none is handled twice.              *)
(***************************************************************************)
EXTENDS GitDelivery, SequenceTheorems, TLAPS

USE ContentAssumption, TreeAssumption, BoundAssumption

Typed == TypeOK /\ Baseline

LEMMA EventFacts ==
    /\ NoEvent \notin Events /\ Failure \notin Changes
    /\ \A e \in Changes : e # Failure /\ e # NoEvent
    /\ Span(Failure) = {}
    /\ Failure.to = 0
    /\ \A e \in Events : Span(e) \subseteq Positions /\ e.to \in Nat /\ e.from \in Nat
  BY DEF NoEvent, Events, Failure, Changes, Span, Positions

\* The working copy is a tree.
LEMMA FilesTyped ==
    ASSUME Typed
    PROVE  /\ Files \in Trees
           /\ Files.jar \in Versions
           /\ Files.manifest \in Versions \cup {Broken}
           /\ \A s \in Servers : Files.config[s] \in Versions \cup {Absent}
  <1>1. head \in 1 .. Len(log)
    BY DEF Typed, TypeOK, Baseline, Positions
  <1>2. Files \in Trees
    BY <1>1 DEF Typed, TypeOK, Files, Tree
  <1> QED
    BY <1>2

\* The containers a pipeline leaves are of their type.
Contents == [jar : Versions \cup {Unknown}, spec : Versions \cup {Broken, Unknown},
             config : Versions \cup {Absent, Unknown}]

LEMMA ContainersTyped ==
    ASSUME Typed
    PROVE  /\ container \in [Servers -> Contents]
           /\ Fresh \in Contents /\ Unsettled \in Contents
           /\ \A s \in Servers : Copied(s) \in Versions \cup {Absent, Unknown}
  BY FilesTyped DEF Typed, TypeOK, Contents, Fresh, Unsettled, Copied

-----------------------------------------------------------------------------
(* Types.                                                                  *)

LEMMA TypedInit == Init => Typed
  <1> SUFFICES ASSUME Init PROVE Typed
    OBVIOUS
  <1>1. PICK t \in Trees, kept \in SUBSET Servers :
          /\ t.manifest # Broken
          /\ log = <<t>>
          /\ manifest = t.manifest
          /\ container = [s \in Servers |->
                [jar |-> t.jar, spec |-> t.manifest,
                 config |-> IF s \in kept THEN t.config[s] ELSE Absent]]
    BY DEF Init
  <1>2. log \in Seq(Trees) /\ Len(log) = 1
    BY <1>1
  <1>3. manifest \in Versions
    BY <1>1
  <1>4. container \in [Servers -> Contents]
    BY <1>1 DEF Contents
  <1>5. TypeOK
    BY <1>2, <1>3, <1>4 DEF Init, TypeOK, Contents, Positions, Events
  <1>6. Baseline
    BY <1>2, EventFacts DEF Init, Baseline, Events
  <1> QED
    BY <1>5, <1>6 DEF Typed

LEMMA TypedWatch ==
    ASSUME Typed, PullAndDiff \/ Emit
    PROVE  Typed'
  <1> USE DEF Typed
  <1>1. CASE PullAndDiff
    <2>1. Len(log) \in Positions /\ head' \in Positions /\ head' <= Len(log)
          /\ prevHead <= head'
      BY <1>1 DEF PullAndDiff, TypeOK, Baseline, Positions
    <2>2. \/ pending' = Failure
          \/ /\ pending' = [from |-> prevHead, to |-> Len(log)]
             /\ prevHead < Len(log) /\ head' = Len(log)
      BY <1>1 DEF PullAndDiff, Moved, TypeOK, Baseline, Positions
    <2>3. pending' \in Events
      BY <2>1, <2>2 DEF Events, Changes, TypeOK
    <2>4. failures' \in 0 .. MaxFailures
      BY <1>1 DEF PullAndDiff, Works, Fails, TypeOK
    <2>5. TypeOK'
      BY <1>1, <2>1, <2>3, <2>4 DEF PullAndDiff, TypeOK, watcherVars, eventVars
    <2>6. Baseline'
      BY <1>1, <2>1, <2>2, EventFacts DEF PullAndDiff, Baseline
    <2> QED
      BY <2>5, <2>6
  <1>2. CASE Emit
    <2>1. pending \in Events
      BY <1>2 DEF Emit, TypeOK
    <2>2. queue' \in Seq(Events) /\ Len(queue') <= QueueSize
      BY <1>2, <2>1, AppendProperties DEF Emit, Full, TypeOK
    <2>3. lost' \in SUBSET Positions
      BY <1>2, <2>1, EventFacts DEF Emit, TypeOK
    <2>4. prevHead' \in Positions /\ prevHead' <= head
      BY <1>2, <2>1 DEF Emit, Advanced, Events, Changes, TypeOK, Baseline
    <2>5. TypeOK'
      BY <1>2, <2>2, <2>3, <2>4 DEF Emit, TypeOK, eventVars, bounds
    <2>6. Baseline'
      BY <1>2, <2>4, EventFacts DEF Emit, Baseline, Events
    <2> QED
      BY <2>5, <2>6
  <1> QED
    BY <1>1, <1>2

LEMMA TypedReceive ==
    ASSUME Typed, Receive
    PROVE  Typed'
  <1> USE DEF Typed
  <1>1. /\ Head(queue) \in Events
        /\ queue' \in Seq(Events) /\ Len(queue') <= QueueSize
    BY HeadTailProperties DEF Receive, TypeOK
  <1>2. told' \in SUBSET Positions
    BY <1>1, EventFacts DEF Receive, TypeOK
  <1>3. manifest' \in Versions \cup {Broken}
    BY FilesTyped DEF Receive, Loaded, TypeOK
  <1>4. /\ mode' \in {"idle", "jar", "config"}
        /\ todo' \in SUBSET Servers /\ paths' \in SUBSET Servers
    <2>1. \A e : ConfigPaths(e) \in SUBSET Servers
      BY DEF ConfigPaths
    <2>2. CASE UNCHANGED eventVars
      BY <2>2 DEF eventVars, TypeOK
    <2>3. CASE Dispatch(Head(queue))
      BY <2>1, <2>3 DEF Dispatch
    <2> QED
      BY <2>2, <2>3 DEF Receive
  <1>5. TypeOK'
    BY <1>1, <1>2, <1>3, <1>4 DEF Receive, TypeOK, watcherVars, bounds
  <1>6. Baseline'
    BY DEF Receive, Baseline, watcherVars
  <1> QED
    BY <1>5, <1>6

LEMMA TypedDeploy ==
    ASSUME Typed, NEW s \in Servers, DeployJAR(s) \/ DeployConfig(s)
    PROVE  Typed'
  <1> USE DEF Typed
  <1>1. container' \in [Servers -> Contents]
    <2>1. CASE DeployJAR(s)
      BY <2>1, ContainersTyped DEF DeployJAR
    <2>2. CASE DeployConfig(s)
      <3>1. \A c \in Versions \cup {Absent, Unknown} :
              [container EXCEPT ![s].config = c] \in [Servers -> Contents]
        BY ContainersTyped DEF Contents
      <3> QED
        BY <2>2, <3>1, ContainersTyped DEF DeployConfig
    <2> QED
      BY <2>1, <2>2
  <1>2. failures' \in 0 .. MaxFailures
    BY DEF DeployJAR, DeployConfig, Works, Fails, TypeOK
  <1>3. todo' \in SUBSET Servers
    BY DEF DeployJAR, DeployConfig, Visit, TypeOK
  <1>4. UNCHANGED <<remote, log, head, watcherVars, queue, manifest, mode, paths,
                    told, lost, restarts>>
    BY DEF DeployJAR, DeployConfig
  <1>5. TypeOK'
    BY <1>1, <1>2, <1>3, <1>4 DEF TypeOK, watcherVars, Contents
  <1>6. Baseline'
    BY <1>4 DEF Baseline, watcherVars
  <1> QED
    BY <1>5, <1>6

LEMMA TypedRestart ==
    ASSUME Typed, Restart
    PROVE  Typed'
  <1> USE DEF Typed
  <1>1. container' \in [Servers -> Contents]
    BY ContainersTyped DEF Restart
  <1>2. lost' \in SUBSET Positions
    <2>1. Waiting(queue) \in SUBSET Positions
      BY EventFacts DEF Waiting, TypeOK
    <2>2. prevHead + 1 .. head \in SUBSET Positions
      BY DEF TypeOK, Positions
    <2> QED
      BY <2>1, <2>2 DEF Restart, TypeOK
  <1>3. manifest' \in Versions \cup {Broken}
    BY FilesTyped DEF Restart
  <1>4. restarts' \in 0 .. MaxRestarts
    BY DEF Restart, TypeOK
  <1>5. TypeOK'
    BY <1>1, <1>2, <1>3, <1>4 DEF Restart, TypeOK, Contents
  <1>6. Baseline'
    BY EventFacts DEF Restart, Baseline, Events, TypeOK, Positions
  <1> QED
    BY <1>5, <1>6

LEMMA TypedNext == Typed /\ [Next]_vars => Typed'
  <1> SUFFICES ASSUME Typed, [Next]_vars PROVE Typed'
    OBVIOUS
  <1>1. ASSUME NEW t \in Trees, Commit(t) PROVE Typed'
    <2>1. log' \in Seq(Trees) /\ Len(log') = Len(log) + 1
      BY <1>1, AppendProperties DEF Commit, Typed, TypeOK
    <2>2. Len(log') \in Positions
      BY <1>1, <2>1 DEF Commit, Typed, TypeOK, Positions
    <2>3. head' \in Positions /\ head' <= Len(log') /\ head <= head'
      BY <1>1, <2>1, <2>2 DEF Commit, Typed, TypeOK, Baseline, Positions
    <2>4. UNCHANGED <<remote, watcherVars, queue, manifest, eventVars, container,
                      told, lost, bounds>>
      BY <1>1 DEF Commit
    <2>5. TypeOK'
      BY <2>1, <2>2, <2>3, <2>4
      DEF Typed, TypeOK, watcherVars, eventVars, bounds
    <2>6. Baseline'
      BY <2>3, <2>4 DEF Typed, TypeOK, Baseline, watcherVars, Positions, Changes
    <2> QED
      BY <2>5, <2>6 DEF Typed
  <1>2. CASE Watch
    BY <1>2, TypedWatch DEF Watch
  <1>3. CASE Receive
    BY <1>3, TypedReceive
  <1>4. CASE Handled
    BY <1>4 DEF Handled, Typed, TypeOK, Baseline, watcherVars, bounds
  <1>5. ASSUME NEW s \in Servers, DeployJAR(s) \/ DeployConfig(s) PROVE Typed'
    BY <1>5, TypedDeploy
  <1>6. CASE Restart
    BY <1>6, TypedRestart
  <1>7. CASE UNCHANGED vars
    BY <1>7 DEF vars, Typed, TypeOK, Baseline, watcherVars, eventVars, bounds
  <1> QED
    BY <1>1, <1>2, <1>3, <1>4, <1>5, <1>6, <1>7 DEF Next, Consume

\* All variables of GitDelivery keep their types: no channel takes more than
\* its capacity, and every event names commits that exist.
THEOREM TypeCorrect == Spec => []TypeOK
  <1>1. Typed => TypeOK
    BY DEF Typed
  <1> QED
    BY TypedInit, TypedNext, <1>1, PTL DEF Spec

-----------------------------------------------------------------------------
(* The chain of events: told, in the channel, and what the next one adds.  *)

Chain == QueueBehind /\ NoCommitSkipped /\ NoCommitTwice
Inv == Typed /\ Chain

\* Putting an event in the channel adds its commits to those on their way.
LEMMA WaitingAppended ==
    ASSUME NEW q \in Seq(Events), NEW e \in Events
    PROVE  Waiting(Append(q, e)) = Waiting(q) \cup Span(e)
  <1> DEFINE r == Append(q, e)
  <1>1. /\ DOMAIN r = 1 .. Len(q) + 1 /\ DOMAIN q = 1 .. Len(q)
        /\ Len(q) \in Nat
        /\ \A i \in 1 .. Len(q) : r[i] = q[i]
        /\ r[Len(q) + 1] = e
    BY AppendProperties
  <1> HIDE DEF r
  <1>2. ASSUME NEW n \in Waiting(r) PROVE n \in Waiting(q) \cup Span(e)
    <2>1. PICK i \in DOMAIN r : n \in Span(r[i])
      BY DEF Waiting
    <2>2. CASE i = Len(q) + 1
      BY <1>1, <2>1, <2>2
    <2>3. CASE i \in 1 .. Len(q)
      BY <1>1, <2>1, <2>3 DEF Waiting
    <2> QED
      BY <1>1, <2>2, <2>3
  <1>3. ASSUME NEW n \in Waiting(q) PROVE n \in Waiting(r)
    <2>1. PICK i \in DOMAIN q : n \in Span(q[i])
      BY DEF Waiting
    <2>2. i \in DOMAIN r /\ r[i] = q[i]
      BY <1>1
    <2> QED
      BY <2>1, <2>2 DEF Waiting
  <1>4. ASSUME NEW n \in Span(e) PROVE n \in Waiting(r)
    <2>1. Len(q) + 1 \in DOMAIN r /\ r[Len(q) + 1] = e
      BY <1>1
    <2> QED
      BY <2>1 DEF Waiting
  <1> QED
    BY <1>2, <1>3, <1>4 DEF r

\* Taking the first event out of the channel takes its commits.
LEMMA WaitingTaken ==
    ASSUME NEW q \in Seq(Events), q # <<>>
    PROVE  Waiting(q) = Span(Head(q)) \cup Waiting(Tail(q))
  <1>1. /\ DOMAIN q = 1 .. Len(q) /\ Len(q) \in Nat \ {0}
        /\ DOMAIN Tail(q) = 1 .. Len(q) - 1
        /\ \A i \in 1 .. Len(q) - 1 : Tail(q)[i] = q[i + 1]
        /\ Head(q) = q[1]
    BY HeadTailProperties
  <1>2. ASSUME NEW n \in Waiting(q)
        PROVE  n \in Span(Head(q)) \cup Waiting(Tail(q))
    <2>1. PICK i \in DOMAIN q : n \in Span(q[i])
      BY DEF Waiting
    <2>2. CASE i = 1
      BY <1>1, <2>1, <2>2
    <2>3. CASE i # 1
      <3>1. i - 1 \in DOMAIN Tail(q) /\ Tail(q)[i - 1] = q[i]
        BY <1>1, <2>3
      <3> QED
        BY <2>1, <3>1 DEF Waiting
    <2> QED
      BY <2>2, <2>3
  <1>3. ASSUME NEW n \in Waiting(Tail(q)) PROVE n \in Waiting(q)
    <2>1. PICK i \in DOMAIN Tail(q) : n \in Span(Tail(q)[i])
      BY DEF Waiting
    <2>2. i + 1 \in DOMAIN q /\ Tail(q)[i] = q[i + 1]
      BY <1>1
    <2> QED
      BY <2>1, <2>2 DEF Waiting
  <1>4. Span(Head(q)) \subseteq Waiting(q)
    <2>1. 1 \in DOMAIN q /\ Head(q) = q[1]
      BY <1>1
    <2> QED
      BY <2>1 DEF Waiting
  <1> QED
    BY <1>2, <1>3, <1>4

\* A step that touches neither the baseline nor the channel keeps the chain.
LEMMA ChainKept ==
    ASSUME Chain, UNCHANGED <<prevHead, queue, told, lost>>,
           pending' \in Changes => pending'.from = prevHead
    PROVE  Chain'
  BY DEF Chain, QueueBehind, NoCommitSkipped, NoCommitTwice, Waiting

LEMMA ChainInit == Init => Chain
  <1> SUFFICES ASSUME Init PROVE Chain
    OBVIOUS
  <1>1. DOMAIN queue = {} /\ Waiting(queue) = {}
    BY DEF Init, Waiting
  <1> QED
    BY <1>1, EventFacts
    DEF Init, Chain, QueueBehind, NoCommitSkipped, NoCommitTwice, Events

LEMMA ChainEmit ==
    ASSUME Inv, Emit
    PROVE  Chain'
  <1>1. /\ pending \in Events /\ queue \in Seq(Events)
        /\ prevHead \in Nat /\ told \in SUBSET Nat /\ lost \in SUBSET Nat
    BY DEF Inv, Typed, TypeOK, Emit, Positions
  <1>2. \/ pending = Failure /\ prevHead' = prevHead
        \/ /\ pending \in Changes /\ pending.from = prevHead
           /\ prevHead' = pending.to /\ pending.to \in Nat
           /\ prevHead < pending.to
    BY <1>1, EventFacts
    DEF Inv, Typed, Baseline, Emit, Advanced, Events, Changes, Positions
  <1>3. prevHead' \in Nat /\ prevHead <= prevHead' /\ pending.to <= prevHead'
    BY <1>1, <1>2, EventFacts
  <1>4. /\ Span(pending) \subseteq Nat
        /\ \A n \in Span(pending) : n <= prevHead'
        /\ 2 .. prevHead' \subseteq 2 .. prevHead \cup Span(pending)
    BY <1>1, <1>2, <1>3, EventFacts DEF Span
  <1>5. told' = told /\ pending' = NoEvent
    BY DEF Emit
  <1>6. CASE ~Full /\ queue' = Append(queue, pending) /\ lost' = lost
    <2>1. Waiting(queue') = Waiting(queue) \cup Span(pending)
      BY <1>1, <1>6, WaitingAppended
    <2>2. /\ DOMAIN queue = 1 .. Len(queue) /\ Len(queue) \in Nat
          /\ DOMAIN queue' = 1 .. Len(queue) + 1
          /\ \A i \in 1 .. Len(queue) : queue'[i] = queue[i]
          /\ queue'[Len(queue) + 1] = pending
      BY <1>1, <1>6, AppendProperties
    <2>3. \A i \in DOMAIN queue : queue[i].to \in Nat /\ queue[i].to <= prevHead
      BY <1>1, EventFacts DEF Inv, Chain, QueueBehind
    <2>4. QueueBehind'
      BY <1>1, <1>3, <2>2, <2>3 DEF QueueBehind
    <2>5. NoCommitSkipped'
      BY <1>4, <1>5, <1>6, <2>1 DEF Inv, Chain, NoCommitSkipped
    <2>6. ASSUME NEW i \in DOMAIN queue', NEW j \in DOMAIN queue',
                 i < j, queue'[j] # Failure
          PROVE  queue'[i].to <= queue'[j].from
      <3>1. CASE j = Len(queue) + 1
        BY <1>2, <2>2, <2>3, <2>6, <3>1
      <3>2. CASE j # Len(queue) + 1
        BY <2>2, <2>6, <3>2 DEF Inv, Chain, NoCommitTwice
      <3> QED
        BY <3>1, <3>2
    <2>7. ASSUME NEW n \in told, NEW i \in DOMAIN queue', queue'[i] # Failure
          PROVE  n <= queue'[i].from
      <3>1. CASE i = Len(queue) + 1
        BY <1>2, <2>2, <2>7, <3>1 DEF Inv, Chain, NoCommitTwice
      <3>2. CASE i # Len(queue) + 1
        BY <2>2, <2>7, <3>2 DEF Inv, Chain, NoCommitTwice
      <3> QED
        BY <3>1, <3>2
    <2>8. \A n \in told \cup lost \cup Waiting(queue) : n \in Nat /\ n <= prevHead
      <3>1. Waiting(queue) \subseteq Nat
        BY <1>1, EventFacts DEF Waiting, Positions
      <3> QED
        BY <1>1, <3>1 DEF Inv, Chain, NoCommitTwice
    <2>9. \A n \in told' \cup lost' \cup Waiting(queue') : n <= prevHead'
      BY <1>1, <1>3, <1>4, <1>5, <1>6, <2>1, <2>8
    <2> QED
      BY <1>5, <2>4, <2>5, <2>6, <2>7, <2>9, EventFacts
      DEF Chain, NoCommitTwice, Events
  <1>7. CASE Full /\ lost' = lost \cup Span(pending) /\ queue' = queue
    <2>1. \A i \in DOMAIN queue : queue[i].to \in Nat /\ queue[i].to <= prevHead
      BY <1>1, EventFacts DEF Inv, Chain, QueueBehind
    <2>2. QueueBehind'
      BY <1>1, <1>3, <1>7, <2>1 DEF QueueBehind
    <2>3. NoCommitSkipped'
      BY <1>4, <1>5, <1>7 DEF Inv, Chain, NoCommitSkipped, Waiting
    <2>4. Waiting(queue) \subseteq Nat
      BY <1>1, EventFacts DEF Waiting, Positions
    <2>5. \A n \in told' \cup lost' \cup Waiting(queue') : n <= prevHead'
      BY <1>1, <1>3, <1>4, <1>5, <1>7, <2>4 DEF Inv, Chain, NoCommitTwice
    <2>6. NoCommitTwice'
      BY <1>5, <1>7, <2>5, EventFacts DEF Inv, Chain, NoCommitTwice, Events
    <2> QED
      BY <2>2, <2>3, <2>6 DEF Chain
  <1> QED
    BY <1>6, <1>7 DEF Emit

LEMMA ChainReceive ==
    ASSUME Inv, Receive
    PROVE  Chain'
  <1>1. /\ queue \in Seq(Events) /\ queue # <<>> /\ queue' = Tail(queue)
        /\ told' = told \cup Span(Head(queue))
        /\ UNCHANGED <<prevHead, pending, lost>>
    BY DEF Inv, Typed, TypeOK, Receive, watcherVars
  <1>2. /\ DOMAIN queue = 1 .. Len(queue) /\ Len(queue) \in Nat \ {0}
        /\ DOMAIN queue' = 1 .. Len(queue) - 1
        /\ \A i \in 1 .. Len(queue) - 1 : queue'[i] = queue[i + 1]
        /\ Head(queue) = queue[1] /\ Head(queue) \in Events
    BY <1>1, HeadTailProperties
  <1>3. Waiting(queue) = Span(Head(queue)) \cup Waiting(queue')
    BY <1>1, WaitingTaken
  <1>4. QueueBehind'
    BY <1>1, <1>2 DEF Inv, Chain, QueueBehind
  <1>5. NoCommitSkipped'
    BY <1>1, <1>3 DEF Inv, Chain, NoCommitSkipped
  <1>6. ASSUME NEW i \in DOMAIN queue', NEW j \in DOMAIN queue',
               i < j, queue'[j] # Failure
        PROVE  queue'[i].to <= queue'[j].from
    <2>1. i + 1 \in DOMAIN queue /\ j + 1 \in DOMAIN queue /\ i + 1 < j + 1
      BY <1>2, <1>6
    <2> QED
      BY <1>2, <1>6, <2>1 DEF Inv, Chain, NoCommitTwice
  <1>7. ASSUME NEW n \in told', NEW i \in DOMAIN queue', queue'[i] # Failure
        PROVE  n <= queue'[i].from
    <2>1. /\ i + 1 \in DOMAIN queue /\ 1 \in DOMAIN queue /\ 1 < i + 1
          /\ queue'[i] = queue[i + 1]
      BY <1>2
    <2>2. CASE n \in told
      BY <1>7, <2>1, <2>2 DEF Inv, Chain, NoCommitTwice
    <2>3. CASE n \in Span(Head(queue))
      <3>1. queue[1].to <= queue[i + 1].from
        BY <1>7, <2>1 DEF Inv, Chain, NoCommitTwice
      <3>2. queue[i + 1] \in Events
        BY <1>1, <2>1
      <3>3. n \in Nat /\ n <= queue[1].to
        BY <1>2, <2>3, EventFacts DEF Span, Positions
      <3> QED
        BY <1>2, <2>1, <3>1, <3>2, <3>3, EventFacts
    <2> QED
      BY <1>1, <2>2, <2>3
  <1>8. \A n \in told' \cup lost' \cup Waiting(queue') : n <= prevHead'
    BY <1>1, <1>3 DEF Inv, Chain, NoCommitTwice
  <1>9. pending' \in Changes => pending'.from = prevHead'
    BY <1>1 DEF Inv, Typed, Baseline
  <1> QED
    BY <1>4, <1>5, <1>6, <1>7, <1>8, <1>9 DEF Chain, NoCommitTwice

LEMMA ChainRestart ==
    ASSUME Inv, Restart
    PROVE  Chain'
  <1>1. /\ prevHead \in Nat /\ head \in Nat /\ prevHead <= head
        /\ told \in SUBSET Nat /\ lost \in SUBSET Nat
        /\ Waiting(queue) \subseteq Nat
    BY EventFacts DEF Inv, Typed, TypeOK, Baseline, Positions, Waiting
  <1>2. /\ prevHead' = head /\ told' = told /\ pending' = NoEvent
        /\ lost' = lost \cup Waiting(queue) \cup (prevHead + 1 .. head)
                     \cup (IF todo = {} THEN {} ELSE told)
    BY DEF Restart
  <1>3. DOMAIN queue' = {} /\ Waiting(queue') = {}
    BY DEF Restart, Waiting
  <1>4. NoCommitSkipped'
    BY <1>1, <1>2 DEF Inv, Chain, NoCommitSkipped
  <1>5. \A n \in told' \cup lost' \cup Waiting(queue') : n <= prevHead'
    BY <1>1, <1>2, <1>3 DEF Inv, Chain, NoCommitTwice
  <1> QED
    BY <1>2, <1>3, <1>4, <1>5, EventFacts
    DEF Chain, QueueBehind, NoCommitTwice, Events

LEMMA InvNext == Inv /\ [Next]_vars => Inv'
  <1> SUFFICES ASSUME Inv, [Next]_vars PROVE Inv'
    OBVIOUS
  <1>1. Typed'
    BY TypedNext DEF Inv
  <1>2. CASE PullAndDiff
    <2>1. UNCHANGED <<prevHead, queue, told, lost>>
      BY <1>2 DEF PullAndDiff
    <2>2. pending' \in Changes => pending'.from = prevHead
      BY <1>1, <2>1 DEF Typed, Baseline
    <2> QED
      BY <1>1, <2>1, <2>2, ChainKept DEF Inv
  <1>3. CASE Emit
    BY <1>1, <1>3, ChainEmit DEF Inv
  <1>4. CASE Receive
    BY <1>1, <1>4, ChainReceive DEF Inv
  <1>5. CASE Restart
    BY <1>1, <1>5, ChainRestart DEF Inv
  <1>6. CASE \/ \E t \in Trees : Commit(t)
             \/ Handled
             \/ \E s \in Servers : DeployJAR(s) \/ DeployConfig(s)
             \/ UNCHANGED vars
    <2>1. UNCHANGED <<prevHead, pending, queue, told, lost>>
      BY <1>6 DEF Commit, Handled, DeployJAR, DeployConfig, vars, watcherVars
    <2>2. pending' \in Changes => pending'.from = prevHead
      BY <1>1, <2>1 DEF Typed, Baseline
    <2> QED
      BY <1>1, <2>1, <2>2, ChainKept DEF Inv
  <1> QED
    BY <1>2, <1>3, <1>4, <1>5, <1>6 DEF Next, Watch, Consume

LEMMA InvAlways == Spec => []Inv
  <1>1. Init => Inv
    BY TypedInit, ChainInit DEF Inv
  <1> QED
    BY <1>1, InvNext, PTL DEF Spec

\* Up to the watcher's baseline, every commit was told to the consumer, is on
\* its way or was given up, whatever pull, diff or emit failed.
THEOREM NoCommitSkippedAlways == Spec => []NoCommitSkipped
  <1>1. Inv => NoCommitSkipped
    BY DEF Inv, Chain
  <1> QED
    BY InvAlways, <1>1, PTL

\* The consumer is told of every commit at most once and in the order of the
\* branch.
THEOREM NoCommitTwiceAlways == Spec => []NoCommitTwice
  <1>1. Inv => NoCommitTwice
    BY DEF Inv, Chain
  <1> QED
    BY InvAlways, <1>1, PTL
=============================================================================
