----------------------------- MODULE Dashboard -----------------------------
(***************************************************************************)
(* What an operator sees of a deploy: the reconciler marks the record,     *)
(* adds to the history and emits (gitops/reconciler.go), a goroutine       *)
(* bridges those messages into the broker (main.go), the pipeline and the  *)
(* HTTP handlers publish directly (api/events.go, handlers.go,             *)
(* jenkins.go), one handler per browser sends them on, and the page        *)
(* (static/app.js) fetches the records again.                              *)
(*                                                                         *)
(* The record of the server is the number of times it was written.  The    *)
(* broker's RWMutex is held for reading while a message is offered to the  *)
(* subscribers, and for writing by Subscribe and unsub.                    *)
(***************************************************************************)
EXTENDS Integers, Sequences, FiniteSets

CONSTANTS
    Deploys,      \* deploys of one server, each a goroutine
    Bridge,       \* the goroutine that drains the reconciler's events
    Browsers,     \* open dashboard pages, one SSE handler each
    Slots,        \* requests a page may have under way
    BufferSize,   \* capacity of a subscriber's channel (32)
    EventsSize,   \* capacity of the reconciler's events channel (64)
    MaxHistory,   \* NewHistory's max (200)
    Idle,         \* no message, no request
    Past,         \* deploys that were over before the pages were opened
    MaxJoins,     \* bound on the times a page connects
    MaxLost       \* bound on the requests of a page that fail

ASSUME BoardAssumption ==
    /\ IsFiniteSet(Deploys) /\ Bridge \notin Deploys
    /\ BufferSize \in Nat \ {0} /\ EventsSize \in Nat \ {0}
    /\ MaxHistory \in Nat \ {0} /\ Past \subseteq Deploys
    /\ MaxJoins \in Nat /\ MaxLost \in Nat

VARIABLES
    record,       \* writes to the server's record in the store
    history,      \* History.records: the deploys they are about
    added,        \* history: all that was ever added
    stage,        \* deploy -> how far its goroutine is
    events,       \* the channel Reconciler.Events
    publishing,   \* publisher -> the message it holds the read lock for
    handler,      \* page -> its handler's life
    buffer,       \* page -> the subscriber's channel
    closed,       \* pages whose channel is closed
    request,      \* page -> slot -> GET /api/v1/servers
    shown,        \* page -> the record it shows
    joins, misses

boardVars == <<record, history, added, stage, events, publishing, handler,
               buffer, closed, request, shown, joins, misses>>
pageVars == <<request, shown, misses>>
sseVars == <<handler, buffer, closed, joins>>

-----------------------------------------------------------------------------
Publishers == Deploys \cup {Bridge}
Versions == 0 .. 2 * Cardinality(Deploys)
Kinds == {"reconcile", "ended", "deploy", "sync", "error"}
Notes == [kind : Kinds, about : Deploys]
Stages == {"new", "accepted", "marked", "running", "working", "recorded",
           "unrecorded", "logged", "reporting", "over"}

Note(kind, d) == [kind |-> kind, about |-> d]
Stage(d, from, to) == stage[d] = from /\ stage' = [stage EXCEPT ![d] = to]

-----------------------------------------------------------------------------
(* Broker.Publish: non-blocking, under the read lock.                      *)

Free(p) == publishing[p] = Idle
Subscribed == {b \in Browsers : handler[b] \in {"on", "leaving"}}
LockWanted == \E b \in Browsers : handler[b] \in {"joining", "leaving"}

\* A goroutine that waits for the write lock lets no new reader in.
Publish(p, note) ==
    /\ Free(p)
    /\ ~LockWanted
    /\ publishing' = [publishing EXCEPT ![p] = [note |-> note, left |-> Subscribed]]

\* Mutant of Sent: a send that waits for the subscriber.
SentWaiting(b, note) ==
    /\ Len(buffer[b]) < BufferSize
    /\ buffer' = [buffer EXCEPT ![b] = Append(@, note)]

\* A subscriber whose channel is full misses the message.
Sent(b, note) ==
    buffer' = [buffer EXCEPT
                 ![b] = IF Len(@) < BufferSize THEN Append(@, note) ELSE @]

Offer(p, b) ==
    /\ ~Free(p)
    /\ b \in publishing[p].left
    /\ Sent(b, publishing[p].note)
    /\ publishing' = [publishing EXCEPT ![p].left = @ \ {b}]
    /\ UNCHANGED <<record, history, added, stage, events, handler, closed, joins,
                   pageVars>>

Release(p) ==
    /\ ~Free(p)
    /\ publishing[p].left = {}
    /\ publishing' = [publishing EXCEPT ![p] = Idle]
    /\ UNCHANGED <<record, history, added, stage, events, sseVars, pageVars>>

-----------------------------------------------------------------------------
(* A deploy started over HTTP.  The record is written in memory whether or *)
(* not the save succeeds.                                                  *)

\* handleSync, handleJenkins: published before the goroutine is started.
Accept(d) ==
    /\ Stage(d, "new", "accepted")
    /\ Publish(d, Note("sync", d))
    /\ UNCHANGED <<record, history, added, events, sseVars, pageVars>>

\* Reconciler.emit: given up after 50 ms when the channel is full.
Emit(note) ==
    events' = IF Len(events) < EventsSize THEN Append(events, note) ELSE events

MarkProgressing(d) ==
    /\ Free(d)
    /\ Stage(d, "accepted", "marked")
    /\ record' = record + 1
    /\ UNCHANGED <<history, added, events, publishing, sseVars, pageVars>>

EmitProgressing(d) ==
    /\ Stage(d, "marked", "running")
    /\ Emit(Note("reconcile", d))
    /\ UNCHANGED <<record, history, added, publishing, sseVars, pageVars>>

\* brokerNotifier: the pipeline's messages, which do not take the bridge.
PipelineSays(d) ==
    /\ Stage(d, "running", "working")
    /\ Publish(d, Note("deploy", d))
    /\ UNCHANGED <<record, history, added, events, sseVars, pageVars>>

\* markSynced and markFailed; markSynced returns when the save fails, markFailed
\* may come before the pipeline has said anything.
MarkEnd(d) ==
    /\ Free(d)
    /\ \/ Stage(d, "working", "recorded") \/ Stage(d, "working", "unrecorded")
       \/ Stage(d, "running", "recorded")
    /\ record' = record + 1
    /\ UNCHANGED <<history, added, events, publishing, sseVars, pageVars>>

\* Mutant of Kept: the ring is cut one entry short.
KeptShort(log) ==
    IF Len(log) < MaxHistory THEN log
    ELSE SubSeq(log, Len(log) - MaxHistory + 2, Len(log))

\* Mutant of Kept: the ring is cut one entry late.
KeptLate(log) ==
    IF Len(log) <= MaxHistory + 1 THEN log
    ELSE SubSeq(log, Len(log) - MaxHistory, Len(log))

\* History.Add drops the oldest entry of a ring that is full.
Kept(log) ==
    IF Len(log) <= MaxHistory THEN log
    ELSE SubSeq(log, Len(log) - MaxHistory + 1, Len(log))

AddHistory(d) ==
    /\ Stage(d, "recorded", "logged")
    /\ history' = Kept(Append(history, d))
    /\ added' = Append(added, d)
    /\ UNCHANGED <<record, events, publishing, sseVars, pageVars>>

\* A deploy that failed returns an error to the goroutine of the handler.
EmitEnd(d) ==
    /\ Stage(d, "logged", "over") \/ Stage(d, "logged", "reporting")
    /\ Emit(Note("ended", d))
    /\ UNCHANGED <<record, history, added, publishing, sseVars, pageVars>>

\* An "error" or, for a strict Jenkins deploy, a "drift".  A server that is no
\* longer in the manifest gets no deploy.
Report(d) ==
    /\ \/ Stage(d, "unrecorded", "over") \/ Stage(d, "reporting", "over")
       \/ Stage(d, "accepted", "over")
    /\ Publish(d, Note("error", d))
    /\ UNCHANGED <<record, history, added, events, sseVars, pageVars>>

\* main.go's bridge.
Forward ==
    /\ events # <<>>
    /\ Publish(Bridge, Head(events))
    /\ events' = Tail(events)
    /\ UNCHANGED <<record, history, added, stage, sseVars, pageVars>>

-----------------------------------------------------------------------------
(* handleEvents: Subscribe, a loop that writes to the page, unsub.         *)

Handler(b, from, to) == handler[b] = from /\ handler' = [handler EXCEPT ![b] = to]
NoReader == \A p \in Publishers : Free(p)

Join(b) ==
    /\ joins[b] < MaxJoins
    /\ joins' = [joins EXCEPT ![b] = @ + 1]
    /\ Handler(b, "off", "joining")
    /\ UNCHANGED <<record, history, added, stage, events, publishing, buffer,
                   closed, pageVars>>

Subscribe(b) ==
    /\ NoReader
    /\ Handler(b, "joining", "on")
    /\ closed' = closed \ {b}
    /\ UNCHANGED <<record, history, added, stage, events, publishing, buffer,
                   joins, pageVars>>

\* The page goes away, or its connection does.
Leave(b) ==
    /\ Handler(b, "on", "leaving")
    /\ UNCHANGED <<record, history, added, stage, events, publishing, buffer,
                   closed, joins, pageVars>>

\* Mutant of Unsubscribable: the channel is closed without the lock.
UnsubscribableAtOnce == TRUE

Unsubscribable == NoReader

Unsubscribe(b) ==
    /\ Unsubscribable
    /\ Handler(b, "leaving", "off")
    /\ closed' = closed \cup {b}
    /\ buffer' = [buffer EXCEPT ![b] = <<>>]
    /\ UNCHANGED <<record, history, added, stage, events, publishing, joins,
                   pageVars>>

-----------------------------------------------------------------------------
(* The page.  Requests overlap and their answers come in any order.        *)

Asked == -1  \* a request the server has not answered yet

\* connectSSE's onAny: these types fetch the servers again ("ended" is a
\* message of type reconcile).
Refreshing == {"reconcile", "ended", "deploy", "sync"}

Deliver(b) ==
    /\ handler[b] = "on"
    /\ buffer[b] # <<>>
    /\ buffer' = [buffer EXCEPT ![b] = Tail(@)]
    /\ LET note == Head(buffer[b]) IN
       IF note.kind \in Refreshing
       THEN \E k \in Slots :
              /\ request[b][k] = Idle
              /\ request' = [request EXCEPT ![b][k] = Asked]
       ELSE UNCHANGED request
    /\ UNCHANGED <<record, history, added, stage, events, publishing, handler,
                   closed, joins, shown, misses>>

\* Mutant of PollDue: only a page without a connection polls.
PollDueOffline(b) == handler[b] = "off"

PollDue(b) == b \in Browsers

\* setInterval, and the refresh button: one at a time is enough.
Poll(b, k) ==
    /\ PollDue(b)
    /\ request[b][k] = Idle
    /\ request' = [request EXCEPT ![b][k] = Asked]
    /\ UNCHANGED <<record, history, added, stage, events, publishing, sseVars,
                   shown, misses>>

\* handleListServers reads the store.
Serve(b, k) ==
    /\ request[b][k] = Asked
    /\ request' = [request EXCEPT ![b][k] = record]
    /\ UNCHANGED <<record, history, added, stage, events, publishing, sseVars,
                   shown, misses>>

Arrive(b, k) ==
    /\ request[b][k] \in Versions
    /\ shown' = [shown EXCEPT ![b] = request[b][k]]
    /\ request' = [request EXCEPT ![b][k] = Idle]
    /\ UNCHANGED <<record, history, added, stage, events, publishing, sseVars,
                   misses>>

\* fetchServers logs an error and leaves the page as it is.
Miss(b, k) ==
    /\ request[b][k] # Idle
    /\ misses[b] < MaxLost
    /\ misses' = [misses EXCEPT ![b] = @ + 1]
    /\ request' = [request EXCEPT ![b][k] = Idle]
    /\ UNCHANGED <<record, history, added, stage, events, publishing, sseVars,
                   shown>>

-----------------------------------------------------------------------------
BoardInit ==
    /\ record = 2 * Cardinality(Past)
    /\ \E order \in [1 .. Cardinality(Past) -> Past] :
         /\ \A d \in Past : \E i \in DOMAIN order : order[i] = d
         /\ added = order
    /\ history = Kept(added)
    /\ events = <<>>
    /\ stage = [d \in Deploys |-> IF d \in Past THEN "over" ELSE "new"]
    /\ publishing = [p \in Publishers |-> Idle]
    /\ handler = [b \in Browsers |-> "off"]
    /\ buffer = [b \in Browsers |-> <<>>]
    /\ closed = {}
    /\ request = [b \in Browsers |-> [k \in Slots |-> Idle]]
    /\ shown = [b \in Browsers |-> record]
    /\ joins = [b \in Browsers |-> 0] /\ misses = [b \in Browsers |-> 0]

Publishing(p) == Release(p) \/ \E b \in Browsers : Offer(p, b)

DeployGoesOn(d) ==
    \/ MarkProgressing(d) \/ EmitProgressing(d) \/ PipelineSays(d)
    \/ MarkEnd(d) \/ AddHistory(d) \/ EmitEnd(d) \/ Report(d)
    \/ Publishing(d)

BridgeGoesOn == Forward \/ Publishing(Bridge)

Locking(b) == Subscribe(b) \/ Unsubscribe(b)

PageGoesOn(b) == \E k \in Slots : Poll(b, k) \/ Serve(b, k) \/ Arrive(b, k)

BoardNext ==
    \/ \E d \in Deploys : Accept(d) \/ DeployGoesOn(d)
    \/ BridgeGoesOn
    \/ \E b \in Browsers :
        \/ Join(b) \/ Leave(b) \/ Locking(b) \/ Deliver(b) \/ PageGoesOn(b)
        \/ \E k \in Slots : Miss(b, k)

\* The goroutines of the daemon are scheduled and the timer of an open page
\* fires; nobody need read a stream, come or go.
BoardFairness ==
    /\ \A d \in Deploys : WF_boardVars(DeployGoesOn(d))
    /\ WF_boardVars(BridgeGoesOn)
    /\ \A b \in Browsers :
         WF_boardVars(Locking(b)) /\ WF_boardVars(PageGoesOn(b))

BoardSpec == BoardInit /\ [][BoardNext]_boardVars /\ BoardFairness

-----------------------------------------------------------------------------
(* Properties.                                                             *)

\* Types of all variables; no channel holds more than its capacity.
BoardTypeOK ==
    /\ record \in Versions
    /\ history \in Seq(Deploys) /\ Len(history) <= MaxHistory
    /\ added \in Seq(Deploys)
    /\ stage \in [Deploys -> Stages]
    /\ events \in Seq(Notes) /\ Len(events) <= EventsSize
    /\ publishing \in [Publishers ->
                         [note : Notes, left : SUBSET Browsers] \cup {Idle}]
    /\ handler \in [Browsers -> {"off", "joining", "on", "leaving"}]
    /\ buffer \in [Browsers -> Seq(Notes)]
    /\ \A b \in Browsers : Len(buffer[b]) <= BufferSize
    /\ closed \in SUBSET Browsers
    /\ request \in [Browsers -> [Slots -> Versions \cup {Asked, Idle}]]
    /\ shown \in [Browsers -> Versions]
    /\ joins \in [Browsers -> 0 .. MaxJoins]
    /\ misses \in [Browsers -> 0 .. MaxLost]

\* No publisher is about to send to a channel that unsub has closed, which
\* would panic and take the daemon down: whoever leaves waits for them.
NoSendOnClosed ==
    \A p \in Publishers : ~Free(p) => publishing[p].left \cap closed = {}

\* Where the message that a deploy ended is, in the bridge's channel, at a
\* publisher or with a subscriber, its entry is in the history already, and it
\* is there until MaxHistory later ones have come.
EndsOnTheWay ==
    {d \in Deploys :
        \/ \E i \in DOMAIN events :
             events[i].kind = "ended" /\ events[i].about = d
        \/ \E p \in Publishers :
             ~Free(p) /\ publishing[p].note.kind = "ended"
                      /\ publishing[p].note.about = d
        \/ \E b \in Browsers : \E i \in DOMAIN buffer[b] :
             buffer[b][i].kind = "ended" /\ buffer[b][i].about = d}
EndedIsInHistory ==
    \A d \in EndsOnTheWay :
        \E i \in DOMAIN added :
            /\ added[i] = d
            /\ Len(added) - i < MaxHistory =>
                 \E j \in DOMAIN history : history[j] = d

\* No page holds a deploy up, whether it reads, hangs, comes or goes.
DeploysReport ==
    \A d \in Deploys : stage[d] = "accepted" ~> stage[d] = "over"

\* After the last deploy every page shows the final record for good, whatever
\* messages it missed, requests it lost and answers that overtook each other.
PagesConverge == \A b \in Browsers : <>[](shown[b] = record)
=============================================================================
