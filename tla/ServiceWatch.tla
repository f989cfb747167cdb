---------------------------- MODULE ServiceWatch ----------------------------
(***************************************************************************)
(* Discovery.Watch of both backends (contrib/registry/etcd/registry.go and *)
(* contrib/registry/consul/registry.go): the goroutine that follows the    *)
(* instances of one service and sends an event for every change into a     *)
(* bounded channel, and a consumer that keeps a view of them.              *)
(*                                                                         *)
(* The backend is the sequence of the writes to the service's instances.   *)
(* An instance is absent, has one of two versions, or holds data that      *)
(* validateService refuses.  etcd streams the writes that follow a         *)
(* revision; Consul answers a blocking query with the present state when   *)
(* it is not the one the query's index names.                              *)
(***************************************************************************)
EXTENDS Naturals, Sequences, FiniteSets, Functions

CONSTANTS
    Ids,            \* instances of the service
    MaxWrites,      \* bound on changes in the backend
    MaxBreaks,      \* bound on failed requests and broken streams
    Capacity        \* of the event channel (32 in the code)

VARIABLES
    source,         \* "etcd" or "consul"
    writes,         \* the backend's history (external)
    breaks,
    wpc,            \* where the watcher is
    index,          \* writes the watcher has been told of
    seen,           \* its map known: what it believes the backend holds
    todo,           \* events it has still to send
    events,         \* the channel
    closed,         \* the channel is closed
    stopped,        \* the context has ended
    view,           \* what the consumer believes
    viewed          \* history: the write each of its beliefs stems from

watchVars == <<source, writes, breaks, wpc, index, seen, todo, events, closed, stopped,
               view, viewed>>

Services == {"v1", "v2"}
Contents == Services \cup {"absent", "invalid"}
Views == Services \cup {"absent"}
Events == [id : Ids, service : Views, write : 0..MaxWrites]

TypeOK ==
    /\ source \in {"etcd", "consul"}
    /\ writes \in Seq([id : Ids, to : Contents]) /\ Len(writes) <= MaxWrites
    /\ breaks \in 0..MaxBreaks
    /\ wpc \in {"watch", "send", "follow", "retry", "failed", "done"}
    /\ index \in 0..MaxWrites
    /\ seen \in [Ids -> Views]
    /\ todo \in Seq(Events)
    /\ events \in Seq(Events) /\ Len(events) <= Capacity
    /\ closed \in BOOLEAN /\ stopped \in BOOLEAN
    /\ view \in [Ids -> Views] /\ viewed \in [Ids -> 0..MaxWrites]

Init ==
    /\ source \in {"etcd", "consul"}
    /\ writes = <<>> /\ breaks = 0
    /\ wpc = "watch" /\ index = 0
    /\ seen = [i \in Ids |-> "absent"]
    /\ todo = <<>> /\ events = <<>>
    /\ closed = FALSE /\ stopped = FALSE
    /\ view = [i \in Ids |-> "absent"] /\ viewed = [i \in Ids |-> 0]

-----------------------------------------------------------------------------
(* The backend, the consumer and its context (external).                   *)

Content(i) ==
    LET changes == {n \in DOMAIN writes : writes[n].id = i}
    IN  IF changes = {} THEN "absent"
        ELSE writes[CHOOSE n \in changes : \A m \in changes : m <= n].to

\* What Discover returns: validateService drops the rest.
Valid(c) == IF c \in Services THEN c ELSE "absent"
Live == [i \in Ids |-> Valid(Content(i))]

Write(i) ==
    /\ Len(writes) < MaxWrites
    /\ \E c \in Contents \ {Content(i)} : writes' = Append(writes, [id |-> i, to |-> c])
    /\ UNCHANGED <<source, breaks, wpc, index, seen, todo, events, closed, stopped, view, viewed>>

Break == breaks < MaxBreaks /\ breaks' = breaks + 1

Stop ==
    /\ ~stopped /\ stopped' = TRUE
    /\ UNCHANGED <<source, writes, breaks, wpc, index, seen, todo, events, closed, view, viewed>>

Consume ==
    /\ events # <<>>
    /\ LET e == Head(events)
       IN  /\ view' = [view EXCEPT ![e.id] = e.service]
           /\ viewed' = [viewed EXCEPT ![e.id] = e.write]
    /\ events' = Tail(events)
    /\ UNCHANGED <<source, writes, breaks, wpc, index, seen, todo, closed, stopped>>

-----------------------------------------------------------------------------
(* The watcher.                                                            *)

Event(i, s, n) == [id |-> i, service |-> s, write |-> n]

\* The snapshot, as a map, keeps no order: its instances are announced in any.
Present(ids, now) == {i \in ids : now[i] # "absent"}
Orders(S) == Bijection(1..Cardinality(S), S)
EventsOf(order, now) == [n \in DOMAIN order |-> Event(order[n], now[order[n]], Len(writes))]

\* Events for ids, the present ones first and then the ones that are gone, in
\* any order.
EventsFor(ids, now) ==
    {EventsOf(p \o d, now) :
        p \in Orders(Present(ids, now)), d \in Orders(ids \ Present(ids, now))}

\* Mutant: instances that disappeared while the stream was down are not announced.
AnnouncedPresent(now) ==
    {i \in Ids : now[i] # "absent" /\ (source = "etcd" \/ now[i] # seen[i])}

\* etcd sends the whole state after every snapshot; Consul what changed.
Announced(now) ==
    {i \in Ids : \/ source = "etcd" /\ now[i] # "absent"
                 \/ now[i] # seen[i]}

\* The watcher has the present state of the backend.
Synchronise ==
    /\ todo' \in EventsFor(Announced(Live), Live)
    /\ seen' = Live
    /\ index' = Len(writes)
    /\ wpc' = "send"

\* Watch: an error of the first request is returned, and no goroutine starts.
Watch ==
    /\ wpc = "watch"
    /\ \/ Synchronise /\ UNCHANGED <<breaks, closed>>
       \/ /\ Break \/ (stopped /\ UNCHANGED breaks)
          /\ wpc' = "failed"
          /\ UNCHANGED <<index, seen, todo, closed>>
    /\ UNCHANGED <<source, writes, events, stopped, view, viewed>>

Done == wpc' = "done" /\ closed' = TRUE

\* Mutant: the send does not watch the context.
SendBlocking ==
    /\ wpc = "send" /\ todo # <<>>
    /\ Len(events) < Capacity
    /\ events' = Append(events, Head(todo))
    /\ todo' = Tail(todo)
    /\ UNCHANGED <<source, writes, breaks, wpc, index, seen, closed, stopped, view, viewed>>

\* sendEvent: it waits for room, or for the end of the context.
Send ==
    /\ wpc = "send" /\ todo # <<>>
    /\ \/ /\ Len(events) < Capacity
          /\ events' = Append(events, Head(todo))
          /\ todo' = Tail(todo)
          /\ UNCHANGED <<wpc, closed>>
       \/ stopped /\ Done /\ UNCHANGED <<events, todo>>
    /\ UNCHANGED <<source, writes, breaks, index, seen, stopped, view, viewed>>

Sent ==
    /\ wpc = "send" /\ todo = <<>>
    /\ wpc' = "follow"
    /\ UNCHANGED <<source, writes, breaks, index, seen, todo, events, closed, stopped, view,
                   viewed>>

\* etcdEvent: one write of the stream.  Invalid data is skipped, not removed.
StreamEvent ==
    /\ source = "etcd" /\ wpc = "follow" /\ index < Len(writes)
    /\ index' = index + 1
    /\ LET w == writes[index']
       IN  IF w.to = "invalid" THEN UNCHANGED <<seen, todo, wpc>>
           ELSE /\ seen' = [seen EXCEPT ![w.id] = w.to]
                /\ todo' = <<Event(w.id, w.to, index')>>
                /\ wpc' = "send"
    /\ UNCHANGED <<source, writes, breaks, events, closed, stopped, view, viewed>>

\* The blocking query returns a state that differs from the one it names.
QueryReturns ==
    /\ source = "consul" /\ wpc = "follow" /\ index < Len(writes)
    /\ Synchronise
    /\ UNCHANGED <<source, writes, breaks, events, closed, stopped, view, viewed>>

\* The stream breaks or the query fails.
FollowFails ==
    /\ wpc = "follow" /\ Break
    /\ wpc' = "retry"
    /\ UNCHANGED <<source, writes, index, seen, todo, events, closed, stopped, view, viewed>>

\* After a pause, etcd takes a new snapshot, until it gets one; Consul repeats
\* its query.
Retry ==
    /\ wpc = "retry" /\ ~stopped
    /\ \/ source = "etcd" /\ Synchronise /\ UNCHANGED breaks
       \/ source = "etcd" /\ Break /\ UNCHANGED <<wpc, index, seen, todo>>
       \/ source = "consul" /\ wpc' = "follow" /\ UNCHANGED <<breaks, index, seen, todo>>
    /\ UNCHANGED <<source, writes, events, closed, stopped, view, viewed>>

\* The end of the context is seen in every wait.
StopSeen ==
    /\ wpc \in {"follow", "retry"} /\ stopped
    /\ Done
    /\ UNCHANGED <<source, writes, breaks, index, seen, todo, events, stopped, view, viewed>>

Watcher ==
    \/ Watch \/ Send \/ Sent \/ StreamEvent \/ QueryReturns \/ FollowFails \/ Retry
    \/ StopSeen

Next == Watcher \/ Consume \/ Stop \/ \E i \in Ids : Write(i)

-----------------------------------------------------------------------------
\* Of every instance the consumer hears in the order of its history: what is
\* under way is no older than what it knows, and what was sent first is not
\* newer than what was sent later.
InOrder ==
    LET pending == events \o todo
    IN  \A n \in DOMAIN pending :
          /\ viewed[pending[n].id] <= pending[n].write
          /\ \A m \in 1..n : pending[m].id = pending[n].id => pending[m].write <= pending[n].write

\* The instance never held data that validateService refuses.
NeverInvalid(i) == \A n \in DOMAIN writes : writes[n] # [id |-> i, to |-> "invalid"]

\* A watcher that waits has told everything: the consumer's view is what the
\* backend held at that moment.  (With etcd, an instance whose data became
\* invalid stays in the view until the next snapshot.)
CaughtUp ==
    wpc = "follow" /\ events = <<>> /\ index = Len(writes) =>
        \A i \in Ids : source = "consul" \/ NeverInvalid(i) => view[i] = Live[i]

Inv == TypeOK /\ InOrder /\ CaughtUp

\* The view of a consumer that keeps reading ends up as what Discover returns.
Converges ==
    <>[](~stopped /\ wpc # "failed") /\ []<>(events = <<>>)
        => <>[](\A i \in Ids : source = "consul" \/ NeverInvalid(i) => view[i] = Live[i])

\* The channel is closed when the context has ended, although nobody may read.
Ends == stopped ~> (closed \/ wpc = "failed")
=============================================================================
