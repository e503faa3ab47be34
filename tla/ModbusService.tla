----------------------------- MODULE ModbusService -----------------------------
(***************************************************************************)
(* modbus/service.go: reconciliation of connection and address definitions *)
(* with the goroutines that poll the devices.                              *)
(*                                                                         *)
(* Reconciliation runs under reconcileMu; what it still has to do with     *)
(* workers and clients is the task list todo, and the lock is free when    *)
(* the list is empty.  Pollers only take the short locks mu, lastMu and    *)
(* the client's, so their steps interleave with the tasks.                 *)
(*                                                                         *)
(* A connection descriptor is its endpoint (all that ParseConnection       *)
(* yields); Disabled stands for one that is disabled, of another driver or *)
(* invalid.  Points that share a register table form one group here; how   *)
(* groupPoints splits them is not part of this module.                     *)
(*                                                                         *)
(* Descriptors reach the service on three ways: load reads them, and each  *)
(* of the two subscriptions (stream.SubscribeSuffix) has a catch-up        *)
(* goroutine that reads them and a callback for the live messages.         *)
(***************************************************************************)
EXTENDS Integers, Sequences, FiniteSets

CONSTANTS
    Connections,     \* subjects that end in .config
    Points,          \* subjects that end in .address
    Endpoints,       \* valid enabled connection descriptors
    Readings,        \* values a device may hold
    Devices,         \* endpoint -> reading, at the start
    Disabled,        \* a descriptor without effect
    Mistyped,        \* a value that is no string
    Nil,
    Initials,        \* subject -> descriptor retained at the start, or Nil
    Choices,         \* subject -> values somebody may publish
    Skews,           \* how far the clock of a publisher may be ahead
    Rank,            \* place of each subject in the order of sort.Strings
    WorkerIds, ClientIds,  \* goroutines and clients that may exist at once
    MaxOps,          \* bound on descriptors published and device changes
    MaxFailures      \* bound on failing requests and publications

Subjects == Connections \cup Points

\* What reconcileAddress keeps of a descriptor; parses is ParsePoint's verdict.
Descriptor ==
    [connection : Connections, register : {"coil", "holding"}, parses : BOOLEAN,
     onChange : BOOLEAN]

\* A message on a subject, with its id and the time at which it was observed.
Messages ==
    [subject : Subjects, raw : Endpoints \cup Descriptor \cup {Disabled, Mistyped},
     id : Nat, at : Nat]

\* A message in the hands of a goroutine, and the call that comes next.
Hands == [message : Messages, stage : {"accept", "handle", "return"}]

\* The goroutines that hand descriptors over, by what they look after: Run while
\* it loads, the catch-up of a subscription and its callback.
Kinds == {"connections", "addresses"}
Readers == {"load", "catchUp"} \X Kinds
Goroutines == {"load", "catchUp", "callback"} \X Kinds
Of(kind) == IF kind = "connections" THEN Connections ELSE Points
KindOf(s) == IF s \in Connections THEN "connections" ELSE "addresses"

ASSUME SubjectsAssumption == Connections \cap Points = {}
ASSUME DescriptorsAssumption ==
    /\ Nil \notin Endpoints /\ Disabled \notin Endpoints /\ Nil # Disabled
    /\ Mistyped \notin Endpoints \cup Descriptor \cup {Disabled, Nil}
    /\ Nil \notin Descriptor /\ Disabled \notin Descriptor
    /\ \A c \in Connections : Choices[c] \subseteq Endpoints \cup {Disabled, Mistyped}
    /\ \A p \in Points : Choices[p] \subseteq Descriptor \cup {Disabled, Mistyped}
    /\ \A initial \in Initials :
        /\ \A c \in Connections : initial[c] \in Endpoints \cup {Disabled, Mistyped, Nil}
        /\ \A p \in Points : initial[p] \in Descriptor \cup {Disabled, Mistyped, Nil}
ASSUME IdsAssumption ==
    /\ Nil \notin WorkerIds /\ Nil \notin ClientIds
    /\ IsFiniteSet(Connections) /\ IsFiniteSet(WorkerIds)
    /\ Cardinality(Connections) <= Cardinality(WorkerIds)
    /\ Nil \notin Readings /\ Devices \subseteq [Endpoints -> Readings]
\* Nil stands for nothing in hand and nothing sent.
ASSUME NilAssumption ==
    /\ Nil \notin Messages /\ Nil \notin Hands
    /\ Nil \notin [point : Points, value : Readings]
ASSUME BoundsAssumption ==
    /\ MaxOps \in Nat /\ MaxFailures \in Nat
    /\ Skews \subseteq Nat /\ Rank \in [Subjects -> Nat]

VARIABLES
    phase,          \* progress of Run
    listed,         \* readers that have listed their subjects
    toRead,         \* subjects each reader has still to read
    hand,           \* message each goroutine has in hand
    unread,         \* subjects load failed to read
    handled,        \* message reconciled last, by subject: a history variable
    started,        \* Service.started
    connections,    \* Service.connections
    points,         \* Service.points
    workers,        \* Service.workers: connection -> id of its goroutine
    clients,        \* Service.clients: connection -> id of its client
    lastPublished,  \* Service.lastPublished
    todo,           \* rest of the reconciliation that holds reconcileMu
    pollers,        \* running poll goroutines by id
    client,         \* managed clients by id: endpoint and open
    retained,       \* what the retain service has of every subject
    ingest,         \* messages it has still to ingest
    live,           \* messages of each subscription that wait for its callback
    last,           \* deliveryState.last: message accepted last, by subject
    device,         \* value behind every endpoint
    bus,            \* last value published for every point
    ops, failures

run == <<phase, listed, toRead, hand, unread, handled, started>>
maps == <<connections, points, workers, clients>>
polling == <<pollers, client, lastPublished, bus>>
environment == <<retained, ingest, live, last, device, ops>>
vars == <<run, maps, polling, todo, environment, failures>>

Unlocked == todo = <<>>

Task(op, arg) == [op |-> op, arg |-> arg]
Restart(c) == <<Task("restart", c)>>  \* restartConnection
CloseOf(k) == IF k = Nil THEN <<>> ELSE <<Task("close", k)>>

NoClient == [endpoint |-> Nil, open |-> FALSE]

\* What the service keeps of a descriptor: nothing if it is disabled, of another
\* driver or invalid.
Parsed(raw) == IF raw = Disabled THEN Nil ELSE raw

\* connectionPointsLocked.
PointsOf(c) ==
    {p \in Points : points[p] # Nil /\ points[p].connection = c /\ points[p].parses}

Referenced ==
    {clients[c] : c \in Connections} \cup {pollers[w].client : w \in DOMAIN pollers}
        \cup {todo[i].arg : i \in DOMAIN todo}

-----------------------------------------------------------------------------
(* Reconciliation.                                                         *)

\* Mutant: a descriptor without effect is stored like any other.
ReconcileConnectionUnchecked(c, raw) ==
    /\ connections' = [connections EXCEPT ![c] = raw]
    /\ clients' = [clients EXCEPT ![c] = Nil]
    /\ todo' = (IF started THEN Restart(c) ELSE <<>>) \o CloseOf(clients[c])
    /\ UNCHANGED <<points, workers, lastPublished>>

\* reconcileConnection and invalidateConnection.
ReconcileConnection(c, raw) ==
    /\ connections' = [connections EXCEPT ![c] = Parsed(raw)]
    /\ IF raw = connections[c]
       THEN UNCHANGED <<clients, todo>>
       ELSE /\ clients' = [clients EXCEPT ![c] = Nil]
            /\ todo' = (IF raw = Disabled THEN <<Task("stop", c)>>
                        ELSE IF started THEN Restart(c) ELSE <<>>)
                       \o CloseOf(clients[c])
    /\ UNCHANGED <<points, workers, lastPublished>>

\* Mutant: a point that moves stays with its previous connection.
ReconcileAddressForgetsPrevious(p, raw) ==
    /\ points' = [points EXCEPT ![p] = Parsed(raw)]
    /\ todo' = IF ~started \/ raw = Disabled THEN <<>> ELSE Restart(raw.connection)
    /\ UNCHANGED <<connections, workers, clients, lastPublished>>

\* reconcileAddress and removePoint.
ReconcileAddress(p, raw) ==
    LET previous == points[p]
    IN  /\ points' = [points EXCEPT ![p] = Parsed(raw)]
        /\ lastPublished' = IF raw = Disabled
                            THEN [lastPublished EXCEPT ![p] = Nil]
                            ELSE lastPublished
        /\ todo' = IF ~started \/ raw = previous THEN <<>>
                   ELSE (IF previous # Nil
                            /\ (raw = Disabled \/ raw.connection # previous.connection)
                         THEN Restart(previous.connection) ELSE <<>>)
                        \o (IF raw # Disabled THEN Restart(raw.connection) ELSE <<>>)
        /\ UNCHANGED <<connections, workers, clients>>

Reconcile(s, raw) ==
    /\ Unlocked
    /\ \/ s \in Connections /\ ReconcileConnection(s, raw)
       \/ s \in Points /\ ReconcileAddress(s, raw)
    /\ UNCHANGED <<pollers, client, bus>>

\* Mutant: the worker is cancelled but not waited for.
StopWorkerNoWait ==
    /\ todo # <<>> /\ Head(todo).op \in {"stop", "restart"}
    /\ LET c == Head(todo).arg
           w == workers[c]
           start == IF Head(todo).op = "restart" THEN <<Task("start", c)>> ELSE <<>>
       IN  /\ workers' = [workers EXCEPT ![c] = Nil]
           /\ todo' = start \o Tail(todo)
           /\ pollers' = IF w = Nil THEN pollers
                         ELSE [pollers EXCEPT ![w].canceled = TRUE]
    /\ UNCHANGED <<run, connections, points, clients, client, lastPublished, bus,
                   environment, failures>>

\* stopWorker takes the worker out of the map ...
StopWorker ==
    /\ todo # <<>> /\ Head(todo).op \in {"stop", "restart"}
    /\ LET c == Head(todo).arg
           w == workers[c]
           stop == IF w = Nil THEN <<>> ELSE <<Task("cancel", w)>>
           start == IF Head(todo).op = "restart" THEN <<Task("start", c)>> ELSE <<>>
       IN  /\ workers' = [workers EXCEPT ![c] = Nil]
           /\ todo' = stop \o start \o Tail(todo)
    /\ UNCHANGED <<run, connections, points, clients, polling, environment, failures>>

\* Mutant: the worker is waited for but not cancelled.
CancelWorkerForgets ==
    /\ todo # <<>> /\ Head(todo).op = "cancel"
    /\ todo' = <<Task("join", Head(todo).arg)>> \o Tail(todo)
    /\ UNCHANGED <<run, maps, polling, environment, failures>>

\* ... worker.stop cancels its context ...
CancelWorker ==
    /\ todo # <<>> /\ Head(todo).op = "cancel"
    /\ pollers' = [pollers EXCEPT ![Head(todo).arg].canceled = TRUE]
    /\ todo' = <<Task("join", Head(todo).arg)>> \o Tail(todo)
    /\ UNCHANGED <<run, maps, client, lastPublished, bus, environment, failures>>

\* ... and waits for the goroutine to end.
JoinWorker ==
    /\ todo # <<>> /\ Head(todo).op = "join"
    /\ Head(todo).arg \notin DOMAIN pollers
    /\ todo' = Tail(todo)
    /\ UNCHANGED <<run, maps, polling, environment, failures>>

\* The second half of restartConnection.
StartWorker ==
    /\ todo # <<>> /\ Head(todo).op = "start"
    /\ todo' = Tail(todo)
    /\ LET c == Head(todo).arg
           w == CHOOSE i \in WorkerIds : i \notin DOMAIN pollers
       IN  IF connections[c] = Nil \/ PointsOf(c) = {}
           THEN UNCHANGED <<workers, pollers>>
           ELSE /\ workers' = [workers EXCEPT ![c] = w]
                /\ pollers' =
                    [i \in DOMAIN pollers \cup {w} |->
                        IF i # w THEN pollers[i]
                        ELSE [connection |-> c, endpoint |-> connections[c],
                              points |-> [p \in PointsOf(c) |-> points[p]],
                              canceled |-> FALSE, client |-> Nil, groups |-> {},
                              values |-> << >>, sent |-> Nil]]
    /\ UNCHANGED <<run, connections, points, clients, client, lastPublished, bus,
                   environment, failures>>

\* managedClient.close.
CloseClient ==
    /\ todo # <<>> /\ Head(todo).op = "close"
    /\ client' = [client EXCEPT ![Head(todo).arg].open = FALSE]
    /\ todo' = Tail(todo)
    /\ UNCHANGED <<run, maps, pollers, lastPublished, bus, environment, failures>>

-----------------------------------------------------------------------------
(* Polling: the goroutine of poll.  It is between two polls while it has   *)
(* no client in hand.                                                      *)

Polls(w) == w \in DOMAIN pollers /\ pollers[w].client # Nil
Empty == << >>

\* The select takes ctx.Done.
PollerEnds(w) ==
    /\ w \in DOMAIN pollers /\ pollers[w].client = Nil /\ pollers[w].canceled
    /\ pollers' = [i \in DOMAIN pollers \ {w} |-> pollers[i]]
    /\ UNCHANGED <<run, maps, client, lastPublished, bus, todo, environment, failures>>

\* The ids left for new clients; ClientIds bounds how many exist at once.
FreeClients == {k \in ClientIds : k \notin Referenced /\ ~client[k].open}

\* clientFor: the client of the connection, or a new one.
ClientFor(w) ==
    IF clients[pollers[w].connection] # Nil
    THEN clients[pollers[w].connection]
    ELSE CHOOSE k \in FreeClients : TRUE

\* The select takes the timer, cancelled or not.
PollBegins(w) ==
    /\ w \in DOMAIN pollers /\ pollers[w].client = Nil
    /\ clients[pollers[w].connection] # Nil \/ FreeClients # {}
    /\ LET c == pollers[w].connection
           k == ClientFor(w)
           groups == {pollers[w].points[p].register : p \in DOMAIN pollers[w].points}
       IN  /\ client' = IF k = clients[c] THEN client
                        ELSE [client EXCEPT ![k] = [endpoint |-> pollers[w].endpoint,
                                                    open |-> FALSE]]
           /\ clients' = [clients EXCEPT ![c] = k]
           /\ pollers' = [pollers EXCEPT ![w].client = k, ![w].groups = groups]
    /\ UNCHANGED <<run, connections, points, workers, lastPublished, bus, todo,
                   environment, failures>>

\* The values of one group are all published.
Published(w) == pollers[w].values = Empty /\ pollers[w].sent = Nil

\* groupPoints sorts the groups by the name of their table.
InTurn(w) == IF "coil" \in pollers[w].groups THEN "coil" ELSE "holding"

\* managedClient.readGroup: open the device if necessary and read.
ReadGroup(w) ==
    /\ Polls(w) /\ Published(w) /\ pollers[w].groups # {}
    /\ LET k == pollers[w].client
           g == InTurn(w)
           members == {p \in DOMAIN pollers[w].points :
                           pollers[w].points[p].register = g}
       IN  /\ client' = [client EXCEPT ![k].open = TRUE]
           /\ pollers' = [pollers EXCEPT
                ![w].groups = @ \ {g},
                ![w].values = [p \in members |-> device[client[k].endpoint]]]
    /\ UNCHANGED <<run, maps, lastPublished, bus, todo, environment, failures>>

\* Open or the request fails: the client is closed and the group skipped.
ReadFails(w) ==
    /\ Polls(w) /\ Published(w) /\ pollers[w].groups # {}
    /\ failures < MaxFailures /\ failures' = failures + 1
    /\ client' = [client EXCEPT ![pollers[w].client].open = FALSE]
    /\ pollers' = [pollers EXCEPT ![w].groups = @ \ {InTurn(w)}]
    /\ UNCHANGED <<run, maps, lastPublished, bus, todo, environment>>

\* Mutant: whether a value was published before, not which.
SameAsAny(w, p) == pollers[w].points[p].onChange /\ lastPublished[p] # Nil

\* sameAsLast, for a point with publish_on_change.
SameAsLast(w, p) ==
    pollers[w].points[p].onChange /\ lastPublished[p] = pollers[w].values[p]

Rest(values, p) == [q \in DOMAIN values \ {p} |-> values[q]]

\* publish for one point: nothing, publishValue, or its failure.
SkipPoint(w, p) ==
    /\ Polls(w) /\ pollers[w].sent = Nil /\ p \in DOMAIN pollers[w].values
    /\ SameAsLast(w, p)
    /\ pollers' = [pollers EXCEPT ![w].values = Rest(@, p)]
    /\ UNCHANGED <<run, maps, client, lastPublished, bus, todo, environment, failures>>

PublishPoint(w, p) ==
    /\ Polls(w) /\ pollers[w].sent = Nil /\ p \in DOMAIN pollers[w].values
    /\ ~SameAsLast(w, p)
    /\ bus' = [bus EXCEPT ![p] = pollers[w].values[p]]
    /\ pollers' = [pollers EXCEPT ![w].sent = [point |-> p, value |-> bus'[p]],
                                 ![w].values = Rest(@, p)]
    /\ UNCHANGED <<run, maps, client, lastPublished, todo, environment, failures>>

\* Mutant: a value is remembered although its publication failed.
PublishFailsRemembers(w, p) ==
    /\ Polls(w) /\ pollers[w].sent = Nil /\ p \in DOMAIN pollers[w].values
    /\ ~SameAsLast(w, p)
    /\ failures < MaxFailures /\ failures' = failures + 1
    /\ lastPublished' = [lastPublished EXCEPT ![p] = pollers[w].values[p]]
    /\ pollers' = [pollers EXCEPT ![w].values = Rest(@, p)]
    /\ UNCHANGED <<run, maps, client, bus, todo, environment>>

PublishFails(w, p) ==
    /\ Polls(w) /\ pollers[w].sent = Nil /\ p \in DOMAIN pollers[w].values
    /\ ~SameAsLast(w, p)
    /\ failures < MaxFailures /\ failures' = failures + 1
    /\ pollers' = [pollers EXCEPT ![w].values = Rest(@, p)]
    /\ UNCHANGED <<run, maps, client, lastPublished, bus, todo, environment>>

\* rememberPublished, after the publication.
RememberPublished(w) ==
    /\ Polls(w) /\ pollers[w].sent # Nil
    /\ lastPublished' = [lastPublished EXCEPT ![pollers[w].sent.point] =
                                                pollers[w].sent.value]
    /\ pollers' = [pollers EXCEPT ![w].sent = Nil]
    /\ UNCHANGED <<run, maps, client, bus, todo, environment, failures>>

\* All groups are done: timer.Reset.
PollDone(w) ==
    /\ Polls(w) /\ Published(w) /\ pollers[w].groups = {}
    /\ pollers' = [pollers EXCEPT ![w].client = Nil]
    /\ UNCHANGED <<run, maps, client, lastPublished, bus, todo, environment, failures>>

-----------------------------------------------------------------------------
(* How descriptors arrive.  Both subscriptions exist before the first load. *)

Idle(g) == hand[g] = Nil
Done(r) == r \in listed /\ toRead[r] = {} /\ Idle(r)

\* Stop ends the subscriptions one after the other.
Cancelled(kind) ==
    phase \in {"closed", "stopped"} \/ (phase = "closing" /\ kind = "addresses")

\* Run loads the connections and then the addresses.
LoadReaches(kind) ==
    /\ phase = "loading" /\ <<"load", kind>> \notin listed
    /\ kind = "addresses" => Done(<<"load", "connections">>)

\* ListSubjects, for load or for a catch-up, whose loop ends with the context.
ListSubjects(r) ==
    /\ r \notin listed /\ (r[1] = "load" => LoadReaches(r[2]))
    /\ listed' = listed \cup {r}
    /\ toRead' = [toRead EXCEPT ![r] =
         {s \in Of(r[2]) : retained[s] # Nil /\ ~(r[1] = "catchUp" /\ Cancelled(r[2]))}]
    /\ UNCHANGED <<phase, hand, unread, handled, started, maps, polling, todo,
                   environment, failures>>

\* A catch-up that gets no list ends; for load see Unsubscribe.
CatchUpListFails(kind) ==
    /\ <<"catchUp", kind>> \notin listed
    /\ failures < MaxFailures /\ failures' = failures + 1
    /\ listed' = listed \cup {<<"catchUp", kind>>}
    /\ UNCHANGED <<phase, toRead, hand, unread, handled, started, maps, polling,
                   todo, environment>>

NextToRead(r, s) ==
    /\ Idle(r) /\ s \in toRead[r] /\ \A t \in toRead[r] : Rank[s] <= Rank[t]
    /\ toRead' = [toRead EXCEPT ![r] = @ \ {s}]

InHand(m, stage) == [message |-> m, stage |-> stage]

\* A reader gets the value of a subject. For load one that is no string is an
\* error; the catch-up shows it to accept first.
ReadDescriptor(r, s) ==
    /\ NextToRead(r, s)
    /\ hand' = [hand EXCEPT ![r] =
         IF r[1] = "catchUp" THEN InHand(retained[s], "accept")
         ELSE IF retained[s].raw # Mistyped THEN InHand(retained[s], "handle") ELSE Nil]
    /\ UNCHANGED <<phase, listed, unread, handled, started, maps, polling, todo,
                   environment, failures>>

\* ... or not, and goes on with the next subject.
ReadDescriptorFails(r, s) ==
    /\ NextToRead(r, s)
    /\ failures < MaxFailures /\ failures' = failures + 1
    /\ unread' = IF r[1] = "load" THEN unread \cup {s} ELSE unread
    /\ UNCHANGED <<phase, listed, hand, handled, started, maps, polling, todo,
                   environment>>

\* deliveryState.accept: neither the message accepted last nor an older one.
Accepts(m) ==
    LET previous == last[m.subject]
    IN  previous = Nil \/ (previous.id # m.id /\ m.at >= previous.at)

\* deliverValue up to its call of the handler.
Deliver(g, m) ==
    /\ last' = IF Accepts(m) THEN [last EXCEPT ![m.subject] = m] ELSE last
    /\ hand' = [hand EXCEPT ![g] =
         IF Accepts(m) /\ m.raw # Mistyped THEN InHand(m, "handle") ELSE Nil]

CatchUpAccepts(kind) ==
    LET g == <<"catchUp", kind>> IN
    /\ ~Idle(g) /\ hand[g].stage = "accept"
    /\ Deliver(g, hand[g].message)
    /\ UNCHANGED <<phase, listed, toRead, unread, handled, started, maps, polling,
                   todo, retained, ingest, live, device, ops, failures>>

\* Mutant: live messages are left to the catch-up while it runs.
CallbackLeavesToCatchUp(kind) ==
    /\ Idle(<<"callback", kind>>) /\ live[kind] # <<>>
    /\ IF Done(<<"catchUp", kind>>)
       THEN Deliver(<<"callback", kind>>, Head(live[kind]))
       ELSE UNCHANGED <<last, hand>>
    /\ live' = [live EXCEPT ![kind] = Tail(@)]
    /\ UNCHANGED <<phase, listed, toRead, unread, handled, started, maps, polling, todo,
                   retained, ingest, device, ops, failures>>

\* NATS calls the callback for one message after the other.
CallbackAccepts(kind) ==
    /\ Idle(<<"callback", kind>>) /\ live[kind] # <<>>
    /\ Deliver(<<"callback", kind>>, Head(live[kind]))
    /\ live' = [live EXCEPT ![kind] = Tail(@)]
    /\ UNCHANGED <<phase, listed, toRead, unread, handled, started, maps, polling,
                   todo, retained, ingest, device, ops, failures>>

\* The handler of the subscriptions, and reconcile of load: it runs when it gets
\* the lock ...
HandleMessage(g) ==
    /\ ~Idle(g) /\ hand[g].stage = "handle"
    /\ Reconcile(hand[g].message.subject, hand[g].message.raw)
    /\ hand' = [hand EXCEPT ![g] =
         IF todo' = <<>> THEN Nil ELSE InHand(@.message, "return")]
    /\ handled' = [handled EXCEPT ![hand[g].message.subject] = hand[g].message]
    /\ UNCHANGED <<phase, listed, toRead, unread, started, environment, failures>>

\* ... and returns at once or when the reconciliation is done.
HandlerReturns(g) ==
    /\ ~Idle(g) /\ hand[g].stage = "return" /\ Unlocked
    /\ hand' = [hand EXCEPT ![g] = Nil]
    /\ UNCHANGED <<phase, listed, toRead, unread, handled, started, maps, polling, todo,
                   environment, failures>>

-----------------------------------------------------------------------------
(* Run after the load.                                                     *)

\* All sequences that list a set.
Listings(S) ==
    {q \in [1..Cardinality(S) -> S] :
        \A x \in S : \E i \in DOMAIN q : \A j \in DOMAIN q : q[j] = x <=> j = i}

StartWorkers ==
    /\ phase = "loading" /\ Done(<<"load", "addresses">>) /\ Unlocked
    /\ phase' = "starting" /\ started' = TRUE
    /\ \E q \in Listings({c \in Connections : connections[c] # Nil}) :
        todo' = [i \in DOMAIN q |-> Task("restart", q[i])]
    /\ UNCHANGED <<listed, toRead, hand, unread, handled, maps, polling, environment,
                   failures>>

\* startWorkers gives the lock back; Run waits for its context.
WorkersStarted ==
    /\ phase = "starting" /\ Unlocked
    /\ phase' = "running"
    /\ UNCHANGED <<listed, toRead, hand, unread, handled, started, maps, polling,
                   todo, environment, failures>>

\* Subscription.Stop cancels the catch-up, which finishes what it has in hand, and
\* drops the live messages that wait; a callback that NATS has begun goes on.
EndSubscription(kind) ==
    /\ toRead' = [toRead EXCEPT ![<<"catchUp", kind>>] = {}]
    /\ live' = [live EXCEPT ![kind] = <<>>]
    /\ UNCHANGED <<listed, hand, unread, handled, started, maps, polling, todo,
                   retained, ingest, last, device, ops>>

\* ctx is done or load got no list: the addresses end first ...
Unsubscribe ==
    /\ \/ phase = "running" /\ UNCHANGED failures
       \/ /\ \E kind \in Kinds : LoadReaches(kind)
          /\ failures < MaxFailures /\ failures' = failures + 1
    /\ phase' = "closing"
    /\ EndSubscription("addresses")

\* ... and when Stop has waited for their catch-up, the connections.
UnsubscribeConnections ==
    /\ phase = "closing" /\ Done(<<"catchUp", "addresses">>)
    /\ phase' = "closed"
    /\ EndSubscription("connections")
    /\ UNCHANGED failures

\* Mutant: workers may still be started after stop.
StopLeavesStarted ==
    /\ phase = "closed" /\ Done(<<"catchUp", "connections">>) /\ Unlocked
    /\ phase' = "stopped"
    /\ workers' = [c \in Connections |-> Nil]
    /\ \E q \in Listings({workers[c] : c \in Connections} \ {Nil}) :
        todo' = [i \in DOMAIN q |-> Task("cancel", q[i])]
    /\ UNCHANGED <<listed, toRead, hand, unread, handled, started, connections,
                   points, clients, polling, environment, failures>>

\* Service.stop: empty the maps, stop the workers one by one, close the clients.
Stop ==
    /\ phase = "closed" /\ Done(<<"catchUp", "connections">>) /\ Unlocked
    /\ phase' = "stopped" /\ started' = FALSE
    /\ workers' = [c \in Connections |-> Nil]
    /\ clients' = [c \in Connections |-> Nil]
    /\ \E q \in Listings({workers[c] : c \in Connections} \ {Nil}) :
       \E r \in Listings({clients[c] : c \in Connections} \ {Nil}) :
        todo' = [i \in DOMAIN q |-> Task("cancel", q[i])]
                \o [i \in DOMAIN r |-> Task("close", r[i])]
    /\ UNCHANGED <<listed, toRead, hand, unread, handled, connections, points, polling,
                   environment, failures>>

-----------------------------------------------------------------------------
(* Designers and devices.                                                  *)

Operation == ops < MaxOps /\ ops' = ops + 1

\* The designer or another client publishes a connection or an address, with the
\* time of its own clock.
PublishDescriptor(s, raw, skew) ==
    /\ Operation
    /\ LET m == [subject |-> s, raw |-> raw, id |-> ops + 1, at |-> ops + 1 + skew]
       IN  /\ ingest' = Append(ingest, m)
           /\ live' = IF Cancelled(KindOf(s)) THEN live
                      ELSE [live EXCEPT ![KindOf(s)] = Append(@, m)]
    /\ UNCHANGED <<run, maps, polling, todo, retained, last, device, failures>>

\* The retain service.
HandleIngest ==
    /\ ingest # <<>>
    /\ retained' = [retained EXCEPT ![Head(ingest).subject] = Head(ingest)]
    /\ ingest' = Tail(ingest)
    /\ UNCHANGED <<run, maps, polling, todo, live, last, device, ops, failures>>

ChangeDevice(e, v) ==
    /\ Operation /\ device[e] # v
    /\ device' = [device EXCEPT ![e] = v]
    /\ UNCHANGED <<run, maps, polling, todo, retained, ingest, live, last, failures>>

-----------------------------------------------------------------------------
Init ==
    /\ phase = "loading" /\ started = FALSE /\ unread = {}
    /\ listed = {} /\ toRead = [r \in Readers |-> {}]
    /\ hand = [g \in Goroutines |-> Nil]
    /\ connections = [c \in Connections |-> Nil]
    /\ points = [p \in Points |-> Nil]
    /\ workers = [c \in Connections |-> Nil]
    /\ clients = [c \in Connections |-> Nil]
    /\ lastPublished = [p \in Points |-> Nil]
    /\ todo = <<>> /\ pollers = Empty
    /\ client = [k \in ClientIds |-> NoClient]
    /\ \E initial \in Initials : retained =
        [s \in Subjects |-> IF initial[s] = Nil THEN Nil ELSE
            [subject |-> s, raw |-> initial[s], id |-> 0, at |-> 0]]
    /\ ingest = <<>> /\ live = [kind \in Kinds |-> <<>>]
    /\ last = [s \in Subjects |-> Nil] /\ handled = [s \in Subjects |-> Nil]
    /\ device \in Devices
    /\ bus = [p \in Points |-> Nil]
    /\ ops = 0 /\ failures = 0

Tasks == StopWorker \/ CancelWorker \/ JoinWorker \/ StartWorker \/ CloseClient

Running ==
    \/ \E r \in Readers : ListSubjects(r)
    \/ \E r \in Readers, s \in Subjects : ReadDescriptor(r, s) \/ ReadDescriptorFails(r, s)
    \/ \E kind \in Kinds :
        CatchUpListFails(kind) \/ CatchUpAccepts(kind) \/ CallbackAccepts(kind)
    \/ \E g \in Goroutines : HandleMessage(g) \/ HandlerReturns(g)
    \/ StartWorkers \/ WorkersStarted \/ UnsubscribeConnections \/ Stop
    \/ HandleIngest

PollStep(w) ==
    \/ PollBegins(w) \/ ReadGroup(w) \/ ReadFails(w) \/ RememberPublished(w)
    \/ PollDone(w)
    \/ \E p \in Points : SkipPoint(w, p) \/ PublishPoint(w, p) \/ PublishFails(w, p)

Environment ==
    \/ Unsubscribe
    \/ \E s \in Subjects : \E raw \in Choices[s], skew \in Skews :
        PublishDescriptor(s, raw, skew)
    \/ \E e \in Endpoints, v \in Readings : ChangeDevice(e, v)

Next == Tasks \/ Running \/ Environment
        \/ \E w \in WorkerIds : PollStep(w) \/ PollerEnds(w)

\* The goroutines are scheduled.  A select with two ready cases chooses at
\* random, so a cancelled poller that comes back to it takes ctx.Done in the
\* end.
Fairness ==
    /\ WF_vars(Tasks) /\ WF_vars(Running)
    /\ \A w \in WorkerIds : WF_vars(PollStep(w)) /\ SF_vars(PollerEnds(w))

Spec == Init /\ [][Next]_vars /\ Fairness

-----------------------------------------------------------------------------
Poller ==
    [connection : Connections, endpoint : Endpoints,
     points : UNION {[P -> Descriptor] : P \in SUBSET Points},
     canceled : BOOLEAN, client : ClientIds \cup {Nil},
     groups : SUBSET {"coil", "holding"},
     values : UNION {[P -> Readings] : P \in SUBSET Points},
     sent : [point : Points, value : Readings] \cup {Nil}]

ArrivalTypes ==
    /\ listed \in SUBSET Readers /\ toRead \in [Readers -> SUBSET Subjects]
    /\ unread \in SUBSET Subjects /\ hand \in [Goroutines -> Hands \cup {Nil}]
    /\ retained \in [Subjects -> Messages \cup {Nil}]
    /\ last \in [Subjects -> Messages \cup {Nil}]
    /\ handled \in [Subjects -> Messages \cup {Nil}]
    /\ ingest \in Seq(Messages) /\ live \in [Kinds -> Seq(Messages)]

TypeOK ==
    /\ phase \in {"loading", "starting", "running", "closing", "closed", "stopped"}
    /\ ArrivalTypes
    /\ started \in BOOLEAN
    /\ connections \in [Connections -> Endpoints \cup {Nil}]
    /\ points \in [Points -> Descriptor \cup {Nil}]
    /\ workers \in [Connections -> WorkerIds \cup {Nil}]
    /\ clients \in [Connections -> ClientIds \cup {Nil}]
    /\ lastPublished \in [Points -> Readings \cup {Nil}]
    /\ bus \in [Points -> Readings \cup {Nil}]
    /\ DOMAIN pollers \subseteq WorkerIds
    /\ \A w \in DOMAIN pollers : pollers[w] \in Poller
    /\ client \in [ClientIds -> [endpoint : Endpoints \cup {Nil}, open : BOOLEAN]]
    /\ device \in [Endpoints -> Readings]

\* However definitions come, move and go, no connection and no point is polled
\* by two goroutines at once: stopWorker waits before another one starts.
OnePoller ==
    \A v, w \in DOMAIN pollers : v # w =>
        /\ pollers[v].connection # pollers[w].connection
        /\ DOMAIN pollers[v].points \cap DOMAIN pollers[w].points = {}

\* Whenever the lock is free, a started service polls exactly the points that
\* are defined, each through the connection it names, and nothing else runs.
WorkersFollowDefinitions ==
    Unlocked /\ started =>
        /\ DOMAIN pollers = {workers[c] : c \in Connections} \ {Nil}
        /\ \A c \in Connections :
            IF connections[c] = Nil \/ PointsOf(c) = {}
            THEN workers[c] = Nil
            ELSE /\ workers[c] # Nil
                 /\ ~pollers[workers[c]].canceled
                 /\ pollers[workers[c]].endpoint = connections[c]
                 /\ pollers[workers[c]].points = [p \in PointsOf(c) |-> points[p]]

\* Run returns only after every goroutine has ended, and a callback that was
\* waiting for the lock starts none.
NothingRunsAfterStop ==
    phase = "stopped" /\ Unlocked => pollers = Empty

\* What publish_on_change compares with is what subscribers last saw, except
\* between a publication and rememberPublished.
CacheMatchesBus ==
    \A p \in Points :
        \/ lastPublished[p] \in {Nil, bus[p]}
        \/ \E w \in DOMAIN pollers :
            pollers[w].sent # Nil /\ pollers[w].sent.point = p

\* What the service has on a subject.
Definition(s) == IF s \in Connections THEN connections[s] ELSE points[s]

\* Nothing is on its way to the service or to the retain service.
Settled ==
    /\ phase = "running" /\ Unlocked /\ ingest = <<>>
    /\ \A kind \in Kinds : live[kind] = <<>>
    /\ \A g \in Goroutines : Idle(g)

\* Nobody could read the subject: load failed and nothing was delivered.
Unknown(s) == s \in unread /\ last[s] = Nil

\* Once every message is handled, the service has the definitions that were
\* published last.
DefinitionsConverge ==
    Settled => \A s \in Subjects :
        retained[s] # Nil /\ ~Unknown(s) => Definition(s) = Parsed(retained[s].raw)

\* The newest message of a subject for deliveryState.accept, which takes what has
\* the same time as newer.
Newest(s) ==
    IF last[s] # Nil /\ last[s].at >= retained[s].at THEN last[s] ELSE retained[s]

\* The last call of the handler was not for the message accepted last: load, the
\* catch-up and the callback each go from a message in hand to the lock.
Overtaken(s) == last[s] # Nil /\ handled[s] # Nil /\ handled[s] # last[s]

\* Nothing that is published is lost on any of the three ways, whatever is read,
\* accepted or dropped, and in which order: once every message is handled, the
\* service has the newest descriptor by the clocks of the publishers, unless one
\* handler call overtook another. A value that is no string changes nothing, and
\* a subject that nobody could read stays unknown.
NewestUnlessOvertaken ==
    Settled => \A s \in Subjects :
        IF retained[s] = Nil THEN Definition(s) = Nil
        ELSE \/ Unknown(s) \/ Overtaken(s) \/ Newest(s).raw = Mistyped
             \/ Definition(s) = Parsed(Newest(s).raw)

\* While the service runs and the lock is free, the client of a connection is one
\* of the endpoint that the connection has now.
ClientsFollowConnections ==
    Unlocked /\ phase = "running" => \A c \in Connections :
        connections[c] # Nil /\ clients[c] # Nil
        => client[clients[c]].endpoint = connections[c]

\* The reconciliation that holds the lock ends: no cycle of waiting with the
\* goroutine it stops.
ReconciliationEnds == []<>Unlocked

\* When nobody changes anything any more and the service goes on, every
\* defined point shows what is behind the client of its connection: failed
\* requests and publications, restarts and suppressed repetitions only delay it.
ValuesArrive ==
    \A p \in Points : <>[](
        started /\ points[p] # Nil => LET c == points[p].connection IN
            connections[c] # Nil /\ p \in PointsOf(c) =>
                /\ clients[c] # Nil
                /\ bus[p] = device[client[clients[c]].endpoint])
=============================================================================
