------------------------- MODULE ModbusServiceProofs -------------------------
(***************************************************************************)
(* Safety of modbus/service.go, for every set of connections, points and   *)
(* descriptors.                                                            *)
(*                                                                         *)
(* The argument rests on what the task list says of the goroutines.  A     *)
(* goroutine is either owned, the one of its connection in the map, or it  *)
(* has been taken out of the map by a reconciliation that has still to     *)
(* cancel or to join it; and no task that starts a goroutine stands before *)
(* one that waits for another.                                             *)
(***************************************************************************)
EXTENDS ModbusService, FiniteSetTheorems, TLAPS

-----------------------------------------------------------------------------
(* The inductive invariant: the data.                                      *)

\* What may be published on a subject.
Valid(s) == (IF s \in Connections THEN Endpoints ELSE Descriptor) \cup {Disabled}

Arguments(op) ==
    IF op \in {"restart", "stop", "start"} THEN Connections
    ELSE IF op \in {"cancel", "join"} THEN WorkerIds ELSE ClientIds

TaskType ==
    [op : {"restart", "stop", "start", "cancel", "join", "close"},
     arg : Connections \cup WorkerIds \cup ClientIds]

\* Messages that somebody published.
Sent == {m \in Messages : m.raw \in Valid(m.subject) \cup {Mistyped}}

\* What is kept by subject belongs to it.
Filed(f) ==
    /\ f \in [Subjects -> Sent \cup {Nil}]
    /\ \A s \in Subjects : f[s] # Nil => f[s].subject = s

\* Only strings reach a handler.
HandsOK(h) ==
    /\ h \in [Goroutines ->
              [message : Sent, stage : {"accept", "handle", "return"}] \cup {Nil}]
    /\ \A g \in Goroutines :
        h[g] # Nil /\ h[g].stage # "accept" => h[g].message.raw # Mistyped

\* The descriptors on their way are ones somebody published.
InputsOK ==
    /\ listed \in SUBSET Readers /\ toRead \in [Readers -> SUBSET Subjects]
    /\ unread \in SUBSET Subjects
    /\ Filed(retained) /\ Filed(last) /\ Filed(handled)
    /\ ingest \in Seq(Sent) /\ live \in [Kinds -> Seq(Sent)]
    /\ HandsOK(hand)
    /\ \A r \in Readers : \A s \in toRead[r] : retained[s] # Nil
    /\ ops \in Nat

arrivals == <<listed, toRead, hand, unread, handled, retained, ingest, live, last, ops>>

TodoOK ==
    /\ todo \in Seq(TaskType)
    /\ \A i \in DOMAIN todo : todo[i].arg \in Arguments(todo[i].op)

\* What a goroutine reads and publishes belongs to its points, and a client
\* in use has an endpoint.
Sound(r) ==
    /\ DOMAIN r.values \subseteq DOMAIN r.points
    /\ r.client = Nil => r.sent = Nil
    /\ r.client # Nil => client[r.client].endpoint \in Endpoints
    /\ r.sent # Nil => /\ r.sent.point \in DOMAIN r.points
                       /\ r.sent.value = bus[r.sent.point]

PollersOK ==
    /\ pollers = [w \in DOMAIN pollers |-> pollers[w]]
    /\ \A w \in DOMAIN pollers : Sound(pollers[w])
    /\ \A c \in Connections :
        clients[c] # Nil => client[clients[c]].endpoint \in Endpoints

Data == TypeOK /\ InputsOK /\ TodoOK /\ PollersOK /\ CacheMatchesBus

-----------------------------------------------------------------------------
(* The inductive invariant: who runs, and what is still to be done.        *)

Starters == {"restart", "start", "stop"}

\* A goroutine in the map is running, for that connection, and not cancelled.
Owned ==
    \A c \in Connections : workers[c] # Nil =>
        /\ workers[c] \in DOMAIN pollers
        /\ pollers[workers[c]].connection = c
        /\ ~pollers[workers[c]].canceled

\* Any other goroutine is being stopped.
Accounted ==
    \A w \in DOMAIN pollers :
        \/ workers[pollers[w].connection] = w
        \/ \E i \in DOMAIN todo : todo[i].op \in {"cancel", "join"} /\ todo[i].arg = w

\* What is being stopped has left the map; only the first task waits.
Stopping ==
    \A i \in DOMAIN todo :
        /\ todo[i].op = "cancel" =>
            /\ todo[i].arg \in DOMAIN pollers
            /\ ~pollers[todo[i].arg].canceled
            /\ \A c \in Connections : workers[c] # todo[i].arg
            /\ \A j \in DOMAIN todo :
                todo[j].op \in {"cancel", "join"} /\ todo[j].arg = todo[i].arg => j = i
        /\ todo[i].op = "join" =>
            /\ i = 1
            /\ todo[i].arg \in DOMAIN pollers => pollers[todo[i].arg].canceled
            /\ \A c \in Connections : workers[c] # todo[i].arg

\* Nothing is waited for after a start, and a start finds no goroutine.
Ordered ==
    \A i \in DOMAIN todo :
        /\ todo[i].op \in Starters =>
            \A j \in DOMAIN todo : i < j => todo[j].op \in {"restart", "stop", "close"}
        /\ todo[i].op = "start" => workers[todo[i].arg] = Nil
        /\ todo[i].op = "stop" => connections[todo[i].arg] = Nil

\* Goroutines are started only between StartWorkers and Stop.
OnlyStarted ==
    /\ ~started => \A c \in Connections : workers[c] = Nil
    /\ started => phase \in {"starting", "running", "closing", "closed"}
    /\ phase \in {"starting", "running"} => started
    /\ \A i \in DOMAIN todo : todo[i].op \in {"restart", "start"} => started

Pending(c) == \E i \in DOMAIN todo : todo[i].op \in Starters /\ todo[i].arg = c

UpToDate(c) ==
    IF connections[c] = Nil \/ PointsOf(c) = {}
    THEN workers[c] = Nil
    ELSE /\ workers[c] # Nil
         /\ pollers[workers[c]].endpoint = connections[c]
         /\ pollers[workers[c]].points = [p \in PointsOf(c) |-> points[p]]

\* A goroutine that does not fit the definitions is about to be replaced.
Fresh == started => \A c \in Connections : Pending(c) \/ UpToDate(c)

\* A goroutine in the map polls points of its connection, unless it is the one
\* that the first task is about to stop.
Homed ==
    \A c \in Connections : workers[c] # Nil =>
        \/ \A p \in DOMAIN pollers[workers[c]].points :
            points[p] # Nil /\ points[p].connection = c
        \/ todo # <<>> /\ todo[1] = Task("restart", c)

Control ==
    Owned /\ Accounted /\ Stopping /\ Ordered /\ OnlyStarted /\ Fresh /\ Homed /\ OnePoller

IInv == Data /\ Control

-----------------------------------------------------------------------------
(* The inductive invariant: which message is where.                        *)

HandledOf(m) == handled[m.subject] = m

Waits(m) == \E kind \in Kinds : \E i \in DOMAIN live[kind] : live[kind][i] = m
Ingested(m) == \E i \in DOMAIN ingest : ingest[i] = m
Held(m) == \E g \in Goroutines : hand[g] # Nil /\ hand[g].message = m

\* The messages that somebody has.
Around ==
    {m \in Sent : \/ retained[m.subject] = m \/ last[m.subject] = m
                  \/ HandledOf(m) \/ Waits(m) \/ Ingested(m) \/ Held(m)}

Known(s) == retained[s] # Nil \/ \E i \in DOMAIN ingest : ingest[i].subject = s

\* An id stands for one message, and the retain service has it or gets it.
Identified ==
    \A m \in Around :
        /\ m.id <= ops /\ Known(m.subject)
        /\ \A n \in Around : m.subject = n.subject /\ m.id = n.id => m = n

\* What was there at the start is older than what is published.
Numbered ==
    /\ \A i \in DOMAIN ingest : ingest[i].id > 0
    /\ \A s \in Subjects : retained[s] # Nil /\ retained[s].id = 0 => retained[s].at = 0

\* A published message waits for a callback, or accept has seen a newer one.
Taken ==
    phase \in {"loading", "starting", "running"} => \A m \in Sent :
        m.id > 0 /\ (retained[m.subject] = m \/ Ingested(m)) =>
            Waits(m) \/ (last[m.subject] # Nil /\ m.at <= last[m.subject].at)

\* The definitions are the ones the handler saw last.
Reconciled ==
    \A s \in Subjects :
        Definition(s) = IF handled[s] = Nil THEN Nil ELSE Parsed(handled[s].raw)

\* A goroutine is about to call the handler for the subject.
Handing(s) ==
    \E g \in Goroutines :
        hand[g] # Nil /\ hand[g].stage = "handle" /\ hand[g].message.subject = s

Called ==
    \A s \in Subjects :
        last[s] # Nil /\ last[s].raw # Mistyped => handled[s] # Nil \/ Handing(s)

\* Before the first message is accepted, all have what was there at the start.
FirstRead ==
    \A s \in Subjects : retained[s] # Nil /\ retained[s].id = 0 /\ last[s] = Nil =>
        \A m \in Sent : m.subject = s /\ (HandledOf(m) \/ Held(m)) => m = retained[s]

\* Load hands over every subject that it can read.
Loads ==
    \A s \in Subjects :
        /\ retained[s] # Nil /\ retained[s].id = 0 /\ retained[s].raw # Mistyped
        /\ <<"load", KindOf(s)>> \in listed
        => \/ s \in toRead[<<"load", KindOf(s)>>] \/ s \in unread
           \/ handled[s] # Nil \/ Handing(s)

Loaded(kind) == <<"load", kind>> \in listed /\ toRead[<<"load", kind>>] = {}

LoadDone ==
    /\ <<"load", "addresses">> \in listed => Loaded("connections")
    /\ phase \in {"starting", "running"} => Loaded("connections") /\ Loaded("addresses")

Converging ==
    /\ Identified /\ Numbered /\ Taken /\ Reconciled
    /\ Called /\ FirstRead /\ Loads /\ LoadDone

-----------------------------------------------------------------------------
(* Steps of the polling goroutines.                                        *)

\* What is published is a message.
LEMMA TypesFollow ==
    ASSUME InputsOK'  PROVE ArrivalTypes'
<1>1. Sent \subseteq Messages  BY DEF Sent
<1>2. \A q \in Seq(Sent) : q \in Seq(Messages)  BY <1>1
<1>3. ingest' \in Seq(Messages) /\ live' \in [Kinds -> Seq(Messages)]
  BY <1>2 DEF InputsOK
<1> QED BY <1>1, <1>3 DEF InputsOK, Filed, HandsOK, ArrivalTypes, Hands

\* A step that lets the messages alone.
LEMMA ArrivalsKept ==
    ASSUME InputsOK, UNCHANGED arrivals  PROVE InputsOK' /\ ArrivalTypes'
<1>1. InputsOK'  BY DEF InputsOK, Filed, HandsOK, arrivals
<1> QED BY <1>1, TypesFollow

\* A step of goroutine w that keeps what it was started with.
Turn(w, r) ==
    /\ w \in DOMAIN pollers /\ r \in Poller
    /\ pollers' = [v \in DOMAIN pollers |-> IF v = w THEN r ELSE pollers[v]]
    /\ r.connection = pollers[w].connection /\ r.endpoint = pollers[w].endpoint
    /\ r.points = pollers[w].points /\ r.canceled = pollers[w].canceled

Quiet == UNCHANGED <<phase, started, connections, points, workers, todo>>

\* A step that keeps what the goroutines were started with keeps what the
\* task list says about them.
LEMMA TurnKeepsControl ==
    ASSUME Data, Control, NEW w, NEW r, Turn(w, r), Quiet
    PROVE  Control'
<1> DEFINE Same(v) == /\ pollers'[v].connection = pollers[v].connection
                      /\ pollers'[v].endpoint = pollers[v].endpoint
                      /\ pollers'[v].points = pollers[v].points
                      /\ pollers'[v].canceled = pollers[v].canceled
<1>1. DOMAIN pollers' = DOMAIN pollers /\ \A v \in DOMAIN pollers : Same(v)
  BY DEF Turn
<1> HIDE DEF Same
<1>2. Owned' BY <1>1 DEF Control, Owned, Quiet, Same
<1>3. Accounted' BY <1>1 DEF Control, Accounted, Quiet, Same
<1>4. Stopping' BY <1>1 DEF Control, Stopping, Quiet, Same
<1>5. Ordered' BY DEF Control, Ordered, Quiet
<1>6. OnlyStarted' BY DEF Control, OnlyStarted, Quiet
<1>7. Fresh'
  <2>1. \A c \in Connections : PointsOf(c)' = PointsOf(c)  BY DEF PointsOf, Quiet
  <2>2. \A c \in Connections : Pending(c) => Pending(c)'  BY DEF Pending, Quiet
  <2>3. \A c \in Connections : UpToDate(c) => UpToDate(c)'
    BY <1>1, <2>1 DEF UpToDate, Quiet, Control, Owned, Same
  <2> QED BY <2>2, <2>3 DEF Fresh, Control, Quiet
<1>8. Homed' BY <1>1 DEF Control, Homed, Quiet, Owned, Same
<1>9. OnePoller' BY <1>1 DEF Control, OnePoller, Same
<1> QED BY <1>2, <1>3, <1>4, <1>5, <1>6, <1>7, <1>8, <1>9 DEF Control

ClientType == [endpoint : Endpoints \cup {Nil}, open : BOOLEAN]

\* Clients only gain endpoints, and what is cached is typed.
Supplied ==
    /\ client' \in [ClientIds -> ClientType]
    /\ clients' \in [Connections -> ClientIds \cup {Nil}]
    /\ lastPublished' \in [Points -> Readings \cup {Nil}]
    /\ bus' \in [Points -> Readings \cup {Nil}]
    /\ \A k \in ClientIds :
        client[k].endpoint \in Endpoints => client'[k].endpoint \in Endpoints
    /\ \A c \in Connections :
        clients'[c] # Nil => client'[clients'[c]].endpoint \in Endpoints

LEMMA NewClient ==
    ASSUME NEW f \in [ClientIds -> ClientType], NEW k \in ClientIds, NEW x \in ClientType
    PROVE  /\ [f EXCEPT ![k] = x] \in [ClientIds -> ClientType]
           /\ [f EXCEPT ![k] = x][k] = x
           /\ \A i \in ClientIds : i # k => [f EXCEPT ![k] = x][i] = f[i]
OBVIOUS

\* Opening and closing a client keeps its endpoint.
LEMMA OpenOrClose ==
    ASSUME NEW f \in [ClientIds -> ClientType], NEW k \in ClientIds, NEW b \in BOOLEAN
    PROVE  /\ [f EXCEPT ![k].open = b] \in [ClientIds -> ClientType]
           /\ \A i \in ClientIds : [f EXCEPT ![k].open = b][i].endpoint = f[i].endpoint
<1> DEFINE x == [f[k] EXCEPT !.open = b]
<1>1. f[k] \in ClientType  OBVIOUS
<1>2. x \in ClientType /\ x.endpoint = f[k].endpoint  BY <1>1 DEF ClientType
<1>3. [f EXCEPT ![k].open = b] = [f EXCEPT ![k] = x]  OBVIOUS
<1> HIDE DEF x
<1> QED BY <1>2, <1>3, NewClient

\* What a step of a goroutine has to show, besides CacheMatchesBus.
LEMMA TurnKeepsData ==
    ASSUME Data, NEW w, NEW r, Turn(w, r), Quiet, Supplied, Sound(r)',
           \A v \in DOMAIN pollers : v # w /\ pollers[v].sent # Nil =>
                bus'[pollers[v].sent.point] = bus[pollers[v].sent.point],
           UNCHANGED <<run, environment>>
    PROVE  (TypeOK /\ InputsOK /\ TodoOK /\ PollersOK)'
<1>1. DOMAIN pollers' = DOMAIN pollers  BY DEF Turn
<1>2. \A v \in DOMAIN pollers : pollers'[v] = IF v = w THEN r ELSE pollers[v]
  BY DEF Turn
<1>3. \A v \in DOMAIN pollers' : pollers'[v] \in Poller
  BY <1>1, <1>2 DEF Turn, Data, TypeOK
<1>0. InputsOK' /\ ArrivalTypes'
  BY ArrivalsKept DEF Data, run, environment, arrivals
<1>4. TypeOK'
  BY <1>0, <1>1, <1>3 DEF TypeOK, Data, Quiet, Supplied, ClientType, environment
<1>5. InputsOK' /\ TodoOK'  BY <1>0 DEF TodoOK, Data, Quiet
<1>6. pollers' = [v \in DOMAIN pollers' |-> pollers'[v]]  BY DEF Turn
<1>7. ASSUME NEW v \in DOMAIN pollers'  PROVE Sound(pollers[v])' 
  <2>1. CASE v = w  BY <2>1, <1>1, <1>2 DEF Sound
  <2>2. CASE v # w
    <3> DEFINE q == pollers[v]
    <3>1. pollers'[v] = q /\ q \in Poller /\ Sound(q)
      BY <2>2, <1>1, <1>2 DEF Data, TypeOK, PollersOK
    <3>2. q.client \in ClientIds \cup {Nil}  BY <3>1 DEF Poller
    <3>3. q.sent # Nil => bus'[q.sent.point] = bus[q.sent.point]  BY <2>2, <1>1
    <3> HIDE DEF q
    <3> QED BY <3>1, <3>2, <3>3 DEF Sound, Supplied
  <2> QED BY <2>1, <2>2
<1> QED BY <1>4, <1>5, <1>6, <1>7 DEF PollersOK, Supplied

\* A step after which nobody has forgotten a publication.
LEMMA TurnKeepsCache ==
    ASSUME Data, NEW w, NEW r, Turn(w, r), r.sent = pollers[w].sent,
           UNCHANGED <<bus, lastPublished>>
    PROVE  CacheMatchesBus'
<1>1. \A v \in DOMAIN pollers : v \in DOMAIN pollers' /\ pollers'[v].sent = pollers[v].sent
  BY DEF Turn
<1> QED BY <1>1 DEF CacheMatchesBus, Data

LEMMA PollBeginsStep ==
    ASSUME Data, Control, NEW w \in WorkerIds, PollBegins(w)  PROVE IInv'
<1> DEFINE c == pollers[w].connection
           groups == {pollers[w].points[p].register : p \in DOMAIN pollers[w].points}
<1>1. PICK k : k = ClientFor(w)  OBVIOUS
<1>2. PICK r : r = [pollers[w] EXCEPT !.client = k, !.groups = groups]  OBVIOUS
<1>3. w \in DOMAIN pollers /\ pollers[w] \in Poller /\ Sound(pollers[w])
  BY DEF Data, TypeOK, PollersOK, PollBegins
<1>4. k \in ClientIds
  BY <1>1, <1>3 DEF PollBegins, ClientFor, FreeClients, Data, TypeOK, Poller
<1>5. groups \in SUBSET {"coil", "holding"}
  <2>1. PICK P \in SUBSET Points : pollers[w].points \in [P -> Descriptor]
    BY <1>3 DEF Poller
  <2> QED BY <2>1 DEF Descriptor
<1> HIDE DEF groups
<1>6. r \in Poller /\ r = [pollers[w] EXCEPT !.client = k, !.groups = groups]
  BY <1>2, <1>3, <1>4, <1>5 DEF Poller
<1>7. /\ r.connection = pollers[w].connection /\ r.endpoint = pollers[w].endpoint
      /\ r.points = pollers[w].points /\ r.canceled = pollers[w].canceled
      /\ r.client = k /\ r.sent = pollers[w].sent /\ r.values = pollers[w].values
  BY <1>3, <1>6 DEF Poller
<1>8. pollers' = [v \in DOMAIN pollers |-> IF v = w THEN r ELSE pollers[v]]
  <2>1. pollers' = [pollers EXCEPT ![w].client = k, ![w].groups = groups]
    BY <1>1 DEF groups, PollBegins
  <2>2. pollers = [v \in DOMAIN pollers |-> pollers[v]]  BY DEF Data, PollersOK
  <2> QED BY <2>1, <2>2, <1>2
<1>9. Turn(w, r)  BY <1>3, <1>6, <1>7, <1>8 DEF Turn
<1>10. Quiet /\ UNCHANGED <<run, environment, bus, lastPublished>>
  BY DEF PollBegins, Quiet, run
<1>11. Supplied /\ client'[k].endpoint \in Endpoints
  <2>1. c \in Connections /\ pollers[w].endpoint \in Endpoints  BY <1>3 DEF Poller
  <2>2. clients' = [clients EXCEPT ![c] = k]  BY <1>1 DEF PollBegins
  <2>3. CASE clients[c] # Nil
    <3>1. k = clients[c] /\ client' = client  BY <2>3, <1>1 DEF PollBegins, ClientFor
    <3> QED BY <3>1, <2>1, <2>2, <2>3, <1>4, <1>10 DEF Supplied, Data, TypeOK, PollersOK, ClientType
  <2>4. CASE clients[c] = Nil
    <3>1. client' = [client EXCEPT ![k] = [endpoint |-> pollers[w].endpoint,
                                           open |-> FALSE]]
      BY <2>4, <1>1, <1>4, IdsAssumption DEF PollBegins
    <3>2. client \in [ClientIds -> ClientType]
      BY DEF Data, TypeOK, ClientType
    <3> DEFINE x == [endpoint |-> pollers[w].endpoint, open |-> FALSE]
    <3> x \in ClientType /\ x.endpoint \in Endpoints  BY <2>1 DEF ClientType
    <3> HIDE DEF x
    <3>3. /\ client' \in [ClientIds -> ClientType]
          /\ client'[k].endpoint \in Endpoints
          /\ \A i \in ClientIds : i # k => client'[i] = client[i]
      BY <3>1, <3>2, <1>4, NewClient DEF x
    <3> QED BY <3>3, <2>1, <2>2, <1>4, <1>10 DEF Supplied, Data, TypeOK, PollersOK, ClientType
  <2> QED BY <2>3, <2>4
<1>12. Sound(r)'
  BY <1>3, <1>4, <1>7, <1>10, <1>11, IdsAssumption DEF Sound
<1>13. (TypeOK /\ InputsOK /\ TodoOK /\ PollersOK)'
  BY <1>9, <1>10, <1>11, <1>12, TurnKeepsData
<1>2a. CacheMatchesBus'  BY <1>7, <1>9, <1>10, TurnKeepsCache
<1> QED BY <1>9, <1>10, <1>13, <1>2a, TurnKeepsControl DEF IInv, Data

LEMMA ReadGroupStep ==
    ASSUME Data, Control, NEW w \in WorkerIds, ReadGroup(w)  PROVE IInv'
<1> DEFINE k == pollers[w].client
           g == InTurn(w)
           members == {p \in DOMAIN pollers[w].points : pollers[w].points[p].register = g}
           read == [p \in members |-> device[client[k].endpoint]]
<1>1. pollers[w] \in Poller /\ Sound(pollers[w]) /\ w \in DOMAIN pollers
  BY DEF Data, TypeOK, PollersOK, Polls, ReadGroup
<1>2. k \in ClientIds /\ client[k].endpoint \in Endpoints
  BY <1>1 DEF ReadGroup, Polls, Poller, Sound
<1>3. PICK r : r = [pollers[w] EXCEPT !.groups = @ \ {g}, !.values = read]  OBVIOUS
<1>4. read \in UNION {[P -> Readings] : P \in SUBSET Points} /\ DOMAIN read = members
  <2>1. PICK P \in SUBSET Points : pollers[w].points \in [P -> Descriptor]
    BY <1>1 DEF Poller
  <2>2. members \in SUBSET Points  BY <2>1
  <2>3. device[client[k].endpoint] \in Readings  BY <1>2 DEF Data, TypeOK
  <2>4. read \in [members -> Readings]  BY <2>3
  <2> HIDE DEF read, members
  <2> QED BY <2>2, <2>4
<1>5. members \subseteq DOMAIN pollers[w].points  OBVIOUS
<1>6. pollers' = [v \in DOMAIN pollers |-> IF v = w THEN r ELSE pollers[v]]
  <2>1. pollers' = [pollers EXCEPT ![w].groups = @ \ {g}, ![w].values = read]
    BY DEF ReadGroup
  <2>2. pollers = [v \in DOMAIN pollers |-> pollers[v]]  BY DEF Data, PollersOK
  <2> QED BY <2>1, <2>2, <1>3
<1>7. client' = [client EXCEPT ![k].open = TRUE]  BY DEF ReadGroup
<1> HIDE DEF read, k
<1>8. r \in Poller /\ r = [pollers[w] EXCEPT !.groups = @ \ {g}, !.values = read]
  BY <1>1, <1>3, <1>4 DEF Poller
<1>9. /\ r.connection = pollers[w].connection /\ r.endpoint = pollers[w].endpoint
      /\ r.points = pollers[w].points /\ r.canceled = pollers[w].canceled
      /\ r.client = pollers[w].client /\ r.sent = pollers[w].sent /\ r.values = read
  BY <1>1, <1>8 DEF Poller
<1>10. Turn(w, r)  BY <1>1, <1>8, <1>9, <1>6 DEF Turn
<1>11. Quiet /\ UNCHANGED <<run, environment, bus, lastPublished, clients>>
  BY DEF ReadGroup, Quiet, run, maps
<1>12. Supplied
  <2>1. client \in [ClientIds -> ClientType]  BY DEF Data, TypeOK, ClientType
  <2>2. /\ client' \in [ClientIds -> ClientType]
        /\ \A i \in ClientIds : client'[i].endpoint = client[i].endpoint
    BY <2>1, <1>2, <1>7, OpenOrClose
  <2> QED BY <2>2, <1>11 DEF Supplied, Data, TypeOK, PollersOK, ClientType
<1>13. Sound(r)'
  BY <1>1, <1>2, <1>4, <1>5, <1>9, <1>11, <1>12 DEF Sound, Supplied, k
<1>2a. (TypeOK /\ InputsOK /\ TodoOK /\ PollersOK)'
  BY <1>10, <1>11, <1>12, <1>13, TurnKeepsData
<1>15. CacheMatchesBus'  BY <1>9, <1>10, <1>11, TurnKeepsCache
<1> QED BY <1>10, <1>11, <1>2a, <1>15, TurnKeepsControl DEF IInv, Data

\* One point less to publish.
LEMMA RestType ==
    ASSUME NEW f \in UNION {[P -> Readings] : P \in SUBSET Points}, NEW p
    PROVE  /\ Rest(f, p) \in UNION {[P -> Readings] : P \in SUBSET Points}
           /\ DOMAIN Rest(f, p) \subseteq DOMAIN f
<1>1. PICK P \in SUBSET Points : f \in [P -> Readings]  OBVIOUS
<1>2. Rest(f, p) \in [P \ {p} -> Readings]  BY <1>1 DEF Rest
<1> QED BY <1>1, <1>2

LEMMA ReadFailsStep ==
    ASSUME Data, Control, NEW w \in WorkerIds, ReadFails(w)  PROVE IInv'
<1>1. pollers[w] \in Poller /\ Sound(pollers[w]) /\ w \in DOMAIN pollers
  BY DEF Data, TypeOK, PollersOK, Polls, ReadFails
<1>3. PICK r : r = [pollers[w] EXCEPT !.groups = @ \ {InTurn(w)}]  OBVIOUS
<1>4. pollers' = [v \in DOMAIN pollers |-> IF v = w THEN r ELSE pollers[v]]
  <2>1. pollers' = [pollers EXCEPT ![w].groups = @ \ {InTurn(w)}]  BY DEF ReadFails
  <2>2. pollers = [v \in DOMAIN pollers |-> pollers[v]]  BY DEF Data, PollersOK
  <2> QED BY <2>1, <2>2, <1>3
<1>5. r \in Poller  BY <1>1, <1>3 DEF Poller
<1>6. /\ r.connection = pollers[w].connection /\ r.endpoint = pollers[w].endpoint
      /\ r.points = pollers[w].points /\ r.canceled = pollers[w].canceled
      /\ r.client = pollers[w].client /\ r.sent = pollers[w].sent /\ r.values = pollers[w].values
  BY <1>1, <1>3 DEF Poller
<1>7. Turn(w, r)  BY <1>1, <1>4, <1>5, <1>6 DEF Turn
<1>8. Quiet /\ UNCHANGED <<run, environment, clients, bus, lastPublished>>
  BY DEF ReadFails, Quiet, run, maps
<1>9. Supplied
  <2>1. client \in [ClientIds -> ClientType]  BY DEF Data, TypeOK, ClientType
  <2>2. pollers[w].client \in ClientIds  BY <1>1 DEF ReadFails, Polls, Poller
  <2>3. client' = [client EXCEPT ![pollers[w].client].open = FALSE]  BY DEF ReadFails
  <2>4. /\ client' \in [ClientIds -> ClientType]
        /\ \A i \in ClientIds : client'[i].endpoint = client[i].endpoint
    BY <2>1, <2>2, <2>3, OpenOrClose
  <2> QED BY <2>4, <1>8 DEF Supplied, Data, TypeOK, PollersOK
<1>10. Sound(r)'
  <2>1. pollers[w].client \in ClientIds  BY <1>1 DEF ReadFails, Polls, Poller
  <2> QED BY <2>1, <1>1, <1>6, <1>8, <1>9 DEF Sound, Supplied
<1>11. (TypeOK /\ InputsOK /\ TodoOK /\ PollersOK)'
  BY <1>7, <1>8, <1>9, <1>10, TurnKeepsData
<1>12. CacheMatchesBus'
  BY <1>6, <1>7, <1>8, TurnKeepsCache
<1> QED BY <1>7, <1>8, <1>11, <1>12, TurnKeepsControl DEF IInv, Data

LEMMA RememberPublishedStep ==
    ASSUME Data, Control, NEW w \in WorkerIds, RememberPublished(w)  PROVE IInv'
<1>1. pollers[w] \in Poller /\ Sound(pollers[w]) /\ w \in DOMAIN pollers
  BY DEF Data, TypeOK, PollersOK, Polls, RememberPublished
<1>2. pollers[w].sent # Nil /\ pollers[w].sent \in [point : Points, value : Readings]
  BY <1>1 DEF RememberPublished, Poller
<1>3. PICK r : r = [pollers[w] EXCEPT !.sent = Nil]  OBVIOUS
<1>4. pollers' = [v \in DOMAIN pollers |-> IF v = w THEN r ELSE pollers[v]]
  <2>1. pollers' = [pollers EXCEPT ![w].sent = Nil]  BY DEF RememberPublished
  <2>2. pollers = [v \in DOMAIN pollers |-> pollers[v]]  BY DEF Data, PollersOK
  <2> QED BY <2>1, <2>2, <1>3
<1>5. r \in Poller  BY <1>1, <1>3 DEF Poller
<1>6. /\ r.connection = pollers[w].connection /\ r.endpoint = pollers[w].endpoint
      /\ r.points = pollers[w].points /\ r.canceled = pollers[w].canceled
      /\ r.client = pollers[w].client /\ r.sent = Nil /\ r.values = pollers[w].values
  BY <1>1, <1>3 DEF Poller
<1>7. Turn(w, r)  BY <1>1, <1>4, <1>5, <1>6 DEF Turn
<1>8. Quiet /\ UNCHANGED <<run, environment, clients, client, bus>>
  BY DEF RememberPublished, Quiet, run, maps
<1>9. Supplied
  <2>1. lastPublished' \in [Points -> Readings \cup {Nil}]
    BY <1>2 DEF RememberPublished, Data, TypeOK
  <2> QED BY <2>1, <1>8 DEF Supplied, Data, TypeOK, PollersOK, ClientType
<1>10. Sound(r)'
  BY <1>1, <1>6, <1>8 DEF Sound
<1>11. (TypeOK /\ InputsOK /\ TodoOK /\ PollersOK)'
  BY <1>7, <1>8, <1>9, <1>10, TurnKeepsData
<1>12. CacheMatchesBus'
  <2> DEFINE q == pollers[w].sent.point
  <2>1. lastPublished' = [lastPublished EXCEPT ![q] = pollers[w].sent.value]
    BY DEF RememberPublished
  <2>2. lastPublished'[q] = bus'[q]
    BY <2>1, <1>1, <1>2, <1>8 DEF Sound, Data, TypeOK
  <2>3. \A p \in Points : p # q => lastPublished'[p] = lastPublished[p]
    BY <2>1 DEF Data, TypeOK
  <2>4. \A v \in DOMAIN pollers : v # w => v \in DOMAIN pollers' /\ pollers'[v] = pollers[v]
    BY <1>4
  <2> HIDE DEF q
  <2> QED BY <2>2, <2>3, <2>4, <1>8 DEF CacheMatchesBus, Data, q
<1> QED BY <1>7, <1>8, <1>11, <1>12, TurnKeepsControl DEF IInv, Data

LEMMA PollDoneStep ==
    ASSUME Data, Control, NEW w \in WorkerIds, PollDone(w)  PROVE IInv'
<1>1. pollers[w] \in Poller /\ Sound(pollers[w]) /\ w \in DOMAIN pollers
  BY DEF Data, TypeOK, PollersOK, Polls, PollDone
<1>3. PICK r : r = [pollers[w] EXCEPT !.client = Nil]  OBVIOUS
<1>4. pollers' = [v \in DOMAIN pollers |-> IF v = w THEN r ELSE pollers[v]]
  <2>1. pollers' = [pollers EXCEPT ![w].client = Nil]  BY DEF PollDone
  <2>2. pollers = [v \in DOMAIN pollers |-> pollers[v]]  BY DEF Data, PollersOK
  <2> QED BY <2>1, <2>2, <1>3
<1>5. r \in Poller  BY <1>1, <1>3 DEF Poller
<1>6. /\ r.connection = pollers[w].connection /\ r.endpoint = pollers[w].endpoint
      /\ r.points = pollers[w].points /\ r.canceled = pollers[w].canceled
      /\ r.client = Nil /\ r.sent = pollers[w].sent /\ r.values = pollers[w].values
  BY <1>1, <1>3 DEF Poller
<1>7. Turn(w, r)  BY <1>1, <1>4, <1>5, <1>6 DEF Turn
<1>8. Quiet /\ UNCHANGED <<run, environment, clients, client, bus, lastPublished>>
  BY DEF PollDone, Quiet, run, maps
<1>9. Supplied
  BY <1>8 DEF Supplied, Data, TypeOK, PollersOK, ClientType
<1>10. Sound(r)'
  BY <1>1, <1>6, <1>8 DEF Sound, PollDone, Published
<1>11. (TypeOK /\ InputsOK /\ TodoOK /\ PollersOK)'
  BY <1>7, <1>8, <1>9, <1>10, TurnKeepsData
<1>12. CacheMatchesBus'
  BY <1>6, <1>7, <1>8, TurnKeepsCache
<1> QED BY <1>7, <1>8, <1>11, <1>12, TurnKeepsControl DEF IInv, Data

LEMMA SkipPointStep ==
    ASSUME Data, Control, NEW w \in WorkerIds, NEW p \in Points,
           SkipPoint(w, p)  PROVE IInv'
<1>1. pollers[w] \in Poller /\ Sound(pollers[w]) /\ w \in DOMAIN pollers
  BY DEF Data, TypeOK, PollersOK, Polls, SkipPoint
<1>2. /\ Rest(pollers[w].values, p) \in UNION {[P -> Readings] : P \in SUBSET Points}
      /\ DOMAIN Rest(pollers[w].values, p) \subseteq DOMAIN pollers[w].values
  BY <1>1, RestType DEF Poller
<1>3. PICK r : r = [pollers[w] EXCEPT !.values = Rest(@, p)]  OBVIOUS
<1>4. pollers' = [v \in DOMAIN pollers |-> IF v = w THEN r ELSE pollers[v]]
  <2>1. pollers' = [pollers EXCEPT ![w].values = Rest(@, p)]  BY DEF SkipPoint
  <2>2. pollers = [v \in DOMAIN pollers |-> pollers[v]]  BY DEF Data, PollersOK
  <2> QED BY <2>1, <2>2, <1>3
<1>5. r \in Poller  BY <1>1, <1>3, <1>2 DEF Poller
<1>6. /\ r.connection = pollers[w].connection /\ r.endpoint = pollers[w].endpoint
      /\ r.points = pollers[w].points /\ r.canceled = pollers[w].canceled
      /\ r.client = pollers[w].client /\ r.sent = pollers[w].sent
      /\ r.values = Rest(pollers[w].values, p)
  BY <1>1, <1>3, <1>2 DEF Poller
<1>7. Turn(w, r)  BY <1>1, <1>4, <1>5, <1>6 DEF Turn
<1>8. Quiet /\ UNCHANGED <<run, environment, clients, client, bus, lastPublished>>
  BY DEF SkipPoint, Quiet, run, maps
<1>9. Supplied
  BY <1>8 DEF Supplied, Data, TypeOK, PollersOK, ClientType
<1>10. Sound(r)'
  BY <1>1, <1>2, <1>6, <1>8 DEF Sound
<1>11. (TypeOK /\ InputsOK /\ TodoOK /\ PollersOK)'
  BY <1>7, <1>8, <1>9, <1>10, TurnKeepsData
<1>12. CacheMatchesBus'
  BY <1>6, <1>7, <1>8, TurnKeepsCache
<1> QED BY <1>7, <1>8, <1>11, <1>12, TurnKeepsControl DEF IInv, Data

LEMMA PublishFailsStep ==
    ASSUME Data, Control, NEW w \in WorkerIds, NEW p \in Points,
           PublishFails(w, p)  PROVE IInv'
<1>1. pollers[w] \in Poller /\ Sound(pollers[w]) /\ w \in DOMAIN pollers
  BY DEF Data, TypeOK, PollersOK, Polls, PublishFails
<1>2. /\ Rest(pollers[w].values, p) \in UNION {[P -> Readings] : P \in SUBSET Points}
      /\ DOMAIN Rest(pollers[w].values, p) \subseteq DOMAIN pollers[w].values
  BY <1>1, RestType DEF Poller
<1>3. PICK r : r = [pollers[w] EXCEPT !.values = Rest(@, p)]  OBVIOUS
<1>4. pollers' = [v \in DOMAIN pollers |-> IF v = w THEN r ELSE pollers[v]]
  <2>1. pollers' = [pollers EXCEPT ![w].values = Rest(@, p)]  BY DEF PublishFails
  <2>2. pollers = [v \in DOMAIN pollers |-> pollers[v]]  BY DEF Data, PollersOK
  <2> QED BY <2>1, <2>2, <1>3
<1>5. r \in Poller  BY <1>1, <1>3, <1>2 DEF Poller
<1>6. /\ r.connection = pollers[w].connection /\ r.endpoint = pollers[w].endpoint
      /\ r.points = pollers[w].points /\ r.canceled = pollers[w].canceled
      /\ r.client = pollers[w].client /\ r.sent = pollers[w].sent
      /\ r.values = Rest(pollers[w].values, p)
  BY <1>1, <1>3, <1>2 DEF Poller
<1>7. Turn(w, r)  BY <1>1, <1>4, <1>5, <1>6 DEF Turn
<1>8. Quiet /\ UNCHANGED <<run, environment, clients, client, bus, lastPublished>>
  BY DEF PublishFails, Quiet, run, maps
<1>9. Supplied
  BY <1>8 DEF Supplied, Data, TypeOK, PollersOK, ClientType
<1>10. Sound(r)'
  BY <1>1, <1>2, <1>6, <1>8 DEF Sound
<1>11. (TypeOK /\ InputsOK /\ TodoOK /\ PollersOK)'
  BY <1>7, <1>8, <1>9, <1>10, TurnKeepsData
<1>12. CacheMatchesBus'
  BY <1>6, <1>7, <1>8, TurnKeepsCache
<1> QED BY <1>7, <1>8, <1>11, <1>12, TurnKeepsControl DEF IInv, Data

LEMMA PublishPointStep ==
    ASSUME Data, Control, NEW w \in WorkerIds, NEW p \in Points,
           PublishPoint(w, p)  PROVE IInv'
<1>1. pollers[w] \in Poller /\ Sound(pollers[w]) /\ w \in DOMAIN pollers
  BY DEF Data, TypeOK, PollersOK, Polls, PublishPoint
<1>2. /\ Rest(pollers[w].values, p) \in UNION {[P -> Readings] : P \in SUBSET Points}
      /\ DOMAIN Rest(pollers[w].values, p) \subseteq DOMAIN pollers[w].values
  BY <1>1, RestType DEF Poller
<1>2a. PICK m :
               /\ m = [point |-> p, value |-> bus'[p]]
               /\ m \in [point : Points, value : Readings] /\ m # Nil
               /\ p \in DOMAIN pollers[w].points
               /\ bus' \in [Points -> Readings \cup {Nil}]
               /\ bus' = [bus EXCEPT ![p] = pollers[w].values[p]]
  <2>1. bus' = [bus EXCEPT ![p] = pollers[w].values[p]] /\ p \in DOMAIN pollers[w].values
    BY DEF PublishPoint
  <2>2. PICK P \in SUBSET Points : pollers[w].values \in [P -> Readings]
    BY <1>1 DEF Poller
  <2>3. pollers[w].values[p] \in Readings  BY <2>1, <2>2
  <2>4. bus' \in [Points -> Readings \cup {Nil}] /\ bus'[p] \in Readings
    BY <2>1, <2>3 DEF Data, TypeOK
  <2>5. p \in DOMAIN pollers[w].points  BY <2>1, <1>1 DEF Sound
  <2>6. [point |-> p, value |-> bus'[p]] \in [point : Points, value : Readings]
    BY <2>4
  <2> QED BY <2>1, <2>4, <2>5, <2>6, NilAssumption
<1>3. PICK r : r = [pollers[w] EXCEPT !.sent = m, !.values = Rest(@, p)]  OBVIOUS
<1>4. pollers' = [v \in DOMAIN pollers |-> IF v = w THEN r ELSE pollers[v]]
  <2>1. pollers' = [pollers EXCEPT ![w].sent = m, ![w].values = Rest(@, p)]
    BY <1>2a DEF PublishPoint
  <2>2. pollers = [v \in DOMAIN pollers |-> pollers[v]]  BY DEF Data, PollersOK
  <2> QED BY <2>1, <2>2, <1>3
<1>5. r \in Poller  BY <1>1, <1>3, <1>2, <1>2a DEF Poller
<1>6. /\ r.connection = pollers[w].connection /\ r.endpoint = pollers[w].endpoint
      /\ r.points = pollers[w].points /\ r.canceled = pollers[w].canceled
      /\ r.client = pollers[w].client /\ r.sent = m
      /\ r.values = Rest(pollers[w].values, p)
  BY <1>1, <1>3, <1>2, <1>2a DEF Poller
<1>7. Turn(w, r)  BY <1>1, <1>4, <1>5, <1>6 DEF Turn
<1>8. Quiet /\ UNCHANGED <<run, environment, clients, client, lastPublished>>
  BY DEF PublishPoint, Quiet, run, maps
<1>9. Supplied
  BY <1>8, <1>2a DEF Supplied, Data, TypeOK, PollersOK, ClientType
<1>10. Sound(r)'
  BY <1>1, <1>2, <1>6, <1>8, <1>2a DEF Sound, PublishPoint, Polls
<1>12. \A v \in DOMAIN pollers : v # w /\ pollers[v].sent # Nil =>
        bus'[pollers[v].sent.point] = bus[pollers[v].sent.point]
  <2> SUFFICES ASSUME NEW v \in DOMAIN pollers, v # w, pollers[v].sent # Nil
               PROVE  bus'[pollers[v].sent.point] = bus[pollers[v].sent.point]
    OBVIOUS
  <2>1. pollers[v] \in Poller /\ Sound(pollers[v])  BY DEF Data, TypeOK, PollersOK
  <2>2. pollers[v].sent.point \in DOMAIN pollers[v].points  BY <2>1 DEF Sound
  <2>3. DOMAIN pollers[v].points \cap DOMAIN pollers[w].points = {}
    BY <1>1 DEF Control, OnePoller
  <2>4. pollers[v].sent.point # p  BY <2>2, <2>3, <1>2a
  <2>5. pollers[v].sent \in [point : Points, value : Readings]  BY <2>1 DEF Poller
  <2> QED BY <2>4, <2>5, <1>2a DEF Data, TypeOK
<1>11. (TypeOK /\ InputsOK /\ TodoOK /\ PollersOK)'
  BY <1>7, <1>8, <1>9, <1>10, <1>12, TurnKeepsData
<1>13. CacheMatchesBus'
  <2>1. \A q \in Points : q # p => bus'[q] = bus[q]  BY <1>2a DEF Data, TypeOK
  <2>2. \A v \in DOMAIN pollers : v # w => v \in DOMAIN pollers' /\ pollers'[v] = pollers[v]
    BY <1>4
  <2>3. w \in DOMAIN pollers' /\ pollers'[w] = r  BY <1>1, <1>4
  <2>4. r.sent # Nil /\ r.sent.point = p  BY <1>6, <1>2a, IdsAssumption
  <2>5. pollers[w].sent = Nil  BY DEF PublishPoint
  <2> QED BY <2>1, <2>2, <2>3, <2>4, <2>5, <1>8 DEF CacheMatchesBus, Data
<1> QED BY <1>7, <1>8, <1>11, <1>13, TurnKeepsControl DEF IInv, Data

LEMMA PollerEndsStep ==
    ASSUME Data, Control, NEW w \in WorkerIds, PollerEnds(w)  PROVE IInv'
<1>1. /\ w \in DOMAIN pollers /\ pollers[w].client = Nil /\ pollers[w].canceled
      /\ DOMAIN pollers' = DOMAIN pollers \ {w}
      /\ pollers' = [v \in DOMAIN pollers' |-> pollers[v]]
      /\ \A v \in DOMAIN pollers' : pollers'[v] = pollers[v]
  BY DEF PollerEnds
<1>2. UNCHANGED <<run, maps, client, lastPublished, bus, todo, environment>>
  BY DEF PollerEnds
<1>3. \A c \in Connections : workers[c] # w
  BY <1>1, IdsAssumption DEF Control, Owned, Data, TypeOK
<1>4a. InputsOK' /\ ArrivalTypes'
  BY <1>2, ArrivalsKept DEF Data, run, environment, arrivals
<1>4. TypeOK' /\ InputsOK' /\ TodoOK'
  BY <1>1, <1>2, <1>4a DEF Data, TypeOK, TodoOK, run, maps, environment
<1>5. PollersOK'  BY <1>1, <1>2 DEF Data, PollersOK, Sound, maps
<1>6. CacheMatchesBus'
  <2>1. pollers[w].sent = Nil  BY <1>1 DEF Data, PollersOK, Sound
  <2> QED BY <2>1, <1>1, <1>2 DEF Data, CacheMatchesBus
<1>7. Owned' /\ Ordered' /\ OnlyStarted' /\ OnePoller'
  BY <1>1, <1>2, <1>3 DEF Control, Owned, Ordered, OnlyStarted, OnePoller, run, maps
<1>8. Accounted'  BY <1>1, <1>2 DEF Control, Accounted, maps
<1>9. Stopping'  BY <1>1, <1>2 DEF Control, Stopping, maps
<1>10. Fresh'
  <2>1. \A c \in Connections : PointsOf(c)' = PointsOf(c)  BY <1>2 DEF PointsOf, maps
  <2>2. \A c \in Connections : Pending(c) => Pending(c)'  BY <1>2 DEF Pending
  <2>3. \A c \in Connections : UpToDate(c) => UpToDate(c)'
    BY <1>1, <1>2, <1>3, <2>1 DEF UpToDate, Control, Owned, maps
  <2> QED BY <2>2, <2>3, <1>2 DEF Fresh, Control, run
<1>11. Homed'  BY <1>1, <1>2, <1>3 DEF Control, Homed, Owned, maps
<1> QED BY <1>4, <1>5, <1>6, <1>7, <1>8, <1>9, <1>10, <1>11 DEF IInv, Data, Control

-----------------------------------------------------------------------------
(* Steps of the task list.                                                 *)

LEMMA TailOf ==
    ASSUME NEW s \in Seq(TaskType), s # <<>>
    PROVE  /\ Tail(s) \in Seq(TaskType) /\ Len(s) \in Nat /\ Len(s) >= 1
           /\ Len(Tail(s)) = Len(s) - 1 /\ Head(s) = s[1] /\ s[1] \in TaskType
           /\ \A i \in 1..(Len(s) - 1) : Tail(s)[i] = s[i + 1]
OBVIOUS

\* The first task is replaced by at most two others.
Front(front) ==
    /\ front \in Seq(TaskType)
    /\ Len(todo') = Len(front) + Len(todo) - 1
    /\ \A i \in 1..Len(front) : todo'[i] = front[i]
    /\ \A i \in Len(front)+1..Len(todo') : todo'[i] = todo[i - Len(front) + 1]

LEMMA FrontFacts ==
    ASSUME TodoOK, todo # <<>>, NEW front \in Seq(TaskType),
           todo' = front \o Tail(todo)
    PROVE  Front(front) /\ todo' \in Seq(TaskType)
<1>1. /\ Tail(todo) \in Seq(TaskType) /\ Len(todo) \in Nat /\ Len(todo) >= 1
      /\ Len(Tail(todo)) = Len(todo) - 1
      /\ \A i \in 1..(Len(todo) - 1) : Tail(todo)[i] = todo[i + 1]
  BY TailOf DEF TodoOK
<1>2. /\ todo' \in Seq(TaskType) /\ Len(todo') = Len(front) + Len(todo) - 1
      /\ Len(front) \in Nat
      /\ \A i \in 1..Len(front) : todo'[i] = front[i]
  BY <1>1
<1>3. ASSUME NEW i \in Len(front)+1..Len(todo')
      PROVE  todo'[i] = todo[i - Len(front) + 1]
  <2>1. todo'[i] = Tail(todo)[i - Len(front)]  BY <1>1, <1>2
  <2>2. i - Len(front) \in 1..(Len(todo) - 1)  BY <1>1, <1>2
  <2> QED BY <2>1, <2>2, <1>1
<1> QED BY <1>2, <1>3 DEF Front

\* The first task is done.
LEMMA PopFacts ==
    ASSUME TodoOK, todo # <<>>, todo' = Tail(todo)
    PROVE  /\ todo' \in Seq(TaskType) /\ Len(todo) \in Nat
           /\ \A i \in DOMAIN todo' : i + 1 \in DOMAIN todo /\ todo'[i] = todo[i + 1]
           /\ \A i \in DOMAIN todo : i # 1 =>
                i - 1 \in DOMAIN todo' /\ todo'[i - 1] = todo[i]
           /\ DOMAIN todo' \subseteq Nat \ {0} /\ DOMAIN todo \subseteq Nat \ {0}
           /\ 1 \in DOMAIN todo /\ Head(todo) = todo[1]
           /\ TodoOK'
<1>1. /\ Tail(todo) \in Seq(TaskType) /\ Len(todo) \in Nat /\ Len(todo) >= 1
      /\ Len(Tail(todo)) = Len(todo) - 1 /\ Head(todo) = todo[1]
      /\ \A i \in 1..(Len(todo) - 1) : Tail(todo)[i] = todo[i + 1]
  BY TailOf DEF TodoOK
<1>2. DOMAIN todo' = 1..(Len(todo) - 1) /\ DOMAIN todo = 1..Len(todo)
  BY <1>1 DEF TodoOK
<1>3. \A i \in DOMAIN todo' : i + 1 \in DOMAIN todo /\ todo'[i] = todo[i + 1]
  BY <1>1, <1>2
<1>4. \A i \in DOMAIN todo : i # 1 => i - 1 \in DOMAIN todo' /\ todo'[i - 1] = todo[i]
  BY <1>1, <1>2
<1>5. TodoOK'  BY <1>1, <1>3 DEF TodoOK
<1> QED BY <1>1, <1>2, <1>3, <1>4, <1>5

\* Nothing but the first task goes, and it started nothing.
LEMMA PopKeepsControl ==
    ASSUME Data, Control, todo # <<>>, todo' = Tail(todo), todo[1].op \notin Starters,
           \A w \in DOMAIN pollers :
                todo[1].op \in {"cancel", "join"} => todo[1].arg # w,
           UNCHANGED <<phase, started, connections, points, workers, pollers>>
    PROVE  Control'
<1>1. /\ todo' \in Seq(TaskType) /\ Len(todo) \in Nat
      /\ \A i \in DOMAIN todo' : i + 1 \in DOMAIN todo /\ todo'[i] = todo[i + 1]
      /\ \A i \in DOMAIN todo : i # 1 =>
          i - 1 \in DOMAIN todo' /\ todo'[i - 1] = todo[i]
      /\ DOMAIN todo' \subseteq Nat \ {0} /\ DOMAIN todo \subseteq Nat \ {0}
  BY PopFacts DEF Data
<1>2. Owned' /\ OnlyStarted' /\ OnePoller'
  BY <1>1 DEF Control, Owned, OnlyStarted, OnePoller
<1>3. Accounted'
  <2> SUFFICES ASSUME NEW w \in DOMAIN pollers, workers[pollers[w].connection] # w
               PROVE  \E i \in DOMAIN todo' :
                        todo'[i].op \in {"cancel", "join"} /\ todo'[i].arg = w
    BY DEF Accounted
  <2>1. PICK i \in DOMAIN todo : todo[i].op \in {"cancel", "join"} /\ todo[i].arg = w
    BY DEF Control, Accounted
  <2>2. i # 1  BY <2>1
  <2> QED BY <1>1, <2>1, <2>2
<1>4. Stopping'
  <2> SUFFICES ASSUME NEW i \in DOMAIN todo'  PROVE (Stopping!(i))'
    BY DEF Stopping
  <2>1. i + 1 \in DOMAIN todo /\ todo'[i] = todo[i + 1] /\ i + 1 # 1  BY <1>1
  <2>2. todo[i + 1].op # "join"  BY <2>1 DEF Control, Stopping
  <2>3. \A j \in DOMAIN todo' : j + 1 = i + 1 => j = i  BY <1>1
  <2> QED BY <1>1, <2>1, <2>2, <2>3 DEF Control, Stopping
<1>5. Ordered'
  <2>1. \A i, j \in DOMAIN todo' : i < j => i + 1 < j + 1  BY <1>1
  <2> QED BY <1>1, <2>1 DEF Control, Ordered
<1>6. Fresh'
  <2>1. \A c \in Connections : PointsOf(c)' = PointsOf(c)  BY DEF PointsOf
  <2>2. \A c \in Connections : Pending(c) => Pending(c)'  BY <1>1 DEF Pending
  <2>3. \A c \in Connections : UpToDate(c) => UpToDate(c)'  BY <2>1 DEF UpToDate
  <2> QED BY <2>2, <2>3 DEF Fresh, Control
<1>7. Homed'
  <2>1. \A c \in Connections : todo[1] # Task("restart", c)  BY DEF Task, Starters
  <2> QED BY <2>1 DEF Control, Homed
<1> QED BY <1>2, <1>3, <1>4, <1>5, <1>6, <1>7 DEF Control

LEMMA JoinWorkerStep ==
    ASSUME Data, Control, JoinWorker  PROVE IInv'
<1>1. /\ todo # <<>> /\ todo' = Tail(todo) /\ todo[1].op = "join"
      /\ todo[1].arg \notin DOMAIN pollers /\ TodoOK'
  BY PopFacts DEF JoinWorker, Data
<1>2. UNCHANGED <<run, maps, polling, environment>>  BY DEF JoinWorker
<1>3. Control'
  BY <1>1, <1>2, PopKeepsControl DEF run, maps, polling, Starters
<1>4a. InputsOK' /\ ArrivalTypes'
  BY <1>2, ArrivalsKept DEF Data, run, environment, arrivals
<1>4. TypeOK' /\ InputsOK'
  BY <1>2, <1>4a DEF Data, TypeOK, run, maps, polling, environment
<1>5. PollersOK' /\ CacheMatchesBus'
  BY <1>2 DEF Data, PollersOK, Sound, CacheMatchesBus, maps, polling
<1> QED BY <1>1, <1>3, <1>4, <1>5 DEF IInv, Data

LEMMA CloseClientStep ==
    ASSUME Data, Control, CloseClient  PROVE IInv'
<1>1. /\ todo # <<>> /\ todo' = Tail(todo) /\ todo[1].op = "close" /\ TodoOK'
      /\ 1 \in DOMAIN todo /\ Head(todo) = todo[1]
  BY PopFacts DEF CloseClient, Data
<1>2. UNCHANGED <<run, maps, pollers, lastPublished, bus, environment>>
  BY DEF CloseClient
<1>3. Control'
  BY <1>1, <1>2, PopKeepsControl DEF run, maps, Starters
<1>4. todo[1].arg \in ClientIds  BY <1>1 DEF Data, TodoOK, Arguments
<1>5. client' = [client EXCEPT ![todo[1].arg].open = FALSE]  BY <1>1 DEF CloseClient
<1>6. /\ client' \in [ClientIds -> ClientType]
      /\ \A i \in ClientIds : client'[i].endpoint = client[i].endpoint
  <2>1. client \in [ClientIds -> ClientType]  BY DEF Data, TypeOK, ClientType
  <2>2. PICK k : k = todo[1].arg  OBVIOUS
  <2>3. k \in ClientIds /\ client' = [client EXCEPT ![k].open = FALSE]  BY <2>2, <1>4, <1>5
  <2> QED BY <2>1, <2>3, OpenOrClose
<1>7a. InputsOK' /\ ArrivalTypes'
  BY <1>2, ArrivalsKept DEF Data, run, environment, arrivals
<1>7. TypeOK' /\ InputsOK' /\ CacheMatchesBus'
  BY <1>2, <1>6, <1>7a DEF Data, TypeOK, CacheMatchesBus, ClientType, run, maps, environment
<1>8. PollersOK'
  <2>1. \A w \in DOMAIN pollers : pollers[w].client \in ClientIds \cup {Nil}
    BY DEF Data, TypeOK, Poller
  <2> QED BY <2>1, <1>2, <1>6 DEF Data, PollersOK, Sound, TypeOK, maps
<1> QED BY <1>1, <1>3, <1>7, <1>8 DEF IInv, Data

LEMMA CancelWorkerStep ==
    ASSUME Data, Control, CancelWorker  PROVE IInv'
<1>1. PICK w : w = todo[1].arg  OBVIOUS
<1>2. /\ todo # <<>> /\ 1 \in DOMAIN todo /\ todo[1].op = "cancel" /\ Head(todo) = todo[1]
      /\ Len(todo) \in Nat
  BY TailOf DEF CancelWorker, Data, TodoOK
<1>3. /\ w \in DOMAIN pollers /\ w \in WorkerIds /\ \A c \in Connections : workers[c] # w
      /\ \A j \in DOMAIN todo :
          todo[j].op \in {"cancel", "join"} /\ todo[j].arg = w => j = 1
  BY <1>1, <1>2 DEF Control, Stopping, Data, TypeOK
<1>4. UNCHANGED <<run, maps, client, lastPublished, bus, environment>>
  BY DEF CancelWorker
<1>5. /\ todo' \in Seq(TaskType) /\ DOMAIN todo' = DOMAIN todo
      /\ todo'[1] = Task("join", w)
      /\ \A i \in DOMAIN todo : i # 1 => todo'[i] = todo[i]
  <2> DEFINE x == Task("join", w)
  <2>1. x \in TaskType  BY <1>3 DEF Task, TaskType
  <2>2. todo' = <<x>> \o Tail(todo)  BY <1>1, <1>2 DEF CancelWorker
  <2> HIDE DEF x
  <2>3. <<x>> \in Seq(TaskType) /\ Len(<<x>>) = 1 /\ <<x>>[1] = x  BY <2>1
  <2>4. Front(<<x>>) /\ todo' \in Seq(TaskType)
    BY <2>2, <2>3, <1>2, FrontFacts DEF Data
  <2>5. /\ Len(todo') = Len(todo) /\ todo'[1] = x
        /\ \A i \in 2..Len(todo) : todo'[i] = todo[i]
    BY <2>3, <2>4, <1>2 DEF Front
  <2> QED BY <2>4, <2>5, <1>2 DEF Data, TodoOK, x
<1>6. /\ DOMAIN pollers' = DOMAIN pollers
      /\ pollers' = [v \in DOMAIN pollers' |-> pollers'[v]]
      /\ \A v \in DOMAIN pollers : v # w => pollers'[v] = pollers[v]
      /\ pollers'[w] = [pollers[w] EXCEPT !.canceled = TRUE]
  BY <1>1, <1>2, <1>3 DEF CancelWorker, Data, PollersOK
<1>7. /\ pollers'[w] \in Poller /\ pollers'[w].canceled
      /\ pollers'[w].connection = pollers[w].connection
      /\ pollers'[w].endpoint = pollers[w].endpoint
      /\ pollers'[w].points = pollers[w].points /\ pollers'[w].sent = pollers[w].sent
      /\ pollers'[w].client = pollers[w].client /\ pollers'[w].values = pollers[w].values
  <2>1. pollers[w] \in Poller  BY <1>3 DEF Data, TypeOK
  <2> QED BY <2>1, <1>6 DEF Poller
<1>8. \A v \in DOMAIN pollers :
        /\ pollers'[v].connection = pollers[v].connection
        /\ pollers'[v].endpoint = pollers[v].endpoint
        /\ pollers'[v].points = pollers[v].points /\ pollers'[v].sent = pollers[v].sent
        /\ pollers'[v].client = pollers[v].client /\ pollers'[v].values = pollers[v].values
  BY <1>6, <1>7
<1>10. InputsOK' /\ ArrivalTypes'
  BY <1>4, ArrivalsKept DEF Data, run, environment, arrivals
<1>9. TypeOK'
  BY <1>4, <1>6, <1>7, <1>10 DEF Data, TypeOK, run, maps, environment
<1>11. TodoOK'
  BY <1>2, <1>3, <1>5 DEF Data, TodoOK, Task, Arguments
<1>12. PollersOK'  BY <1>4, <1>6, <1>8 DEF Data, PollersOK, Sound, maps
<1>13. CacheMatchesBus'  BY <1>4, <1>6, <1>8 DEF Data, CacheMatchesBus
<1>14. Owned' /\ OnlyStarted' /\ OnePoller'
  <2>1. Owned'  BY <1>3, <1>4, <1>6 DEF Control, Owned, maps
  <2>2. OnlyStarted'  BY <1>4, <1>5 DEF Control, OnlyStarted, run, maps, Task
  <2>3. OnePoller'  BY <1>6, <1>8 DEF Control, OnePoller
  <2> QED BY <2>1, <2>2, <2>3
<1>15. Accounted'
  <2> SUFFICES ASSUME NEW v \in DOMAIN pollers', ~(workers[pollers[v].connection] = v)'
               PROVE  \E i \in DOMAIN todo' :
                        todo'[i].op \in {"cancel", "join"} /\ todo'[i].arg = v
    BY DEF Accounted
  <2>1. v \in DOMAIN pollers /\ workers[pollers[v].connection] # v
    BY <1>4, <1>6, <1>8 DEF maps
  <2>2. PICK i \in DOMAIN todo : todo[i].op \in {"cancel", "join"} /\ todo[i].arg = v
    BY <2>1 DEF Control, Accounted
  <2>3. CASE i = 1
    BY <2>2, <2>3, <1>1, <1>2, <1>5 DEF Task
  <2>4. CASE i # 1  BY <2>2, <2>4, <1>5
  <2> QED BY <2>3, <2>4
<1>16. Stopping'
  <2> SUFFICES ASSUME NEW i \in DOMAIN todo'  PROVE (Stopping!(i))'
    BY DEF Stopping
  <2>1. CASE i = 1
    BY <2>1, <1>3, <1>4, <1>5, <1>7 DEF Task, maps
  <2>2. CASE i # 1
    <3>1. i \in DOMAIN todo /\ todo'[i] = todo[i] /\ todo[i].op # "join"
      BY <2>2, <1>5 DEF Control, Stopping
    <3>2. todo[i].op = "cancel" => todo[i].arg # w
      BY <2>2, <3>1, <1>3
    <3>3. \A j \in DOMAIN todo' : todo'[j].op \in {"cancel", "join"} =>
            j \in DOMAIN todo /\ todo[j].op \in {"cancel", "join"} /\ todo[j].arg = todo'[j].arg
      BY <1>1, <1>2, <1>5 DEF Task
    <3> QED BY <3>1, <3>2, <3>3, <1>4, <1>6 DEF Control, Stopping, maps
  <2> QED BY <2>1, <2>2
<1>17. Ordered'
  <2>1. todo'[1].op = "join"  BY <1>5 DEF Task
  <2>2. \A i, j \in DOMAIN todo' : i < j => i \in Nat /\ j \in Nat /\ j # 1
    BY <1>5, <1>2 DEF Data, TodoOK
  <2> QED BY <2>1, <2>2, <1>4, <1>5 DEF Control, Ordered, Starters, maps
<1>18. Fresh'
  <2>1. \A c \in Connections : PointsOf(c)' = PointsOf(c)  BY <1>4 DEF PointsOf, maps
  <2>2. \A c \in Connections : Pending(c) => Pending(c)'
    BY <1>2, <1>5 DEF Pending, Starters
  <2>3. \A c \in Connections : UpToDate(c) => UpToDate(c)'
    BY <1>4, <1>8, <2>1 DEF UpToDate, Control, Owned, maps
  <2> QED BY <2>2, <2>3, <1>4 DEF Fresh, Control, run
<1>19. Homed'
  <2>1. \A c \in Connections : todo[1] # Task("restart", c)  BY <1>2 DEF Task
  <2> QED BY <2>1, <1>4, <1>8 DEF Control, Homed, Owned, maps
<1> QED BY <1>9, <1>10, <1>11, <1>12, <1>13, <1>14, <1>15, <1>16, <1>17, <1>18, <1>19
        DEF IInv, Data, Control

\* The task list after stopWorker took w, the goroutine of c or Nil, out of
\* the map: first what is new, then what was there, n + 1 positions earlier.
LEMMA StopWorkerTodo ==
    ASSUME Data, Control, StopWorker, NEW c, NEW w, c = todo[1].arg, w = workers[c]
    PROVE  \E n \in 0..2 :
            /\ todo' \in Seq(TaskType) /\ Len(todo') = n + Len(todo) - 1
            /\ \A i \in 1..n :
                \/ i = 1 /\ w # Nil /\ todo'[i] = Task("cancel", w)
                \/ i = n /\ todo[1].op = "restart" /\ todo'[i] = Task("start", c)
            /\ w # Nil => n >= 1 /\ todo'[1] = Task("cancel", w)
            /\ todo[1].op = "restart" => n >= 1 /\ todo'[n] = Task("start", c)
            /\ \A i \in n+1..Len(todo') : todo'[i] = todo[i - n + 1]
<1> DEFINE x == Task("cancel", w)
           y == Task("start", c)
           stop == IF w = Nil THEN <<>> ELSE <<x>>
           start == IF todo[1].op = "restart" THEN <<y>> ELSE <<>>
<1>1. /\ todo # <<>> /\ Head(todo) = todo[1] /\ todo[1] \in TaskType /\ Len(todo) \in Nat
      /\ 1 \in DOMAIN todo /\ todo[1].op \in {"stop", "restart"}
  BY TailOf DEF StopWorker, Data, TodoOK
<1>2. c \in Connections  BY <1>1 DEF Data, TodoOK, Arguments
<1>3. w # Nil => x \in TaskType  BY <1>2 DEF Data, TypeOK, Task, TaskType
<1>4. y \in TaskType  BY <1>2 DEF Task, TaskType
<1>5. todo' = (stop \o start) \o Tail(todo)  BY <1>1 DEF StopWorker
<1> HIDE DEF x, y
<1>6. CASE w = Nil /\ todo[1].op # "restart"
  <2>1. stop \o start = <<>> /\ <<>> \in Seq(TaskType) /\ Len(<<>>) = 0
    BY <1>6
  <2>2. Front(<<>>) /\ todo' \in Seq(TaskType)
    BY <2>1, <1>1, <1>5, FrontFacts DEF Data
  <2> WITNESS 0 \in 0..2
  <2> QED BY <2>1, <2>2, <1>1, <1>6 DEF Front
<1>7. CASE w = Nil /\ todo[1].op = "restart"
  <2>1. stop \o start = <<y>> /\ <<y>> \in Seq(TaskType) /\ Len(<<y>>) = 1 /\ <<y>>[1] = y
    BY <1>7, <1>4
  <2>2. Front(<<y>>) /\ todo' \in Seq(TaskType)
    BY <2>1, <1>1, <1>5, FrontFacts DEF Data
  <2> WITNESS 1 \in 0..2
  <2> QED BY <2>1, <2>2, <1>1, <1>7 DEF Front, y
<1>8. CASE w # Nil /\ todo[1].op # "restart"
  <2>1. stop \o start = <<x>> /\ <<x>> \in Seq(TaskType) /\ Len(<<x>>) = 1 /\ <<x>>[1] = x
    BY <1>8, <1>3
  <2>2. Front(<<x>>) /\ todo' \in Seq(TaskType)
    BY <2>1, <1>1, <1>5, FrontFacts DEF Data
  <2> WITNESS 1 \in 0..2
  <2> QED BY <2>1, <2>2, <1>1, <1>8 DEF Front, x
<1>9. CASE w # Nil /\ todo[1].op = "restart"
  <2> DEFINE z == stop \o start
  <2>1. z \in Seq(TaskType) /\ Len(z) = 2 /\ z[1] = x /\ z[2] = y
    <3>1. x \in TaskType /\ y \in TaskType /\ stop = <<x>> /\ start = <<y>>
      BY <1>9, <1>3, <1>4
    <3> QED BY <3>1
  <2> HIDE DEF z
  <2>2. Front(z) /\ todo' \in Seq(TaskType)
    <3>1. todo' = z \o Tail(todo)  BY <1>5 DEF z
    <3> QED BY <3>1, <2>1, <1>1, FrontFacts DEF Data
  <2> WITNESS 2 \in 0..2
  <2> QED BY <2>1, <2>2, <1>1, <1>9 DEF Front, x, y
<1> QED BY <1>6, <1>7, <1>8, <1>9

LEMMA StopWorkerStep ==
    ASSUME Data, Control, StopWorker  PROVE IInv'
<1>1. /\ todo # <<>> /\ Head(todo) = todo[1] /\ todo[1] \in TaskType /\ Len(todo) \in Nat
      /\ DOMAIN todo = 1..Len(todo) /\ 1 \in DOMAIN todo
      /\ todo[1].op \in {"stop", "restart"}
  BY TailOf DEF StopWorker, Data, TodoOK
<1>2. PICK c \in Connections : c = todo[1].arg  BY <1>1 DEF Data, TodoOK, Arguments
<1>3. PICK w : w = workers[c]  OBVIOUS
<1>4. PICK n \in 0..2 :
            /\ todo' \in Seq(TaskType) /\ Len(todo') = n + Len(todo) - 1
            /\ \A i \in 1..n :
                \/ i = 1 /\ w # Nil /\ todo'[i] = Task("cancel", w)
                \/ i = n /\ todo[1].op = "restart" /\ todo'[i] = Task("start", c)
            /\ w # Nil => n >= 1 /\ todo'[1] = Task("cancel", w)
            /\ todo[1].op = "restart" => n >= 1 /\ todo'[n] = Task("start", c)
            /\ \A i \in n+1..Len(todo') : todo'[i] = todo[i - n + 1]
  BY <1>2, <1>3, StopWorkerTodo
<1>5. DOMAIN todo' = 1..Len(todo')  BY <1>4
<1>6. workers' = [workers EXCEPT ![c] = Nil]  BY <1>1, <1>2 DEF StopWorker
<1>7. UNCHANGED <<run, connections, points, clients, polling, environment>>
  BY DEF StopWorker
<1>8. w # Nil => /\ w \in WorkerIds /\ w \in DOMAIN pollers /\ ~pollers[w].canceled
                 /\ pollers[w].connection = c
                 /\ \A d \in Connections : workers[d] = w => d = c
  BY <1>3 DEF Control, Owned, Data, TypeOK
<1>9. /\ workers' \in [Connections -> WorkerIds \cup {Nil}] /\ workers'[c] = Nil
      /\ \A d \in Connections : d # c => workers'[d] = workers[d]
  BY <1>6 DEF Data, TypeOK
\* What follows the task that is replaced stops and starts, or closes.
<1>10. \A j \in DOMAIN todo : j # 1 => todo[j].op \in {"restart", "stop", "close"}
  <2>1. \A j \in DOMAIN todo : j # 1 => 1 < j  BY <1>1
  <2> QED BY <2>1, <1>1 DEF Control, Ordered, Starters
<1>11. \A i \in DOMAIN todo' :
        \/ i = 1 /\ w # Nil /\ todo'[i] = Task("cancel", w)
        \/ i = n /\ todo[1].op = "restart" /\ todo'[i] = Task("start", c)
        \/ i > n /\ i - n + 1 \in DOMAIN todo /\ i - n + 1 # 1 /\ todo'[i] = todo[i - n + 1]
  BY <1>1, <1>4, <1>5
<1>12. \A j \in DOMAIN todo : j # 1 =>
        j + n - 1 \in DOMAIN todo' /\ j + n - 1 > n /\ todo'[j + n - 1] = todo[j]
  BY <1>1, <1>4, <1>5
<1>13. TypeOK' /\ InputsOK' /\ PollersOK' /\ CacheMatchesBus'
  <2>2. InputsOK' /\ ArrivalTypes'
    BY <1>7, ArrivalsKept DEF Data, run, environment, arrivals
  <2>1. TypeOK'  BY <1>7, <1>9, <2>2 DEF Data, TypeOK, run, polling, environment
  <2>3. PollersOK' /\ CacheMatchesBus'
    BY <1>7 DEF Data, PollersOK, Sound, CacheMatchesBus, polling
  <2> QED BY <2>1, <2>2, <2>3
<1>14. TodoOK'
  <2>1. ASSUME NEW i \in DOMAIN todo'  PROVE todo'[i].arg \in Arguments(todo'[i].op)
    <3>1. CASE w # Nil /\ todo'[i] = Task("cancel", w)
      BY <3>1, <1>8 DEF Task, Arguments
    <3>2. CASE todo'[i] = Task("start", c)  BY <3>2 DEF Task, Arguments
    <3>3. CASE i - n + 1 \in DOMAIN todo /\ todo'[i] = todo[i - n + 1]
      BY <3>3 DEF Data, TodoOK
    <3> QED BY <3>1, <3>2, <3>3, <1>11
  <2> QED BY <2>1, <1>4 DEF TodoOK
<1>15. Owned' /\ OnePoller'
  BY <1>7, <1>9 DEF Control, Owned, OnePoller, polling
<1>16. OnlyStarted'
  <2>1. \A i \in DOMAIN todo' : todo'[i].op \in {"restart", "start"} => started
    BY <1>1, <1>11 DEF Control, OnlyStarted, Task
  <2> QED BY <2>1, <1>7, <1>9 DEF Control, OnlyStarted, run
<1>17. Accounted'
  <2> SUFFICES ASSUME NEW v \in DOMAIN pollers, workers'[pollers[v].connection] # v
               PROVE  \E i \in DOMAIN todo' :
                        todo'[i].op \in {"cancel", "join"} /\ todo'[i].arg = v
    BY <1>7 DEF Accounted, polling
  <2>1. workers[pollers[v].connection] = v
    BY <1>1, <1>10 DEF Control, Accounted
  <2>2. v \in WorkerIds /\ pollers[v].connection \in Connections
    BY DEF Data, TypeOK, Poller
  <2>3. pollers[v].connection = c  BY <2>1, <2>2, <1>9
  <2>4. w = v /\ w # Nil  BY <2>1, <2>2, <2>3, <1>3, IdsAssumption
  <2>5. 1 \in DOMAIN todo' /\ todo'[1] = Task("cancel", w)  BY <2>4, <1>1, <1>4, <1>5
  <2> QED BY <2>4, <2>5 DEF Task
<1>18. Stopping'
  <2>1. \A i \in DOMAIN todo' : todo'[i].op \in {"cancel", "join"} =>
          i = 1 /\ w # Nil /\ todo'[i] = Task("cancel", w)
    BY <1>10, <1>11 DEF Task
  <2>2. \A d \in Connections : w # Nil => workers'[d] # w
    BY <1>8, <1>9
  <2> SUFFICES ASSUME NEW i \in DOMAIN todo'  PROVE (Stopping!(i))'
    BY DEF Stopping
  <2>3. CASE todo'[i].op \in {"cancel", "join"}
    <3>1. i = 1 /\ w # Nil /\ todo'[i].op = "cancel" /\ todo'[i].arg = w
      BY <2>1, <2>3 DEF Task
    <3> QED BY <3>1, <2>1, <2>2, <1>7, <1>8 DEF polling
  <2>4. CASE todo'[i].op \notin {"cancel", "join"}  BY <2>4
  <2> QED BY <2>3, <2>4
<1>19. Ordered'
  <2> SUFFICES ASSUME NEW i \in DOMAIN todo'  PROVE (Ordered!(i))'
    BY DEF Ordered
  <2>1. CASE i > n
    <3>1. /\ i - n + 1 \in DOMAIN todo /\ i - n + 1 # 1 /\ todo'[i] = todo[i - n + 1]
          /\ \A j \in DOMAIN todo' : i < j =>
                /\ j - n + 1 \in DOMAIN todo
                /\ j - n + 1 # 1 /\ todo'[j] = todo[j - n + 1]
      <4>1. \A j \in DOMAIN todo' : j > n =>
                /\ j - n + 1 \in DOMAIN todo
                /\ j - n + 1 # 1 /\ todo'[j] = todo[j - n + 1]
        BY <1>1, <1>4, <1>5
      <4>2. \A j \in DOMAIN todo' : i < j => j > n  BY <2>1, <1>5
      <4> QED BY <4>1, <4>2, <2>1
    <3>2. todo'[i].op \in {"restart", "stop", "close"}
          /\ \A j \in DOMAIN todo' : i < j => todo'[j].op \in {"restart", "stop", "close"}
      BY <3>1, <1>10
    <3>3. todo'[i].op = "stop" => connections[todo'[i].arg] = Nil
      BY <3>1 DEF Control, Ordered
    <3> QED BY <3>2, <3>3, <1>7
  <2>2. CASE i = n /\ todo'[i] = Task("start", c)
    <3>1. \A j \in DOMAIN todo' : i < j =>
                /\ j - n + 1 \in DOMAIN todo
                /\ j - n + 1 # 1 /\ todo'[j] = todo[j - n + 1]
      BY <2>2, <1>1, <1>4, <1>5
    <3> QED BY <3>1, <2>2, <1>9, <1>10 DEF Task
  <2>3. CASE todo'[i] = Task("cancel", w)
    BY <2>3 DEF Task, Starters
  <2> QED BY <2>1, <2>2, <2>3, <1>11
<1>20. Fresh'
  <2> SUFFICES ASSUME started, NEW d \in Connections
               PROVE  Pending(d)' \/ UpToDate(d)'
    BY <1>7 DEF Fresh, run
  <2>1. PointsOf(d)' = PointsOf(d)  BY <1>7 DEF PointsOf
  <2>2. CASE d = c /\ todo[1].op = "restart"
    <3>1. n \in DOMAIN todo' /\ todo'[n] = Task("start", c)  BY <2>2, <1>1, <1>4, <1>5
    <3> QED BY <3>1, <2>2 DEF Pending, Task, Starters
  <2>3. CASE d = c /\ todo[1].op = "stop"
    <3>1. connections[c] = Nil  BY <2>3, <1>1, <1>2 DEF Control, Ordered
    <3> QED BY <2>3, <3>1, <1>7, <1>9 DEF UpToDate
  <2>4. CASE d # c
    <3>1. Pending(d) => Pending(d)'
      <4> SUFFICES ASSUME NEW j \in DOMAIN todo, todo[j].op \in Starters, todo[j].arg = d
                   PROVE  Pending(d)'
        BY DEF Pending
      <4>1. j # 1  BY <2>4, <1>2
      <4> QED BY <4>1, <1>12 DEF Pending
    <3>2. UpToDate(d) => UpToDate(d)'
      BY <2>1, <2>4, <1>7, <1>9 DEF UpToDate, polling
    <3> QED BY <3>1, <3>2 DEF Control, Fresh
  <2> QED BY <2>2, <2>3, <2>4, <1>1
<1>21. Homed'
  <2> SUFFICES ASSUME NEW d \in Connections, workers'[d] # Nil
               PROVE  \A p \in DOMAIN pollers[workers[d]].points :
                        points[p] # Nil /\ points[p].connection = d
    BY <1>7, <1>9 DEF Homed, polling
  <2>1. d # c  BY <1>9
  <2>2. todo[1] # Task("restart", d)  BY <2>1, <1>2 DEF Task
  <2> QED BY <2>1, <2>2, <1>9 DEF Control, Homed
<1> QED BY <1>13, <1>14, <1>15, <1>16, <1>17, <1>18, <1>19, <1>20, <1>21
        DEF IInv, Data, Control

\* restartConnection finds an id for its goroutine: as long as it has not
\* started, every goroutine is the one of another connection.
LEMMA FreeWorker ==
    ASSUME Data, Control, todo # <<>>, todo[1].op = "start"
    PROVE  \E v \in WorkerIds : v \notin DOMAIN pollers
<1> SUFFICES ASSUME WorkerIds \subseteq DOMAIN pollers  PROVE FALSE
  OBVIOUS
<1>1. 1 \in DOMAIN todo /\ DOMAIN todo = 1..Len(todo) /\ Len(todo) \in Nat
  BY TailOf DEF Data, TodoOK
<1>2. PICK c \in Connections : c = todo[1].arg  BY <1>1 DEF Data, TodoOK, Arguments
<1>3. \A j \in DOMAIN todo : todo[j].op \notin {"cancel", "join"}
  <2>1. \A j \in DOMAIN todo : j # 1 => 1 < j  BY <1>1
  <2> QED BY <2>1, <1>1 DEF Control, Ordered, Starters
<1>4. \A v \in WorkerIds : /\ workers[pollers[v].connection] = v
                           /\ pollers[v].connection \in Connections
  BY <1>3 DEF Control, Accounted, Data, TypeOK, Poller
<1>5. workers[c] = Nil  BY <1>1, <1>2 DEF Control, Ordered
<1> DEFINE others == Connections \ {c}
           f == [v \in WorkerIds |-> pollers[v].connection]
<1>6. f \in [WorkerIds -> others]  BY <1>4, <1>5, IdsAssumption
<1>7. \A u, v \in WorkerIds : f[u] = f[v] => u = v  BY <1>4
<1>8. /\ IsFiniteSet(others) /\ Cardinality(others) = Cardinality(Connections) - 1
      /\ Cardinality(Connections) \in Nat /\ Cardinality(WorkerIds) \in Nat
  BY IdsAssumption, FS_RemoveElement, FS_CardinalityType
<1> HIDE DEF others, f
<1>9. Cardinality(WorkerIds) > Cardinality(others)  BY <1>8, IdsAssumption
<1>10. \E u, v \in WorkerIds : u # v /\ f[u] = f[v]
  BY <1>6, <1>8, <1>9, IdsAssumption, FS_PigeonHole
<1> QED BY <1>7, <1>10

LEMMA StartWorkerStep ==
    ASSUME Data, Control, StartWorker  PROVE IInv'
<1>1. /\ todo # <<>> /\ todo' = Tail(todo) /\ todo[1].op = "start" /\ Head(todo) = todo[1]
      /\ todo' \in Seq(TaskType) /\ TodoOK' /\ 1 \in DOMAIN todo
      /\ \A i \in DOMAIN todo' : i + 1 \in DOMAIN todo /\ todo'[i] = todo[i + 1]
      /\ \A i \in DOMAIN todo : i # 1 => i - 1 \in DOMAIN todo' /\ todo'[i - 1] = todo[i]
      /\ DOMAIN todo' \subseteq Nat \ {0} /\ DOMAIN todo \subseteq Nat \ {0}
  BY PopFacts DEF StartWorker, Data
<1>2. PICK c \in Connections : c = todo[1].arg  BY <1>1 DEF Data, TodoOK, Arguments
<1>3. UNCHANGED <<run, connections, points, clients, client, lastPublished, bus, environment>>
  BY DEF StartWorker
\* Nothing is being stopped.
<1>4. \A j \in DOMAIN todo : j # 1 => todo[j].op \in {"restart", "stop", "close"}
  <2>1. \A j \in DOMAIN todo : j # 1 => 1 < j  BY <1>1
  <2> QED BY <2>1, <1>1 DEF Control, Ordered, Starters
<1>5. \A v \in DOMAIN pollers : workers[pollers[v].connection] = v
  BY <1>1, <1>4 DEF Control, Accounted
<1>6. workers[c] = Nil  BY <1>1, <1>2 DEF Control, Ordered
<1>7. \A i \in DOMAIN todo' : todo'[i].op \in {"restart", "stop", "close"}
  <2>1. \A i \in DOMAIN todo' : i + 1 # 1  BY <1>1
  <2> QED BY <2>1, <1>1, <1>4
<1>8. \A d \in Connections : PointsOf(d)' = PointsOf(d)  BY <1>3 DEF PointsOf
<1>9. \A d \in Connections : d # c /\ Pending(d) => Pending(d)'
  BY <1>1, <1>2 DEF Pending
<1>10. \A d \in Connections : todo[1] # Task("restart", d)  BY <1>1 DEF Task
<1>11. InputsOK' /\ ArrivalTypes'
  BY <1>3, ArrivalsKept DEF Data, run, environment, arrivals
<1>12. Ordered'
  <2>1. \A i \in DOMAIN todo' : todo'[i].op = "stop" => connections[todo'[i].arg] = Nil
    BY <1>1 DEF Control, Ordered
  <2> QED BY <2>1, <1>3, <1>7 DEF Ordered
<1>13. CASE connections[c] = Nil \/ PointsOf(c) = {}
  <2>1. UNCHANGED <<workers, pollers>>  BY <1>1, <1>2, <1>13 DEF StartWorker
  <2>2. TypeOK'  BY <1>3, <1>11, <2>1 DEF Data, TypeOK, run, environment
  <2>3. PollersOK' /\ CacheMatchesBus'
    BY <1>3, <2>1 DEF Data, PollersOK, Sound, CacheMatchesBus
  <2>4. Owned' /\ OnePoller'  BY <2>1 DEF Control, Owned, OnePoller
  <2>5. OnlyStarted'  BY <1>1, <1>3, <2>1 DEF Control, OnlyStarted, run
  <2>6. Accounted' /\ Stopping'  BY <1>5, <1>7, <2>1 DEF Accounted, Stopping
  <2>7. Fresh'
    <3>1. \A d \in Connections : UpToDate(d) => UpToDate(d)'
      BY <1>3, <1>8, <2>1 DEF UpToDate
    <3>2. UpToDate(c)'  BY <1>3, <1>6, <1>8, <1>13, <2>1 DEF UpToDate
    <3> QED BY <3>1, <3>2, <1>3, <1>9 DEF Control, Fresh, run
  <2>8. Homed'  BY <1>3, <1>10, <2>1 DEF Control, Homed
  <2> QED BY <1>1, <1>11, <1>12, <2>2, <2>3, <2>4, <2>5, <2>6, <2>7, <2>8
          DEF IInv, Data, Control
<1>14. CASE connections[c] # Nil /\ PointsOf(c) # {}
  <2>1. PICK w : w = CHOOSE i \in WorkerIds : i \notin DOMAIN pollers  OBVIOUS
  <2>2. w \in WorkerIds /\ w \notin DOMAIN pollers  BY <2>1, <1>1, FreeWorker
  <2>0. PICK r : r = [connection |-> c, endpoint |-> connections[c],
                      points |-> [p \in PointsOf(c) |-> points[p]],
                      canceled |-> FALSE, client |-> Nil, groups |-> {},
                      values |-> << >>, sent |-> Nil]
    OBVIOUS
  <2>3. /\ workers' = [workers EXCEPT ![c] = w]
        /\ pollers' = [i \in DOMAIN pollers \cup {w} |-> IF i # w THEN pollers[i] ELSE r]
    BY <1>1, <1>2, <1>14, <2>0, <2>1 DEF StartWorker
  <2>4. r \in Poller
    <3>1. [p \in PointsOf(c) |-> points[p]] \in [PointsOf(c) -> Descriptor]
      BY DEF PointsOf, Data, TypeOK
    <3>2. PointsOf(c) \in SUBSET Points  BY DEF PointsOf
    <3>3. r.points \in UNION {[P -> Descriptor] : P \in SUBSET Points}
      BY <3>1, <3>2, <2>0
    <3>4. connections[c] \in Endpoints  BY <1>14 DEF Data, TypeOK
    <3>5. << >> \in [{} -> Readings]  OBVIOUS
    <3>6. << >> \in UNION {[P -> Readings] : P \in SUBSET Points}  BY <3>5
    <3> QED BY <3>3, <3>4, <3>6, <2>0 DEF Poller
  <2>5. /\ r.connection = c /\ r.endpoint = connections[c] /\ r.canceled = FALSE
        /\ r.points = [p \in PointsOf(c) |-> points[p]] /\ r.client = Nil /\ r.sent = Nil
        /\ DOMAIN r.values = {} /\ DOMAIN r.points = PointsOf(c)
    BY <2>0
  <2>6. /\ DOMAIN pollers' = DOMAIN pollers \cup {w} /\ pollers'[w] = r
        /\ pollers' = [v \in DOMAIN pollers' |-> pollers'[v]]
        /\ \A v \in DOMAIN pollers : pollers'[v] = pollers[v]
    BY <2>2, <2>3
  <2>7. /\ workers' \in [Connections -> WorkerIds \cup {Nil}] /\ workers'[c] = w
        /\ \A d \in Connections : d # c => workers'[d] = workers[d]
    BY <2>2, <2>3 DEF Data, TypeOK
  <2>8. TypeOK'
    BY <1>3, <1>11, <2>2, <2>4, <2>6, <2>7 DEF Data, TypeOK, run, environment
  <2>9. PollersOK'
    <3>1. Sound(r)'  BY <2>5 DEF Sound
    <3> QED BY <3>1, <1>3, <2>6 DEF Data, PollersOK, Sound
  <2>10. CacheMatchesBus'  BY <1>3, <2>6 DEF Data, CacheMatchesBus
  <2>11. Owned'
    BY <2>2, <2>5, <2>6, <2>7 DEF Control, Owned
  <2>12. OnlyStarted'
    <3>1. started  BY <1>1 DEF Control, OnlyStarted
    <3> QED BY <3>1, <1>3 DEF Control, OnlyStarted, run
  <2>13. Accounted'
    <3>1. \A v \in DOMAIN pollers : workers'[pollers[v].connection] = v
      BY <1>5, <1>6, <2>7, IdsAssumption DEF Data, TypeOK, Poller
    <3> QED BY <3>1, <2>5, <2>6, <2>7 DEF Accounted
  <2>14. Stopping'  BY <1>7 DEF Stopping
  <2>15. Fresh'
    <3>1. \A d \in Connections : d # c /\ UpToDate(d) => UpToDate(d)'
      BY <1>3, <1>8, <2>6, <2>7 DEF UpToDate, Control, Owned
    <3>2. UpToDate(c)'
      BY <1>3, <1>8, <1>14, <2>2, <2>5, <2>6, <2>7, IdsAssumption DEF UpToDate
    <3> QED BY <3>1, <3>2, <1>3, <1>9 DEF Control, Fresh, run
  <2>16. \A d \in Connections : workers[d] # Nil =>
            \A p \in DOMAIN pollers[workers[d]].points :
                points[p] # Nil /\ points[p].connection = d
    BY <1>10 DEF Control, Homed
  <2>17. \A p \in PointsOf(c) : points[p] # Nil /\ points[p].connection = c
    BY DEF PointsOf
  <2>18. Homed'
    BY <1>3, <2>5, <2>6, <2>7, <2>16, <2>17 DEF Control, Owned, Homed
  <2>19. OnePoller'
    <3>1. ASSUME NEW v \in DOMAIN pollers
          PROVE  pollers[v].connection # c /\ DOMAIN pollers[v].points \cap PointsOf(c) = {}
      <4>1. /\ workers[pollers[v].connection] = v /\ v # Nil
            /\ pollers[v].connection \in Connections
        BY <1>5, IdsAssumption DEF Data, TypeOK, Poller
      <4>2. pollers[v].connection # c  BY <4>1, <1>6
      <4> QED BY <4>1, <4>2, <2>16, <2>17
    <3> QED BY <3>1, <2>5, <2>6 DEF Control, OnePoller
  <2> QED BY <1>1, <1>11, <1>12, <2>8, <2>9, <2>10, <2>11, <2>12, <2>13, <2>14, <2>15,
             <2>18, <2>19 DEF IInv, Data, Control
<1> QED BY <1>13, <1>14

-----------------------------------------------------------------------------
(* Reconciliation.                                                         *)

\* What a reconciliation leaves to do.
Planned(t) ==
    /\ t \in TaskType /\ t.op \in {"restart", "stop", "close"}
    /\ t.arg \in Arguments(t.op)
    /\ t.op = "restart" => started
    /\ t.op = "stop" => connections'[t.arg] = Nil

\* A reconciliation starts with no goroutine being stopped.
LEMMA PlanKeepsControl ==
    ASSUME Data, Control, Unlocked, todo' \in Seq(TaskType),
           \A i \in DOMAIN todo' : Planned(todo'[i]),
           UNCHANGED <<phase, started, workers, pollers>>
    PROVE  (TodoOK /\ Owned /\ Accounted /\ Stopping /\ Ordered /\ OnlyStarted /\ OnePoller)'
<1>1. DOMAIN todo = {}  BY DEF Unlocked
<1>2. TodoOK'  BY DEF TodoOK, Planned
<1>3. Owned' /\ OnePoller'  BY DEF Control, Owned, OnePoller
<1>4. Accounted'  BY <1>1 DEF Control, Accounted
<1>5. Stopping'  BY DEF Stopping, Planned
<1>6. Ordered'  BY DEF Ordered, Planned
<1>7. OnlyStarted'  BY DEF Control, OnlyStarted, Planned
<1> QED BY <1>2, <1>3, <1>4, <1>5, <1>6, <1>7

\* Whenever the lock is free, goroutines poll points of their connection.
LEMMA UnlockedFacts ==
    ASSUME Data, Control, Unlocked
    PROVE  /\ \A c \in Connections : ~Pending(c)
           /\ started => \A c \in Connections : UpToDate(c)
           /\ \A c \in Connections : workers[c] # Nil =>
                \A p \in DOMAIN pollers[workers[c]].points :
                    points[p] # Nil /\ points[p].connection = c
<1>1. DOMAIN todo = {} /\ todo = <<>>  BY DEF Unlocked
<1>2. \A c \in Connections : ~Pending(c)  BY <1>1 DEF Pending
<1> QED BY <1>1, <1>2 DEF Control, Fresh, Homed

LEMMA ReconcileConnectionStep ==
    ASSUME Data, Control, Unlocked, NEW c \in Connections, NEW raw \in Valid(c),
           ReconcileConnection(c, raw), UNCHANGED <<phase, started, pollers, client, bus>>
    PROVE  /\ Control' /\ TodoOK' /\ PollersOK' /\ CacheMatchesBus'
           /\ connections' \in [Connections -> Endpoints \cup {Nil}]
           /\ clients' \in [Connections -> ClientIds \cup {Nil}]
           /\ UNCHANGED <<points, workers, lastPublished>>
<1>1. raw \in Endpoints \cup {Disabled}  BY DEF Valid
<1>2. /\ connections' = [connections EXCEPT ![c] = Parsed(raw)]
      /\ UNCHANGED <<points, workers, lastPublished>>
  BY DEF ReconcileConnection
<1>3. /\ connections' \in [Connections -> Endpoints \cup {Nil}]
      /\ connections'[c] = Parsed(raw)
      /\ \A d \in Connections : d # c => connections'[d] = connections[d]
  BY <1>1, <1>2 DEF Parsed, Data, TypeOK
<1>4. CacheMatchesBus'  BY <1>2 DEF Data, CacheMatchesBus
<1>5. \A d \in Connections : PointsOf(d)' = PointsOf(d)  BY <1>2 DEF PointsOf
<1>6. CASE raw = connections[c]
  <2>1. UNCHANGED <<clients, todo>>  BY <1>6 DEF ReconcileConnection
  <2>2. raw # Disabled
    BY <1>6, DescriptorsAssumption DEF Data, TypeOK
  <2>3. connections' = connections  BY <1>2, <1>6, <2>2 DEF Parsed, Data, TypeOK
  <2>4. todo' \in Seq(TaskType) /\ DOMAIN todo' = {}  BY <2>1 DEF Unlocked
  <2>5. (TodoOK /\ Owned /\ Accounted /\ Stopping /\ Ordered /\ OnlyStarted /\ OnePoller)'
    BY <1>2, <2>4, PlanKeepsControl
  <2>6. Fresh'
    <3>1. \A d \in Connections : UpToDate(d) => UpToDate(d)'
      BY <1>2, <1>5, <2>3 DEF UpToDate
    <3> QED BY <3>1, UnlockedFacts DEF Fresh
  <2>7. Homed'  BY <1>2, UnlockedFacts DEF Homed
  <2>8. PollersOK'  BY <2>1 DEF Data, PollersOK, Sound
  <2> QED BY <1>2, <1>3, <1>4, <2>1, <2>5, <2>6, <2>7, <2>8 DEF Control, Data, TypeOK
<1>7. CASE raw # connections[c]
  <2> DEFINE first == IF raw = Disabled THEN <<Task("stop", c)>>
                      ELSE IF started THEN Restart(c) ELSE <<>>
  <2>1. /\ clients' = [clients EXCEPT ![c] = Nil]
        /\ todo' = first \o CloseOf(clients[c])
    BY <1>7 DEF ReconcileConnection
  <2>2. /\ clients' \in [Connections -> ClientIds \cup {Nil}]
        /\ clients[c] \in ClientIds \cup {Nil}
        /\ \A d \in Connections : clients'[d] # Nil => clients'[d] = clients[d]
    BY <2>1 DEF Data, TypeOK
  <2>3. raw = Disabled => connections'[c] = Nil  BY <1>3 DEF Parsed
  <2>4. /\ Task("stop", c) \in TaskType /\ Task("restart", c) \in TaskType
        /\ clients[c] # Nil => Task("close", clients[c]) \in TaskType
    BY <2>2 DEF Task, TaskType
  <2>5. /\ raw = Disabled => Planned(Task("stop", c))
        /\ started => Planned(Task("restart", c))
        /\ clients[c] # Nil => Planned(Task("close", clients[c]))
    BY <2>2, <2>3, <2>4 DEF Task, Planned, Arguments
  <2>6. /\ first \in Seq(TaskType) /\ \A i \in DOMAIN first : Planned(first[i])
        /\ Len(first) \in 0..1
        /\ raw = Disabled => Len(first) = 1 /\ first[1] = Task("stop", c)
        /\ raw # Disabled /\ started => Len(first) = 1 /\ first[1] = Task("restart", c)
    <3>1. CASE raw = Disabled
      <4>1. first = <<Task("stop", c)>>  BY <3>1
      <4> QED BY <3>1, <4>1, <2>4, <2>5
    <3>2. CASE raw # Disabled /\ started
      <4>1. PICK x : x = Task("restart", c)  OBVIOUS
      <4>2. first = <<x>>  BY <3>2, <4>1 DEF Restart
      <4>3. x \in TaskType /\ Planned(x)  BY <3>2, <4>1, <2>4, <2>5
      <4> HIDE DEF first
      <4> QED BY <3>2, <4>1, <4>2, <4>3
    <3>3. CASE raw # Disabled /\ ~started
      <4>1. first = <<>>  BY <3>3
      <4> QED BY <3>3, <4>1
    <3> QED BY <3>1, <3>2, <3>3
  <2> DEFINE rest == CloseOf(clients[c])
  <2>7. rest \in Seq(TaskType) /\ \A i \in DOMAIN rest : Planned(rest[i])
    <3>1. CASE clients[c] = Nil
      <4>1. rest = <<>>  BY <3>1 DEF CloseOf
      <4> QED BY <4>1
    <3>2. CASE clients[c] # Nil
      <4>1. rest = <<Task("close", clients[c])>>  BY <3>2 DEF CloseOf
      <4> QED BY <3>2, <4>1, <2>4, <2>5
    <3> QED BY <3>1, <3>2
  <2> HIDE DEF first, rest
  <2>8. todo' = first \o rest  BY <2>1 DEF rest
  <2>9. todo' \in Seq(TaskType) /\ \A i \in DOMAIN todo' : Planned(todo'[i])
    <3>1. todo' \in Seq(TaskType) /\ Len(todo') = Len(first) + Len(rest)
      BY <2>6, <2>7, <2>8
    <3>2. ASSUME NEW i \in DOMAIN todo'  PROVE Planned(todo'[i])
      <4>1. CASE i <= Len(first)
        <5>1. i \in DOMAIN first /\ todo'[i] = first[i]  BY <4>1, <3>1, <2>6, <2>7, <2>8
        <5> QED BY <5>1, <2>6
      <4>2. CASE i > Len(first)
        <5>1. i - Len(first) \in DOMAIN rest /\ todo'[i] = rest[i - Len(first)]
          BY <4>2, <3>1, <2>6, <2>7, <2>8
        <5> QED BY <5>1, <2>7
      <4> QED BY <4>1, <4>2, <3>1, <2>6
    <3> QED BY <3>1, <3>2
  <2>10. (TodoOK /\ Owned /\ Accounted /\ Stopping /\ Ordered /\ OnlyStarted /\ OnePoller)'
    BY <1>2, <2>9, PlanKeepsControl
  <2>11. Fresh'
    <3> SUFFICES ASSUME started  PROVE \A d \in Connections : Pending(d)' \/ UpToDate(d)'
      BY DEF Fresh
    <3>1. \A d \in Connections : d # c => UpToDate(d)'
      BY <1>2, <1>3, <1>5, UnlockedFacts DEF UpToDate
    <3>2. 1 \in DOMAIN todo' /\ todo'[1] \in {Task("stop", c), Task("restart", c)}
      BY <2>6, <2>7, <2>8
    <3>3. Pending(c)'  BY <3>2 DEF Pending, Task, Starters
    <3> QED BY <3>1, <3>3
  <2>12. Homed'  BY <1>2, UnlockedFacts DEF Homed
  <2>13. PollersOK'  BY <2>2 DEF Data, PollersOK, Sound
  <2> QED BY <1>2, <1>3, <1>4, <2>2, <2>10, <2>11, <2>12, <2>13 DEF Control
<1> QED BY <1>6, <1>7

\* Sequences of one and of two elements.
LEMMA SingleOf ==
    ASSUME NEW S, NEW x \in S, NEW s, s = <<x>> \o <<>> \/ s = <<>> \o <<x>>
    PROVE  s \in Seq(S) /\ s # <<>> /\ s[1] = x /\ DOMAIN s = {1}
<1>1. CASE s = <<x>> \o <<>>
  <2>1. s \in Seq(S) /\ Len(s) = 1 /\ s[1] = x  BY <1>1
  <2> QED BY <2>1
<1>2. CASE s = <<>> \o <<x>>
  <2>1. s \in Seq(S) /\ Len(s) = 1 /\ s[1] = x  BY <1>2
  <2> QED BY <2>1
<1> QED BY <1>1, <1>2

LEMMA PairOf ==
    ASSUME NEW S, NEW x \in S, NEW y \in S, NEW s, s = <<x>> \o <<y>>
    PROVE  s \in Seq(S) /\ s # <<>> /\ s[1] = x /\ s[2] = y /\ DOMAIN s = {1, 2}
<1>1. s \in Seq(S) /\ Len(s) = 2 /\ s[1] = x /\ s[2] = y  OBVIOUS
<1>2. DOMAIN s = 1..2  BY <1>1
<1>3. s # <<>>  BY <1>1
<1> QED BY <1>1, <1>2, <1>3

\* At most two restarts.
LEMMA TwoRestarts ==
    ASSUME started, NEW A \in BOOLEAN, NEW B \in BOOLEAN, NEW a, NEW b,
           A => a \in Connections, B => b \in Connections,
           todo' = (IF A THEN Restart(a) ELSE <<>>) \o (IF B THEN Restart(b) ELSE <<>>)
    PROVE  /\ todo' \in Seq(TaskType) /\ \A i \in DOMAIN todo' : Planned(todo'[i])
           /\ A => todo' # <<>> /\ todo'[1] = Task("restart", a) /\ Pending(a)'
           /\ B => Pending(b)'
<1> DEFINE x == Task("restart", a)
           y == Task("restart", b)
<1>1. /\ A => x \in TaskType /\ Planned(x) /\ x.op \in Starters /\ x.arg = a
      /\ B => y \in TaskType /\ Planned(y) /\ y.op \in Starters /\ y.arg = b
  BY DEF Task, TaskType, Planned, Arguments, Starters
<1>2. todo' = (IF A THEN <<x>> ELSE <<>>) \o (IF B THEN <<y>> ELSE <<>>)
  BY DEF Restart
<1> HIDE DEF x, y
<1>3. CASE ~A /\ ~B
  <2>1. todo' = <<>>  BY <1>2, <1>3
  <2> QED BY <2>1, <1>3
<1>4. CASE ~A /\ B
  <2>1. y \in TaskType /\ todo' = <<>> \o <<y>>  BY <1>2, <1>4, <1>1
  <2>2. todo' \in Seq(TaskType) /\ todo'[1] = y /\ DOMAIN todo' = {1}
    BY <2>1, SingleOf
  <2> QED BY <2>2, <1>1, <1>4 DEF Pending
<1>5. CASE A /\ ~B
  <2>1. x \in TaskType /\ todo' = <<x>> \o <<>>  BY <1>2, <1>5, <1>1
  <2>2. todo' \in Seq(TaskType) /\ todo' # <<>> /\ todo'[1] = x /\ DOMAIN todo' = {1}
    BY <2>1, SingleOf
  <2> QED BY <2>2, <1>1, <1>5 DEF Pending, x
<1>6. CASE A /\ B
  <2>1. x \in TaskType /\ y \in TaskType /\ todo' = <<x>> \o <<y>>  BY <1>2, <1>6, <1>1
  <2>2. /\ todo' \in Seq(TaskType) /\ todo' # <<>> /\ DOMAIN todo' = {1, 2}
        /\ todo'[1] = x /\ todo'[2] = y
    <3>1. PICK u : u = <<x>> \o <<y>>  OBVIOUS
    <3>2. u \in Seq(TaskType) /\ u # <<>> /\ u[1] = x /\ u[2] = y /\ DOMAIN u = {1, 2}
      BY <2>1, <3>1, PairOf
    <3> QED BY <3>1, <3>2, <2>1, Zenon
  <2> QED BY <2>2, <1>1, <1>6 DEF Pending, x
<1> QED BY <1>3, <1>4, <1>5, <1>6

LEMMA ReconcileAddressStep ==
    ASSUME Data, Control, Unlocked, NEW p \in Points, NEW raw \in Valid(p),
           ReconcileAddress(p, raw),
           UNCHANGED <<phase, started, pollers, client, bus>>
    PROVE  /\ Control' /\ TodoOK' /\ PollersOK' /\ CacheMatchesBus'
           /\ points' \in [Points -> Descriptor \cup {Nil}] /\ points'[p] = Parsed(raw)
           /\ \A q \in Points : q # p => points'[q] = points[q]
           /\ lastPublished' \in [Points -> Readings \cup {Nil}]
           /\ UNCHANGED <<connections, workers, clients>>
<1> DEFINE previous == points[p]
<1>1. raw \in Descriptor \cup {Disabled}  BY SubjectsAssumption DEF Valid
<1>2. previous \in Descriptor \cup {Nil}  BY DEF Data, TypeOK
<1>3. /\ points' = [points EXCEPT ![p] = Parsed(raw)]
      /\ UNCHANGED <<connections, workers, clients>>
      /\ lastPublished' = IF raw = Disabled
                          THEN [lastPublished EXCEPT ![p] = Nil] ELSE lastPublished
  BY DEF ReconcileAddress
<1>4. /\ points' \in [Points -> Descriptor \cup {Nil}] /\ points'[p] = Parsed(raw)
      /\ \A q \in Points : q # p => points'[q] = points[q]
  BY <1>1, <1>3 DEF Parsed, Data, TypeOK
<1>5. /\ lastPublished' \in [Points -> Readings \cup {Nil}]
      /\ \A q \in Points : lastPublished'[q] \in {Nil, lastPublished[q]}
  BY <1>3 DEF Data, TypeOK
<1>6. CacheMatchesBus'  BY <1>5 DEF Data, CacheMatchesBus
<1>7. PollersOK'  BY <1>3 DEF Data, PollersOK, Sound
<1>8. SUFFICES TodoOK' /\ Control'
  BY <1>3, <1>4, <1>5, <1>6, <1>7
<1>9. CASE ~started \/ raw = previous
  <2>1. todo' = <<>>  BY <1>9 DEF ReconcileAddress
  <2>2. todo' \in Seq(TaskType) /\ DOMAIN todo' = {}  BY <2>1
  <2>3. (TodoOK /\ Owned /\ Accounted /\ Stopping /\ Ordered /\ OnlyStarted /\ OnePoller)'
    BY <1>3, <2>2, PlanKeepsControl
  <2>4. CASE ~started
    BY <2>3, <2>4, <1>3 DEF Control, Fresh, Homed, OnlyStarted
  <2>5. CASE raw = previous
    <3>1. raw # Disabled  BY <2>5, <1>2, DescriptorsAssumption
    <3>2. points' = points  BY <2>5, <3>1, <1>3 DEF Parsed, Data, TypeOK
    <3>3. \A d \in Connections : PointsOf(d)' = PointsOf(d)  BY <3>2 DEF PointsOf
    <3>4. \A d \in Connections : UpToDate(d) => UpToDate(d)'
      BY <1>3, <3>2, <3>3 DEF UpToDate
    <3>5. Fresh'  BY <3>4, UnlockedFacts DEF Fresh
    <3>6. Homed'  BY <1>3, <3>2, UnlockedFacts DEF Homed
    <3> QED BY <2>3, <3>5, <3>6 DEF Control
  <2> QED BY <1>9, <2>4, <2>5
<1>10. CASE started /\ raw # previous
  <2>a. PICK a, b : a = previous.connection /\ b = raw.connection  OBVIOUS
  <2>b. PICK A \in BOOLEAN, B \in BOOLEAN :
          /\ A <=> previous # Nil /\ (raw = Disabled \/ raw.connection # previous.connection)
          /\ B <=> raw # Disabled
    OBVIOUS
  <2>1. /\ previous # Nil => previous.connection \in Connections
        /\ raw # Disabled => raw.connection \in Connections
    BY <1>1, <1>2 DEF Descriptor
  <2>2. (A => a \in Connections) /\ (B => b \in Connections)  BY <2>a, <2>b, <2>1
  <2>3. todo' = (IF A THEN Restart(a) ELSE <<>>) \o (IF B THEN Restart(b) ELSE <<>>)
    BY <1>10, <2>a, <2>b DEF ReconcileAddress
  <2>4. /\ todo' \in Seq(TaskType) /\ \A i \in DOMAIN todo' : Planned(todo'[i])
        /\ A => todo' # <<>> /\ todo'[1] = Task("restart", a) /\ Pending(a)'
        /\ B => Pending(b)'
    BY <1>10, <2>2, <2>3, TwoRestarts
  <2>5. (TodoOK /\ Owned /\ Accounted /\ Stopping /\ Ordered /\ OnlyStarted /\ OnePoller)'
    BY <1>3, <2>4, PlanKeepsControl
  <2>6. Fresh'
    <3> SUFFICES ASSUME NEW d \in Connections, ~(A /\ d = a), ~(B /\ d = b)
                 PROVE  UpToDate(d)'
      BY <2>4 DEF Fresh
    <3>1. previous # Nil => previous.connection # d  BY <2>a, <2>b
    <3>2. raw # Disabled => raw.connection # d  BY <2>a, <2>b
    <3>3. PointsOf(d)' = PointsOf(d) /\ p \notin PointsOf(d)
      BY <3>1, <3>2, <1>4 DEF PointsOf, Parsed
    <3>4. [q \in PointsOf(d)' |-> points'[q]] = [q \in PointsOf(d) |-> points[q]]
      BY <3>3, <1>4 DEF PointsOf
    <3>5. UpToDate(d)  BY <1>10, UnlockedFacts
    <3> QED BY <3>3, <3>4, <3>5, <1>3 DEF UpToDate
  <2>7. Homed'
    <3> SUFFICES ASSUME NEW d \in Connections, workers[d] # Nil, ~(A /\ d = a),
                        NEW q \in DOMAIN pollers[workers[d]].points
                 PROVE  points'[q] # Nil /\ points'[q].connection = d
      BY <1>3, <2>4 DEF Homed
    <3>1. points[q] # Nil /\ points[q].connection = d  BY UnlockedFacts
    <3>2. q \in Points
      <4>1. pollers[workers[d]] \in Poller  BY DEF Control, Owned, Data, TypeOK
      <4>2. PICK P \in SUBSET Points : pollers[workers[d]].points \in [P -> Descriptor]
        BY <4>1 DEF Poller
      <4> QED BY <4>2
    <3>3. CASE q # p  BY <3>1, <3>2, <3>3, <1>4
    <3>4. CASE q = p
      <4>1. raw # Disabled /\ raw.connection = d  BY <3>1, <3>4, <2>a, <2>b
      <4> QED BY <3>4, <4>1, <1>1, <1>4, DescriptorsAssumption DEF Parsed
    <3> QED BY <3>3, <3>4
  <2> QED BY <2>5, <2>6, <2>7 DEF Control
<1> QED BY <1>9, <1>10

\* What Run and the environment change besides definitions and tasks.
RunTyped ==
    /\ phase' \in {"loading", "starting", "running", "closing", "closed", "stopped"}
    /\ device' \in [Endpoints -> Readings]
    /\ InputsOK'

LEMMA ReconcileStep ==
    ASSUME Data, Control, NEW s \in Subjects, NEW raw \in Valid(s), Reconcile(s, raw),
           RunTyped, UNCHANGED <<phase, started>>
    PROVE  /\ IInv' /\ Definition(s)' = Parsed(raw)
           /\ \A t \in Subjects : t # s => Definition(t)' = Definition(t)
<1>1. Unlocked /\ UNCHANGED <<pollers, client, bus>>  BY DEF Reconcile
<1>2. CASE s \in Connections
  <2>1. s \notin Points  BY <1>2, SubjectsAssumption
  <2>2. ReconcileConnection(s, raw)  BY <2>1 DEF Reconcile
  <2>3. /\ Control' /\ TodoOK' /\ PollersOK' /\ CacheMatchesBus'
        /\ connections' \in [Connections -> Endpoints \cup {Nil}]
        /\ clients' \in [Connections -> ClientIds \cup {Nil}]
        /\ UNCHANGED <<points, workers, lastPublished>>
    BY <1>1, <1>2, <2>2, ReconcileConnectionStep
  <2>4. TypeOK'  BY <1>1, <2>3, TypesFollow DEF Data, TypeOK, RunTyped
  <2>5. connections' = [connections EXCEPT ![s] = Parsed(raw)]
    BY <2>2 DEF ReconcileConnection
  <2>6. /\ connections'[s] = Parsed(raw)
        /\ \A t \in Connections : t # s => connections'[t] = connections[t]
    BY <1>2, <2>5 DEF Data, TypeOK
  <2>7. /\ Definition(s)' = Parsed(raw)
        /\ \A t \in Subjects : t # s => Definition(t)' = Definition(t)
    BY <1>2, <2>3, <2>6 DEF Definition, Subjects
  <2> QED BY <2>3, <2>4, <2>7 DEF IInv, Data, RunTyped
<1>3. CASE s \in Points
  <2>1. s \notin Connections  BY <1>3, SubjectsAssumption
  <2>2. ReconcileAddress(s, raw)  BY <2>1 DEF Reconcile
  <2>3. /\ Control' /\ TodoOK' /\ PollersOK' /\ CacheMatchesBus'
        /\ points' \in [Points -> Descriptor \cup {Nil}] /\ points'[s] = Parsed(raw)
        /\ \A q \in Points : q # s => points'[q] = points[q]
        /\ lastPublished' \in [Points -> Readings \cup {Nil}]
        /\ UNCHANGED <<connections, workers, clients>>
    BY <1>1, <1>3, <2>2, ReconcileAddressStep
  <2>4. TypeOK'  BY <1>1, <2>3, TypesFollow DEF Data, TypeOK, RunTyped
  <2>5. /\ Definition(s)' = Parsed(raw)
        /\ \A t \in Subjects : t # s => Definition(t)' = Definition(t)
    BY <2>1, <2>3 DEF Definition, Subjects
  <2> QED BY <2>3, <2>4, <2>5 DEF IInv, Data, RunTyped
<1> QED BY <1>2, <1>3 DEF Subjects

-----------------------------------------------------------------------------
(* Run, the designers and the devices.                                     *)

\* A step that leaves the definitions, the goroutines and the tasks alone.
LEMMA FrameStep ==
    ASSUME Data, Control, RunTyped, OnlyStarted',
           UNCHANGED <<started, maps, polling, todo>>
    PROVE  IInv'
<1>1. TypeOK'  BY TypesFollow DEF Data, TypeOK, RunTyped, maps, polling
<1>2. TodoOK' /\ PollersOK' /\ CacheMatchesBus'
  BY DEF Data, TodoOK, PollersOK, Sound, CacheMatchesBus, maps, polling
<1>3. Owned' /\ Accounted' /\ Stopping' /\ Ordered' /\ Homed' /\ OnePoller'
  BY DEF Control, Owned, Accounted, Stopping, Ordered, Homed, OnePoller, maps, polling
<1>4. Fresh'
  <2>1. \A c \in Connections : PointsOf(c)' = PointsOf(c)  BY DEF PointsOf, maps
  <2>2. \A c \in Connections : UpToDate(c)' <=> UpToDate(c)
    BY <2>1 DEF UpToDate, maps, polling
  <2>3. \A c \in Connections : Pending(c)' <=> Pending(c)  BY DEF Pending
  <2> QED BY <2>2, <2>3 DEF Control, Fresh
<1> QED BY <1>1, <1>2, <1>3, <1>4 DEF IInv, Data, Control, RunTyped

\* A step that only moves messages.
LEMMA SamePhase ==
    ASSUME Data, Control, InputsOK', UNCHANGED <<phase, device, started, maps, polling, todo>>
    PROVE  IInv'
<1>1. OnlyStarted'  BY DEF Control, OnlyStarted, maps
<1>2. RunTyped  BY DEF RunTyped, Data, TypeOK
<1> QED BY <1>1, <1>2, FrameStep

LEMMA MessageOf ==
    ASSUME NEW s \in Subjects, NEW raw \in Valid(s) \cup {Mistyped}, NEW id \in Nat, NEW at \in Nat
    PROVE  /\ [subject |-> s, raw |-> raw, id |-> id, at |-> at] \in Sent
           /\ [subject |-> s, raw |-> raw, id |-> id, at |-> at] # Nil
<1>1. raw \in Endpoints \cup Descriptor \cup {Disabled, Mistyped}  BY DEF Valid
<1>2. [subject |-> s, raw |-> raw, id |-> id, at |-> at] \in Messages
  BY <1>1 DEF Messages
<1> QED BY <1>2, NilAssumption DEF Sent

LEMMA SentFacts ==
    ASSUME NEW m \in Sent
    PROVE  /\ m.subject \in Subjects /\ m.raw \in Valid(m.subject) \cup {Mistyped}
           /\ m.id \in Nat /\ m.at \in Nat /\ m # Nil
BY NilAssumption DEF Sent, Messages

\* A goroutine takes a message into its hand ...
LEMMA HandTakes ==
    ASSUME NEW h, HandsOK(h), NEW g \in Goroutines, NEW m \in Sent,
           NEW stage \in {"accept", "handle", "return"},
           stage # "accept" => m.raw # Mistyped
    PROVE  HandsOK([h EXCEPT ![g] = InHand(m, stage)])
<1> DEFINE x == InHand(m, stage)
<1>1. /\ x \in [message : Sent, stage : {"accept", "handle", "return"}]
      /\ x.message = m /\ x.stage = stage
  BY DEF InHand
<1> HIDE DEF x
<1> QED BY <1>1 DEF HandsOK, x

\* ... or has nothing more to do with it.
LEMMA HandDrops ==
    ASSUME NEW h, HandsOK(h), NEW g \in Goroutines
    PROVE  HandsOK([h EXCEPT ![g] = Nil])
BY DEF HandsOK

\* What a goroutine has in hand was published.
LEMMA HandFacts ==
    ASSUME InputsOK, NEW g \in Goroutines, hand[g] # Nil
    PROVE  /\ hand[g].message \in Sent
           /\ hand[g].stage \in {"accept", "handle", "return"}
           /\ hand[g].stage # "accept" => hand[g].message.raw # Mistyped
BY DEF InputsOK, HandsOK

LEMMA ReadersAreGoroutines ==
    /\ Readers \subseteq Goroutines
    /\ \A kind \in Kinds : /\ <<"catchUp", kind>> \in Readers
                           /\ <<"load", kind>> \in Readers
                           /\ <<"callback", kind>> \in Goroutines
BY DEF Readers, Goroutines

LEMMA ListSubjectsStep ==
    ASSUME Data, Control, NEW r \in Readers, ListSubjects(r)  PROVE IInv'
<1>1. InputsOK'
  BY DEF Data, InputsOK, Filed, ListSubjects, environment, Of, Subjects
<1> QED BY <1>1, SamePhase DEF ListSubjects, environment

LEMMA CatchUpListFailsStep ==
    ASSUME Data, Control, NEW kind \in Kinds, CatchUpListFails(kind)  PROVE IInv'
<1>1. InputsOK'
  BY ReadersAreGoroutines DEF Data, InputsOK, Filed, CatchUpListFails, environment
<1> QED BY <1>1, SamePhase DEF CatchUpListFails, environment

LEMMA ReadDescriptorStep ==
    ASSUME Data, Control, NEW r \in Readers, NEW s \in Subjects, ReadDescriptor(r, s)
    PROVE  IInv'
<1>1. r \in Goroutines /\ retained[s] \in Sent
  BY ReadersAreGoroutines DEF ReadDescriptor, NextToRead, Data, InputsOK, Filed
<1>2. HandsOK(hand')
  <2>1. HandsOK(hand)  BY DEF Data, InputsOK
  <2>2. CASE r[1] = "catchUp"
    BY <2>1, <2>2, <1>1, HandTakes DEF ReadDescriptor
  <2>3. CASE r[1] # "catchUp" /\ retained[s].raw # Mistyped
    BY <2>1, <2>3, <1>1, HandTakes DEF ReadDescriptor
  <2>4. CASE r[1] # "catchUp" /\ retained[s].raw = Mistyped
    BY <2>1, <2>4, <1>1, HandDrops DEF ReadDescriptor
  <2> QED BY <2>2, <2>3, <2>4
<1>3. /\ toRead' \in [Readers -> SUBSET Subjects]
      /\ \A q \in Readers : toRead'[q] \subseteq toRead[q]
  BY DEF ReadDescriptor, NextToRead, Data, InputsOK
<1>4. InputsOK'
  BY <1>2, <1>3 DEF ReadDescriptor, Data, InputsOK, Filed, environment
<1> QED BY <1>4, SamePhase DEF ReadDescriptor, environment

LEMMA ReadDescriptorFailsStep ==
    ASSUME Data, Control, NEW r \in Readers, NEW s \in Subjects, ReadDescriptorFails(r, s)
    PROVE  IInv'
<1>1. /\ toRead' \in [Readers -> SUBSET Subjects]
      /\ \A q \in Readers : toRead'[q] \subseteq toRead[q]
  BY DEF ReadDescriptorFails, NextToRead, Data, InputsOK
<1>2. unread' \in SUBSET Subjects  BY DEF ReadDescriptorFails, Data, InputsOK
<1>3. InputsOK'
  BY <1>1, <1>2 DEF ReadDescriptorFails, Data, InputsOK, Filed, environment
<1> QED BY <1>3, SamePhase DEF ReadDescriptorFails, environment

LEMMA DeliverTyped ==
    ASSUME Data, NEW g \in Goroutines, NEW m \in Sent, Deliver(g, m)
    PROVE  Filed(last') /\ HandsOK(hand')
<1>1. Filed(last) /\ HandsOK(hand)  BY DEF Data, InputsOK
<1>2. m.subject \in Subjects  BY SentFacts
<1>3. Filed(last')
  <2>1. CASE Accepts(m)
    <3>1. last' = [last EXCEPT ![m.subject] = m]  BY <2>1 DEF Deliver
    <3> QED BY <3>1, <1>1, <1>2 DEF Filed
  <2>2. CASE ~Accepts(m)  BY <2>2, <1>1 DEF Deliver
  <2> QED BY <2>1, <2>2
<1>4. HandsOK(hand')
  <2>1. CASE Accepts(m) /\ m.raw # Mistyped
    <3>1. hand' = [hand EXCEPT ![g] = InHand(m, "handle")]  BY <2>1 DEF Deliver
    <3> QED BY <3>1, <2>1, <1>1, HandTakes
  <2>2. CASE ~(Accepts(m) /\ m.raw # Mistyped)
    <3>1. hand' = [hand EXCEPT ![g] = Nil]  BY <2>2 DEF Deliver
    <3> QED BY <3>1, <1>1, HandDrops
  <2> QED BY <2>1, <2>2
<1> QED BY <1>3, <1>4

LEMMA CatchUpAcceptsStep ==
    ASSUME Data, Control, NEW kind \in Kinds, CatchUpAccepts(kind)  PROVE IInv'
<1> DEFINE g == <<"catchUp", kind>>
<1>1. g \in Goroutines  BY ReadersAreGoroutines
<1>2. hand[g].message \in Sent
  BY <1>1, HandFacts DEF CatchUpAccepts, Idle, Data
<1>3. Filed(last') /\ HandsOK(hand')
  BY <1>1, <1>2, DeliverTyped DEF CatchUpAccepts
<1>4. InputsOK'  BY <1>3 DEF CatchUpAccepts, Data, InputsOK, Filed
<1> QED BY <1>4, SamePhase DEF CatchUpAccepts

\* The first of the messages that wait, and the others.
LEMMA HeadTail ==
    ASSUME NEW q \in Seq(Sent), q # <<>>
    PROVE  /\ Head(q) \in Sent /\ Tail(q) \in Seq(Sent)
           /\ 1 \in DOMAIN q /\ q[1] = Head(q)
           /\ \A i \in DOMAIN Tail(q) : i + 1 \in DOMAIN q /\ Tail(q)[i] = q[i + 1]
           /\ \A i \in DOMAIN q : q[i] = Head(q) \/ \E j \in DOMAIN Tail(q) : Tail(q)[j] = q[i]
<1>1. Head(q) \in Sent /\ Tail(q) \in Seq(Sent) /\ Len(q) \in Nat \ {0}
  OBVIOUS
<1>2. Len(Tail(q)) = Len(q) - 1 /\ Head(q) = q[1]  OBVIOUS
<1>3. \A i \in 1..Len(q)-1 : Tail(q)[i] = q[i + 1]  OBVIOUS
<1>4. DOMAIN q = 1..Len(q) /\ DOMAIN Tail(q) = 1..Len(q)-1  BY <1>1, <1>2
<1>5. \A i \in DOMAIN q : q[i] = Head(q) \/ \E j \in DOMAIN Tail(q) : Tail(q)[j] = q[i]
  <2> SUFFICES ASSUME NEW i \in 1..Len(q), i # 1
               PROVE  \E j \in DOMAIN Tail(q) : Tail(q)[j] = q[i]
    BY <1>2, <1>4
  <2>1. i - 1 \in 1..Len(q)-1 /\ (i - 1) + 1 = i  BY <1>1
  <2>2. Tail(q)[i - 1] = q[i]  BY <2>1, <1>3
  <2> QED BY <2>1, <2>2, <1>4
<1> QED BY <1>1, <1>2, <1>3, <1>4, <1>5

LEMMA CallbackAcceptsStep ==
    ASSUME Data, Control, NEW kind \in Kinds, CallbackAccepts(kind)  PROVE IInv'
<1> DEFINE g == <<"callback", kind>>
<1>1. g \in Goroutines  BY ReadersAreGoroutines
<1>2. Head(live[kind]) \in Sent /\ Tail(live[kind]) \in Seq(Sent)
  BY HeadTail DEF CallbackAccepts, Data, InputsOK
<1>3. Filed(last') /\ HandsOK(hand')
  BY <1>1, <1>2, DeliverTyped DEF CallbackAccepts
<1>4. live' \in [Kinds -> Seq(Sent)]  BY <1>2 DEF CallbackAccepts, Data, InputsOK
<1>5. InputsOK'  BY <1>3, <1>4 DEF CallbackAccepts, Data, InputsOK, Filed
<1> QED BY <1>5, SamePhase DEF CallbackAccepts

\* A call of the handler: the subject gets the descriptor of the message.
LEMMA HandleMessageStep ==
    ASSUME Data, Control, NEW g \in Goroutines, HandleMessage(g)
    PROVE  /\ IInv'
           /\ \A s \in Subjects :
                Definition(s)' = IF s = hand[g].message.subject
                                 THEN Parsed(hand[g].message.raw) ELSE Definition(s)
<1> DEFINE m == hand[g].message
<1>1. m \in Sent /\ m.raw # Mistyped
  BY HandFacts DEF HandleMessage, Idle, Data
<1>2. m.subject \in Subjects /\ m.raw \in Valid(m.subject) /\ m # Nil
  BY <1>1, SentFacts
<1>3. HandsOK(hand')
  <2>1. HandsOK(hand)  BY DEF Data, InputsOK
  <2>2. CASE todo' = <<>>
    <3>1. hand' = [hand EXCEPT ![g] = Nil]  BY <2>2 DEF HandleMessage
    <3> QED BY <3>1, <2>1, HandDrops
  <2>3. CASE todo' # <<>>
    <3>1. hand' = [hand EXCEPT ![g] = InHand(m, "return")]  BY <2>3 DEF HandleMessage
    <3> QED BY <3>1, <2>1, <1>1, HandTakes
  <2> QED BY <2>2, <2>3
<1>4. Filed(handled')
  <2>1. handled' = [handled EXCEPT ![m.subject] = m] /\ Filed(handled)
    BY DEF HandleMessage, Data, InputsOK
  <2> HIDE DEF m
  <2> QED BY <2>1, <1>1, <1>2 DEF Filed
<1>5. InputsOK'
  BY <1>3, <1>4 DEF HandleMessage, Data, InputsOK, Filed, environment
<1>6. RunTyped /\ UNCHANGED <<phase, started>>
  BY <1>5 DEF RunTyped, HandleMessage, Data, TypeOK, environment
<1>7. Reconcile(m.subject, m.raw)  BY DEF HandleMessage
<1>8. PICK s \in Subjects : s = m.subject  BY <1>2
<1>a. PICK raw \in Valid(s) : raw = m.raw  BY <1>2, <1>8
<1>9. /\ IInv' /\ Definition(s)' = Parsed(raw)
      /\ \A t \in Subjects : t # s => Definition(t)' = Definition(t)
  BY <1>6, <1>7, <1>8, <1>a, ReconcileStep
<1> QED BY <1>8, <1>a, <1>9

LEMMA HandlerReturnsStep ==
    ASSUME Data, Control, NEW g \in Goroutines, HandlerReturns(g)  PROVE IInv'
<1>1. HandsOK(hand')  BY HandDrops DEF HandlerReturns, Data, InputsOK
<1>2. InputsOK'  BY <1>1 DEF HandlerReturns, Data, InputsOK, Filed, environment
<1> QED BY <1>2, SamePhase DEF HandlerReturns, environment

LEMMA WorkersStartedStep ==
    ASSUME Data, Control, WorkersStarted  PROVE IInv'
<1>1. InputsOK'
  BY ArrivalsKept DEF WorkersStarted, Data, environment, arrivals
<1>2. RunTyped  BY <1>1 DEF RunTyped, WorkersStarted, Data, TypeOK, environment
<1>3. OnlyStarted'  BY DEF WorkersStarted, Control, OnlyStarted, maps
<1> QED BY <1>2, <1>3, FrameStep DEF WorkersStarted

LEMMA EndSubscriptionTyped ==
    ASSUME Data, NEW kind \in Kinds, EndSubscription(kind)
    PROVE  /\ InputsOK' /\ UNCHANGED <<device, started, maps, polling, todo>>
           /\ toRead' = [toRead EXCEPT ![<<"catchUp", kind>>] = {}]
<1>1. /\ toRead' \in [Readers -> SUBSET Subjects]
      /\ \A q \in Readers : toRead'[q] \subseteq toRead[q]
  BY ReadersAreGoroutines DEF EndSubscription, Data, InputsOK
<1>2. live' \in [Kinds -> Seq(Sent)]  BY DEF EndSubscription, Data, InputsOK
<1>3. InputsOK'  BY <1>1, <1>2 DEF EndSubscription, Data, InputsOK, Filed
<1> QED BY <1>3 DEF EndSubscription

LEMMA UnsubscribeStep ==
    ASSUME Data, Control, Unsubscribe  PROVE IInv'
<1>1. EndSubscription("addresses") /\ phase' = "closing" /\ phase \in {"running", "loading"}
  BY DEF Unsubscribe, LoadReaches
<1>2. InputsOK' /\ UNCHANGED <<device, started, maps, polling, todo>>
  BY <1>1, EndSubscriptionTyped DEF Kinds
<1>3. RunTyped  BY <1>1, <1>2 DEF RunTyped, Data, TypeOK
<1>4. OnlyStarted'  BY <1>1, <1>2 DEF Control, OnlyStarted, maps
<1> QED BY <1>2, <1>3, <1>4, FrameStep

LEMMA UnsubscribeConnectionsStep ==
    ASSUME Data, Control, UnsubscribeConnections  PROVE IInv'
<1>1. EndSubscription("connections") /\ phase' = "closed" /\ phase = "closing"
  BY DEF UnsubscribeConnections
<1>2. InputsOK' /\ UNCHANGED <<device, started, maps, polling, todo>>
  BY <1>1, EndSubscriptionTyped DEF Kinds
<1>3. RunTyped  BY <1>1, <1>2 DEF RunTyped, Data, TypeOK
<1>4. OnlyStarted'  BY <1>1, <1>2 DEF Control, OnlyStarted, maps
<1> QED BY <1>2, <1>3, <1>4, FrameStep

\* What is published is a message that nobody has seen.
LEMMA PublishDescriptorStep ==
    ASSUME Data, Control, NEW s \in Subjects, NEW raw \in Choices[s], NEW skew \in Skews,
           PublishDescriptor(s, raw, skew)
    PROVE  IInv'
<1> DEFINE m == [subject |-> s, raw |-> raw, id |-> ops + 1, at |-> ops + 1 + skew]
<1>1. raw \in Valid(s) \cup {Mistyped}
  <2>1. CASE s \in Connections  BY <2>1, DescriptorsAssumption DEF Valid
  <2>2. CASE s \in Points /\ s \notin Connections
    BY <2>2, DescriptorsAssumption DEF Valid
  <2> QED BY <2>1, <2>2 DEF Subjects
<1>2. ops + 1 \in Nat /\ ops + 1 + skew \in Nat
  BY BoundsAssumption DEF Data, InputsOK
<1>3. m \in Sent  BY <1>1, <1>2, MessageOf
<1>4. /\ ingest' = Append(ingest, m) /\ ops' = ops + 1
      /\ live' = IF Cancelled(KindOf(s)) THEN live
                 ELSE [live EXCEPT ![KindOf(s)] = Append(@, m)]
  BY DEF PublishDescriptor, Operation
<1> HIDE DEF m
<1>5. ingest' \in Seq(Sent)  BY <1>3, <1>4 DEF Data, InputsOK
<1>6. live' \in [Kinds -> Seq(Sent)]
  <2>1. \A kind \in Kinds : Append(live[kind], m) \in Seq(Sent)
    BY <1>3 DEF Data, InputsOK
  <2> QED BY <2>1, <1>4 DEF Data, InputsOK
<1>7. InputsOK'
  BY <1>2, <1>4, <1>5, <1>6 DEF PublishDescriptor, run, Data, InputsOK, Filed
<1> QED BY <1>7, SamePhase DEF PublishDescriptor, run

LEMMA HandleIngestStep ==
    ASSUME Data, Control, HandleIngest  PROVE IInv'
<1>1. Head(ingest) \in Sent /\ Tail(ingest) \in Seq(Sent)
  BY HeadTail DEF HandleIngest, Data, InputsOK
<1>2. Head(ingest).subject \in Subjects /\ Head(ingest) # Nil  BY <1>1, SentFacts
<1>3. /\ Filed(retained')
      /\ \A s \in Subjects : retained[s] # Nil => retained'[s] # Nil
  BY <1>1, <1>2 DEF HandleIngest, Data, InputsOK, Filed
<1>4. InputsOK'
  BY <1>1, <1>3 DEF HandleIngest, run, Data, InputsOK, Filed
<1> QED BY <1>4, SamePhase DEF HandleIngest, run

LEMMA ChangeDeviceStep ==
    ASSUME Data, Control, NEW e \in Endpoints, NEW v \in Readings, ChangeDevice(e, v)
    PROVE  IInv'
<1>1. device' \in [Endpoints -> Readings]  BY DEF ChangeDevice, Data, TypeOK
<1>2. InputsOK'
  BY DEF ChangeDevice, Operation, run, Data, InputsOK, Filed
<1>3. RunTyped /\ OnlyStarted'
  BY <1>1, <1>2 DEF RunTyped, ChangeDevice, Data, TypeOK, Control, OnlyStarted, run, maps
<1> QED BY <1>3, FrameStep DEF ChangeDevice, run

LEMMA InHandNotNil ==
    ASSUME NEW m \in Sent, NEW stage \in {"accept", "handle", "return"}
    PROVE  InHand(m, stage) # Nil
BY NilAssumption DEF InHand, Hands, Sent

\* A listing has every element of its set once.
LEMMA ListingOf ==
    ASSUME NEW S, IsFiniteSet(S), NEW q \in Listings(S)
    PROVE  /\ Cardinality(S) \in Nat /\ DOMAIN q = 1..Cardinality(S)
           /\ \A i \in DOMAIN q : q[i] \in S
           /\ \A x \in S : \E i \in DOMAIN q : q[i] = x
           /\ \A i, j \in DOMAIN q : q[i] = q[j] => i = j
<1>1. Cardinality(S) \in Nat  BY FS_CardinalityType
<1>2. /\ q \in [1..Cardinality(S) -> S]
      /\ \A x \in S : \E i \in DOMAIN q : \A j \in DOMAIN q : q[j] = x <=> j = i
  BY DEF Listings
<1>3. \A i \in DOMAIN q : q[i] \in S  BY <1>2
<1>4. \A i, j \in DOMAIN q : q[i] = q[j] => i = j
  <2> SUFFICES ASSUME NEW i \in DOMAIN q, NEW j \in DOMAIN q, q[i] = q[j]  PROVE i = j
    OBVIOUS
  <2>1. PICK k \in DOMAIN q : \A l \in DOMAIN q : q[l] = q[i] <=> l = k  BY <1>2, <1>3
  <2> QED BY <2>1
<1> QED BY <1>1, <1>2, <1>3, <1>4

\* The values of a map of connections, without Nil, are finitely many.
LEMMA ValuesFinite ==
    ASSUME NEW f, NEW T, f \in [Connections -> T]
    PROVE  IsFiniteSet({f[c] : c \in Connections} \ {Nil})
<1> DEFINE V == {f[c] : c \in Connections}
<1>1. f \in Surjection(Connections, V)  BY DEF Surjection
<1> HIDE DEF V
<1>2. IsFiniteSet(V)  BY <1>1, IdsAssumption, FS_Surjection
<1>3. IsFiniteSet(V \ {Nil})  BY <1>2, FS_RemoveElement
<1> QED BY <1>3 DEF V

LEMMA StartWorkersStep ==
    ASSUME Data, Control, StartWorkers  PROVE IInv'
<1> DEFINE S == {c \in Connections : connections[c] # Nil}
<1>1. /\ phase = "loading" /\ Unlocked /\ phase' = "starting" /\ started' = TRUE
      /\ UNCHANGED <<listed, toRead, hand, unread, handled, maps, polling, environment>>
  BY DEF StartWorkers
<1>2. PICK q \in Listings(S) : todo' = [i \in DOMAIN q |-> Task("restart", q[i])]
  BY DEF StartWorkers
<1>3. IsFiniteSet(S)  BY IdsAssumption, FS_Subset
<1>4. /\ Cardinality(S) \in Nat /\ DOMAIN q = 1..Cardinality(S)
      /\ \A i \in DOMAIN q : q[i] \in S
      /\ \A x \in S : \E i \in DOMAIN q : q[i] = x
  BY <1>2, <1>3, ListingOf
<1>5. ~started /\ \A c \in Connections : workers[c] = Nil
  BY <1>1 DEF Control, OnlyStarted
<1>6. DOMAIN pollers = {}
  <2> SUFFICES ASSUME NEW v \in DOMAIN pollers  PROVE FALSE
    OBVIOUS
  <2>1. DOMAIN todo = {}  BY <1>1 DEF Unlocked
  <2>2. v \in WorkerIds /\ pollers[v].connection \in Connections
    BY DEF Data, TypeOK, Poller
  <2>3. workers[pollers[v].connection] = v  BY <2>1 DEF Control, Accounted
  <2> QED BY <2>2, <2>3, <1>5, IdsAssumption
<1>7. DOMAIN todo' = DOMAIN q /\ \A i \in DOMAIN todo' : todo'[i] = Task("restart", q[i])
  BY <1>2
<1>8. \A i \in DOMAIN todo' : /\ todo'[i] \in TaskType /\ todo'[i].op = "restart"
                              /\ todo'[i].arg = q[i] /\ q[i] \in Connections
  BY <1>4, <1>7 DEF Task, TaskType
<1>9. TodoOK'
  <2> DEFINE n == Cardinality(S)
  <2>1. todo' \in [1..n -> TaskType]  BY <1>2, <1>4, <1>7, <1>8
  <2>2. n \in Nat  BY <1>4
  <2> HIDE DEF n
  <2>3. todo' \in Seq(TaskType)  BY <2>1, <2>2
  <2> QED BY <2>3, <1>8 DEF TodoOK, Arguments
<1>11. InputsOK' /\ ArrivalTypes'
  BY <1>1, ArrivalsKept DEF Data, environment, arrivals
<1>10. TypeOK'  BY <1>1, <1>11 DEF Data, TypeOK, maps, polling, environment
<1>12. PollersOK' /\ CacheMatchesBus'
  BY <1>1 DEF Data, PollersOK, Sound, CacheMatchesBus, maps, polling
<1>13. Owned' /\ OnePoller' /\ Accounted' /\ Homed'
  BY <1>1, <1>5, <1>6 DEF Owned, OnePoller, Accounted, Homed, maps, polling
<1>14. Stopping' /\ Ordered'  BY <1>8 DEF Stopping, Ordered
<1>15. OnlyStarted'  BY <1>1 DEF OnlyStarted
<1>16. Fresh'
  <2> SUFFICES ASSUME NEW c \in Connections  PROVE Pending(c)' \/ UpToDate(c)'
    BY DEF Fresh
  <2>1. CASE connections[c] = Nil  BY <2>1, <1>1, <1>5 DEF UpToDate, maps
  <2>2. CASE connections[c] # Nil
    <3>1. PICK i \in DOMAIN q : q[i] = c  BY <2>2, <1>4
    <3> QED BY <3>1, <1>7, <1>8 DEF Pending, Starters
  <2> QED BY <2>1, <2>2
<1> QED BY <1>9, <1>10, <1>11, <1>12, <1>13, <1>14, <1>15, <1>16 DEF IInv, Data, Control

LEMMA ConcatOf ==
    ASSUME NEW T, NEW a \in Seq(T), NEW b \in Seq(T), NEW s, s = a \o b
    PROVE  /\ s \in Seq(T) /\ DOMAIN s = 1..(Len(a) + Len(b))
           /\ \A i \in 1..Len(a) : s[i] = a[i]
           /\ \A i \in Len(a)+1..(Len(a) + Len(b)) : s[i] = b[i - Len(a)]
<1>1. s \in Seq(T) /\ Len(s) = Len(a) + Len(b) /\ Len(a) \in Nat /\ Len(b) \in Nat
  OBVIOUS
<1>2. DOMAIN s = 1..(Len(a) + Len(b))  BY <1>1
<1>3. \A i \in 1..Len(a) : s[i] = a[i]  BY <1>1
<1>4. \A i \in Len(a)+1..(Len(a) + Len(b)) : s[i] = b[i - Len(a)]  BY <1>1
<1> QED BY <1>1, <1>2, <1>3, <1>4

LEMMA StopStep ==
    ASSUME Data, Control, Stop  PROVE IInv'
<1> DEFINE W == {workers[c] : c \in Connections} \ {Nil}
           C == {clients[c] : c \in Connections} \ {Nil}
<1>1. /\ Unlocked /\ phase' = "stopped" /\ started' = FALSE
      /\ workers' = [c \in Connections |-> Nil] /\ clients' = [c \in Connections |-> Nil]
      /\ UNCHANGED <<listed, toRead, hand, unread, handled, connections, points, polling,
                     environment>>
  BY DEF Stop
<1>2. PICK q \in Listings(W), r \in Listings(C) :
        todo' = [i \in DOMAIN q |-> Task("cancel", q[i])]
                \o [i \in DOMAIN r |-> Task("close", r[i])]
  BY DEF Stop
<1>3. IsFiniteSet(W) /\ IsFiniteSet(C) /\ W \subseteq WorkerIds /\ C \subseteq ClientIds
  <2>1. /\ workers \in [Connections -> WorkerIds \cup {Nil}]
        /\ clients \in [Connections -> ClientIds \cup {Nil}]
    BY DEF Data, TypeOK
  <2>2. W \subseteq WorkerIds /\ C \subseteq ClientIds  BY <2>1
  <2>3. IsFiniteSet(W)  BY <2>1, ValuesFinite
  <2>4. IsFiniteSet(C)  BY <2>1, ValuesFinite
  <2> QED BY <2>2, <2>3, <2>4
<1> HIDE DEF W, C
<1>4. /\ Cardinality(W) \in Nat /\ DOMAIN q = 1..Cardinality(W)
      /\ \A i \in DOMAIN q : q[i] \in W
      /\ \A x \in W : \E i \in DOMAIN q : q[i] = x
      /\ \A i, j \in DOMAIN q : q[i] = q[j] => i = j
  BY <1>2, <1>3, ListingOf
<1>5. /\ Cardinality(C) \in Nat /\ DOMAIN r = 1..Cardinality(C)
      /\ \A i \in DOMAIN r : r[i] \in C
  BY <1>2, <1>3, ListingOf
<1> DEFINE a == [i \in DOMAIN q |-> Task("cancel", q[i])]
           b == [i \in DOMAIN r |-> Task("close", r[i])]
           n == Cardinality(W)
           m == Cardinality(C)
<1>6. /\ a \in Seq(TaskType) /\ Len(a) = n
      /\ \A i \in 1..n : a[i].op = "cancel" /\ a[i].arg = q[i]
  <2>1. \A i \in 1..n : Task("cancel", q[i]) \in TaskType
    BY <1>3, <1>4 DEF Task, TaskType
  <2>2. a \in [1..n -> TaskType]  BY <2>1, <1>4
  <2>3. \A i \in 1..n : a[i].op = "cancel" /\ a[i].arg = q[i]  BY <1>4 DEF Task
  <2> HIDE DEF a
  <2>4. a \in Seq(TaskType) /\ Len(a) = n  BY <2>2, <1>4
  <2> QED BY <2>3, <2>4
<1>7. /\ b \in Seq(TaskType) /\ Len(b) = m
      /\ \A i \in 1..m : b[i].op = "close" /\ b[i].arg = r[i]
  <2>1. \A i \in 1..m : Task("close", r[i]) \in TaskType
    BY <1>3, <1>5 DEF Task, TaskType
  <2>2. b \in [1..m -> TaskType]  BY <2>1, <1>5
  <2>3. \A i \in 1..m : b[i].op = "close" /\ b[i].arg = r[i]  BY <1>5 DEF Task
  <2> HIDE DEF b
  <2>4. b \in Seq(TaskType) /\ Len(b) = m  BY <2>2, <1>5
  <2> QED BY <2>3, <2>4
<1>8. todo' = a \o b  BY <1>2
<1> HIDE DEF a, b, n, m
<1>9. n \in Nat /\ m \in Nat /\ DOMAIN q = 1..n /\ DOMAIN r = 1..m  BY <1>4, <1>5 DEF n, m
<1>10. /\ todo' \in Seq(TaskType) /\ DOMAIN todo' = 1..(n + m)
       /\ \A i \in 1..n : todo'[i] = a[i]
       /\ \A i \in n+1..(n + m) : todo'[i] = b[i - n]
  <2>1. PICK s : s = a \o b  OBVIOUS
  <2>2. /\ s \in Seq(TaskType) /\ DOMAIN s = 1..(n + m)
        /\ \A i \in 1..n : s[i] = a[i]
        /\ \A i \in n+1..(n + m) : s[i] = b[i - n]
    BY <2>1, <1>6, <1>7, ConcatOf
  <2> QED BY <2>1, <2>2, <1>8
<1>11. \A i \in DOMAIN todo' :
        \/ i \in DOMAIN q /\ todo'[i].op = "cancel" /\ todo'[i].arg = q[i]
        \/ todo'[i].op = "close" /\ todo'[i].arg \in C
  <2> SUFFICES ASSUME NEW i \in 1..(n + m)
               PROVE  \/ i \in DOMAIN q /\ todo'[i].op = "cancel" /\ todo'[i].arg = q[i]
                      \/ todo'[i].op = "close" /\ todo'[i].arg \in C
    BY <1>10
  <2>1. CASE i \in 1..n  BY <2>1, <1>6, <1>9, <1>10
  <2>2. CASE i \in n+1..(n + m)
    <3>1. i - n \in 1..m /\ todo'[i] = b[i - n]  BY <2>2, <1>9, <1>10
    <3> QED BY <3>1, <1>5, <1>7, <1>9
  <2> QED BY <2>1, <2>2, <1>9
<1>12. \A i \in DOMAIN q : i \in DOMAIN todo' /\ todo'[i].op = "cancel" /\ todo'[i].arg = q[i]
  BY <1>6, <1>9, <1>10
<1>13. TodoOK'
  <2>1. \A i \in DOMAIN todo' : todo'[i].arg \in Arguments(todo'[i].op)
    BY <1>3, <1>4, <1>11 DEF Arguments
  <2> QED BY <2>1, <1>10 DEF TodoOK
<1>15. InputsOK' /\ ArrivalTypes'
  BY <1>1, ArrivalsKept DEF Data, environment, arrivals
<1>14. TypeOK'  BY <1>1, <1>15 DEF Data, TypeOK, polling, environment
<1>16. PollersOK' /\ CacheMatchesBus'
  BY <1>1 DEF Data, PollersOK, Sound, CacheMatchesBus, polling
<1>17. Owned' /\ OnePoller' /\ Homed' /\ Fresh'
  BY <1>1 DEF Control, Owned, OnePoller, Homed, Fresh, polling
<1>18. OnlyStarted'  BY <1>1, <1>11 DEF OnlyStarted
<1>19. Ordered'  BY <1>11 DEF Ordered, Starters
<1>20. \A x \in W : x \in DOMAIN pollers /\ ~pollers[x].canceled /\ x # Nil
  BY DEF W, Control, Owned
<1>21. Stopping'
  <2> SUFFICES ASSUME NEW i \in DOMAIN todo'  PROVE (Stopping!(i))'
    BY DEF Stopping
  <2>1. CASE i \in DOMAIN q /\ todo'[i].op = "cancel" /\ todo'[i].arg = q[i]
    <3>1. q[i] \in DOMAIN pollers /\ ~pollers[q[i]].canceled /\ q[i] # Nil
      BY <2>1, <1>4, <1>20
    <3>2. \A j \in DOMAIN todo' :
            todo'[j].op \in {"cancel", "join"} /\ todo'[j].arg = todo'[i].arg => j = i
      BY <2>1, <1>4, <1>11
    <3> QED BY <3>1, <3>2, <2>1, <1>1 DEF polling
  <2>2. CASE todo'[i].op = "close"  BY <2>2
  <2> QED BY <2>1, <2>2, <1>11
<1>22. Accounted'
  <2> SUFFICES ASSUME NEW v \in DOMAIN pollers
               PROVE  \E i \in DOMAIN todo' :
                        todo'[i].op \in {"cancel", "join"} /\ todo'[i].arg = v
    BY <1>1 DEF Accounted, polling
  <2>1. DOMAIN todo = {}  BY <1>1 DEF Unlocked
  <2>2. workers[pollers[v].connection] = v  BY <2>1 DEF Control, Accounted
  <2>3. v \in W  BY <2>2, IdsAssumption DEF W, Data, TypeOK, Poller
  <2>4. PICK i \in DOMAIN q : q[i] = v  BY <2>3, <1>4
  <2> QED BY <2>4, <1>12
<1> QED BY <1>13, <1>14, <1>15, <1>16, <1>17, <1>18, <1>19, <1>21, <1>22
        DEF IInv, Data, Control

-----------------------------------------------------------------------------
(* The theorems.                                                           *)

LEMMA InitIInv ==
    Init => IInv
<1> SUFFICES ASSUME Init  PROVE IInv  OBVIOUS
<1> USE DEF Init
<1>1. DOMAIN pollers = {} /\ DOMAIN todo = {} /\ todo = <<>>  BY DEF Empty
<1>2. TypeOK /\ InputsOK
  <2>1. PICK initial \in Initials : retained =
          [s \in Subjects |-> IF initial[s] = Nil THEN Nil ELSE
              [subject |-> s, raw |-> initial[s], id |-> 0, at |-> 0]]
    OBVIOUS
  <2>2. \A s \in Subjects : initial[s] \in Valid(s) \cup {Mistyped, Nil}
    BY DescriptorsAssumption DEF Valid, Subjects
  <2>3. ASSUME NEW s \in Subjects, initial[s] # Nil
        PROVE  retained[s] \in Sent /\ retained[s].subject = s
    BY <2>1, <2>2, <2>3, MessageOf
  <2>4. Filed(retained)
    <3>1. \A s \in Subjects : initial[s] = Nil => retained[s] = Nil  BY <2>1
    <3>2. retained \in [Subjects -> Sent \cup {Nil}]  BY <2>1, <2>3, <3>1
    <3> QED BY <3>1, <3>2, <2>3 DEF Filed
  <2>5. Filed(last) /\ Filed(handled) /\ HandsOK(hand)  BY DEF Filed, HandsOK
  <2>6. ingest \in Seq(Sent) /\ live \in [Kinds -> Seq(Sent)]  OBVIOUS
  <2>7. InputsOK  BY <2>4, <2>5, <2>6 DEF InputsOK
  <2>8. ArrivalTypes
    <3>1. Sent \subseteq Messages  BY DEF Sent
    <3>2. ingest \in Seq(Messages) /\ live \in [Kinds -> Seq(Messages)]  OBVIOUS
    <3> QED BY <3>1, <3>2, <2>4, <2>5 DEF ArrivalTypes, Filed, HandsOK, Hands
  <2>9. TypeOK
    BY <1>1, <2>8, IdsAssumption DEF TypeOK, NoClient
  <2> QED BY <2>7, <2>9
<1>4. TodoOK /\ CacheMatchesBus  BY <1>1 DEF TodoOK, CacheMatchesBus
<1>5. PollersOK  BY <1>1 DEF PollersOK, Empty
<1>6. Control
  BY <1>1 DEF Control, Owned, Accounted, Stopping, Ordered, OnlyStarted, Fresh, Homed, OnePoller
<1> QED BY <1>2, <1>4, <1>5, <1>6 DEF IInv, Data

LEMMA NextIInv ==
    IInv /\ [Next]_vars => IInv'
<1> SUFFICES ASSUME Data, Control, [Next]_vars  PROVE IInv'
  BY DEF IInv
<1>1. ASSUME Tasks  PROVE IInv'
  BY <1>1, StopWorkerStep, CancelWorkerStep, JoinWorkerStep, StartWorkerStep,
     CloseClientStep DEF Tasks
<1>2. ASSUME Running  PROVE IInv'
  BY <1>2, ListSubjectsStep, CatchUpListFailsStep, ReadDescriptorStep,
     ReadDescriptorFailsStep, CatchUpAcceptsStep, CallbackAcceptsStep, HandleMessageStep,
     HandlerReturnsStep, StartWorkersStep, WorkersStartedStep, UnsubscribeConnectionsStep,
     StopStep, HandleIngestStep DEF Running
<1>3. ASSUME Environment  PROVE IInv'
  BY <1>3, UnsubscribeStep, PublishDescriptorStep, ChangeDeviceStep DEF Environment
<1>4. ASSUME NEW w \in WorkerIds, PollStep(w)  PROVE IInv'
  BY <1>4, PollBeginsStep, ReadGroupStep, ReadFailsStep, RememberPublishedStep,
     PollDoneStep, SkipPointStep, PublishPointStep, PublishFailsStep DEF PollStep
<1>5. ASSUME NEW w \in WorkerIds, PollerEnds(w)  PROVE IInv'
  BY <1>5, PollerEndsStep
<1>6. CASE UNCHANGED vars
  <2>1. UNCHANGED <<run, maps, polling, todo, environment>>  BY <1>6 DEF vars
  <2>2. RunTyped
    <3>1. InputsOK'  BY <2>1, ArrivalsKept DEF Data, run, environment, arrivals
    <3> QED BY <2>1, <3>1 DEF RunTyped, Data, TypeOK, run, environment
  <2>3. OnlyStarted'  BY <2>1 DEF Control, OnlyStarted, run, maps
  <2> QED BY <2>1, <2>2, <2>3, FrameStep DEF run
<1> QED BY <1>1, <1>2, <1>3, <1>4, <1>5, <1>6 DEF Next

\* The inductive invariant: every goroutine is the one of its connection or
\* is about to be cancelled or joined.
THEOREM Invariance == Spec => []IInv
<1> QED BY InitIInv, NextIInv, PTL DEF Spec

\* The maps of Service, its goroutines and its clients stay well formed.
THEOREM TypeCorrect == Spec => []TypeOK
<1>1. IInv => TypeOK  BY DEF IInv, Data
<1> QED BY <1>1, Invariance, PTL

\* However definitions come, move and go, stopWorker and restartConnection
\* never let two goroutines poll one connection or one point.
THEOREM OnePollerHolds == Spec => []OnePoller
<1>1. IInv => OnePoller  BY DEF IInv, Control
<1> QED BY <1>1, Invariance, PTL

\* Whenever reconcileMu is free, a started service polls exactly the points
\* that are defined, through the connections they name.
THEOREM WorkersFollow == Spec => []WorkersFollowDefinitions
<1>1. IInv => WorkersFollowDefinitions
  <2> SUFFICES ASSUME Data, Control, Unlocked, started
               PROVE  WorkersFollowDefinitions!2
    BY DEF IInv, WorkersFollowDefinitions
  <2>1. DOMAIN todo = {}  BY DEF Unlocked
  <2>2. \A c \in Connections : UpToDate(c)  BY UnlockedFacts
  <2>3. \A w \in DOMAIN pollers : /\ workers[pollers[w].connection] = w /\ w # Nil
                                  /\ pollers[w].connection \in Connections
    BY <2>1, IdsAssumption DEF Control, Accounted, Data, TypeOK, Poller
  <2>4. DOMAIN pollers = {workers[c] : c \in Connections} \ {Nil}
    BY <2>3 DEF Control, Owned
  <2>5. \A c \in Connections : workers[c] # Nil => ~pollers[workers[c]].canceled
    BY DEF Control, Owned
  <2> QED BY <2>2, <2>4, <2>5 DEF UpToDate
<1> QED BY <1>1, Invariance, PTL

\* Run returns only after every goroutine has ended, and nothing starts one
\* afterwards.
THEOREM NothingRuns == Spec => []NothingRunsAfterStop
<1>1. IInv => NothingRunsAfterStop
  <2> SUFFICES ASSUME Data, Control, phase = "stopped", Unlocked  PROVE pollers = Empty
    BY DEF IInv, NothingRunsAfterStop
  <2>1. DOMAIN todo = {}  BY DEF Unlocked
  <2>2. \A c \in Connections : workers[c] = Nil  BY DEF Control, OnlyStarted
  <2>3. \A w \in DOMAIN pollers : /\ workers[pollers[w].connection] = w /\ w # Nil
                                  /\ pollers[w].connection \in Connections
    BY <2>1, IdsAssumption DEF Control, Accounted, Data, TypeOK, Poller
  <2>4. DOMAIN pollers = {}  BY <2>2, <2>3
  <2>5. pollers = [w \in DOMAIN pollers |-> pollers[w]]  BY DEF Data, PollersOK
  <2> QED BY <2>4, <2>5 DEF Empty
<1> QED BY <1>1, Invariance, PTL

\* What publish_on_change compares with is what subscribers last saw, except
\* between a publication and rememberPublished.
THEOREM CacheMatches == Spec => []CacheMatchesBus
<1>1. IInv => CacheMatchesBus  BY DEF IInv, Data
<1> QED BY <1>1, Invariance, PTL

-----------------------------------------------------------------------------
(* Nothing that is published is lost.                                      *)

messages == <<listed, toRead, hand, unread, handled, retained, ingest, live, last>>

\* Nobody has a message that nobody had before.
LEMMA IdentifiedKept ==
    ASSUME InputsOK, InputsOK', Identified, Around' \subseteq Around, ops <= ops',
           \A s \in Subjects : Known(s) => Known(s)'
    PROVE  Identified'
<1>1. ASSUME NEW m \in Around'  PROVE m.id <= ops' /\ Known(m.subject)'
  <2>1. m \in Around /\ m \in Sent  BY <1>1 DEF Around
  <2>2. m.subject \in Subjects /\ m.id \in Nat /\ m.id <= ops /\ Known(m.subject)
    BY <2>1, SentFacts DEF Identified
  <2>3. PICK s \in Subjects : s = m.subject  BY <2>2
  <2>4. Known(s)'  BY <2>2, <2>3
  <2> QED BY <2>2, <2>3, <2>4 DEF InputsOK
<1> QED BY <1>1 DEF Identified

LEMMA AroundKept ==
    ASSUME UNCHANGED <<hand, handled, retained, ingest, live, last>>
    PROVE  /\ Around' = Around /\ \A s \in Subjects : Known(s) => Known(s)'
           /\ \A m \in Sent : /\ Waits(m)' <=> Waits(m)
                              /\ Ingested(m)' <=> Ingested(m)
                              /\ Held(m)' <=> Held(m)
                              /\ HandledOf(m)' <=> HandledOf(m)
           /\ \A s \in Subjects : Handing(s)' <=> Handing(s)
<1>1. \A m \in Sent : /\ Waits(m)' <=> Waits(m)
                      /\ Ingested(m)' <=> Ingested(m)
                      /\ Held(m)' <=> Held(m)
                      /\ HandledOf(m)' <=> HandledOf(m)
  BY DEF Waits, Ingested, Held, HandledOf
<1>2. \A s \in Subjects : (Handing(s)' <=> Handing(s)) /\ (Known(s) => Known(s)')
  BY DEF Handing, Known
<1>3. Around' = Around  BY <1>1 DEF Around
<1> QED BY <1>1, <1>2, <1>3

\* The phases in which the subscriptions take messages, and how far load is.
PhaseSound ==
    /\ phase' \in {"loading", "starting", "running"}
       => phase \in {"loading", "starting", "running"}
    /\ phase' \in {"starting", "running"}
       => phase \in {"starting", "running"} \/ (Loaded("connections") /\ Loaded("addresses"))

LEMMA ConvergingKept ==
    ASSUME InputsOK, InputsOK', Converging, UNCHANGED <<messages, connections, points>>,
           ops <= ops', PhaseSound
    PROVE  Converging'
<1>1. UNCHANGED <<hand, handled, retained, ingest, live, last, listed, toRead, unread>>
  BY DEF messages
<1>2. Identified'  BY <1>1, AroundKept, IdentifiedKept DEF Converging
<1>3. Numbered'  BY <1>1 DEF Converging, Numbered
<1>4. Taken'  BY <1>1, AroundKept DEF Converging, Taken, PhaseSound
<1>5. Reconciled'  BY <1>1 DEF Converging, Reconciled, Definition
<1>6. Called' /\ FirstRead' /\ Loads'
  BY <1>1, AroundKept DEF Converging, Called, FirstRead, Loads
<1>7. LoadDone'  BY <1>1 DEF Converging, LoadDone, Loaded, PhaseSound
<1> QED BY <1>2, <1>3, <1>4, <1>5, <1>6, <1>7 DEF Converging

\* A step that leaves definitions and what is handed over alone.
LEMMA ReadingKept ==
    ASSUME InputsOK, InputsOK', Converging, ops <= ops',
           UNCHANGED <<hand, handled, retained, ingest, live, last, connections, points, phase>>
    PROVE  (Identified /\ Numbered /\ Taken /\ Reconciled /\ Called /\ FirstRead)'
<1>2. Identified'  BY AroundKept, IdentifiedKept DEF Converging
<1>3. Numbered'  BY DEF Converging, Numbered
<1>4. Taken'  BY AroundKept DEF Converging, Taken
<1>5. Reconciled'  BY DEF Converging, Reconciled, Definition
<1>6. Called' /\ FirstRead'  BY AroundKept DEF Converging, Called, FirstRead
<1> QED BY <1>2, <1>3, <1>4, <1>5, <1>6

LEMMA KindFacts ==
    ASSUME NEW s \in Subjects
    PROVE  KindOf(s) \in Kinds /\ s \in Of(KindOf(s)) /\ <<"load", KindOf(s)>> \in Readers
BY DEF KindOf, Kinds, Of, Subjects, Readers

LEMMA ListSubjectsConverges ==
    ASSUME InputsOK, InputsOK', Converging, NEW r \in Readers, ListSubjects(r)
    PROVE  Converging'
<1>1. /\ r \notin listed /\ (r[1] = "load" => LoadReaches(r[2]))
      /\ listed' = listed \cup {r}
      /\ toRead' = [toRead EXCEPT ![r] =
            {s \in Of(r[2]) : retained[s] # Nil /\ ~(r[1] = "catchUp" /\ Cancelled(r[2]))}]
      /\ UNCHANGED <<hand, handled, retained, ingest, live, last, connections, points, phase,
                     unread, ops>>
  BY DEF ListSubjects, maps, environment
<1>2. \A q \in Readers : q # r => toRead'[q] = toRead[q] /\ (q \in listed' <=> q \in listed)
  BY <1>1 DEF InputsOK
<1>3. (Identified /\ Numbered /\ Taken /\ Reconciled /\ Called /\ FirstRead)'
  BY <1>1, ReadingKept DEF InputsOK
<1>4. Loads'
  <2> SUFFICES ASSUME NEW s \in Subjects, retained[s] # Nil, retained[s].id = 0,
                      retained[s].raw # Mistyped, <<"load", KindOf(s)>> \in listed'
               PROVE  \/ s \in toRead'[<<"load", KindOf(s)>>] \/ s \in unread
                      \/ handled[s] # Nil \/ Handing(s)
    BY <1>1, AroundKept DEF Loads
  <2>1. CASE r = <<"load", KindOf(s)>>
    <3>1. r[1] = "load" /\ r[2] = KindOf(s)  BY <2>1
    <3>2. s \in toRead'[r]  BY <3>1, <1>1, KindFacts DEF InputsOK
    <3> QED BY <3>2, <2>1
  <2>2. CASE r # <<"load", KindOf(s)>>
    BY <2>2, <1>2, KindFacts DEF Converging, Loads
  <2> QED BY <2>1, <2>2
<1>5. LoadDone'
  <2>1. r = <<"load", "connections">> => ~(<<"load", "addresses">> \in listed)
                                         /\ phase \notin {"starting", "running"}
    BY <1>1 DEF Converging, LoadDone, Loaded
  <2>2. r = <<"load", "addresses">> => Loaded("connections") /\ phase = "loading"
    BY <1>1 DEF LoadReaches, Done, Loaded
  <2>3. <<"load", "connections">> \in Readers /\ <<"load", "addresses">> \in Readers
        /\ <<"load", "connections">> # <<"load", "addresses">>
    BY DEF Readers, Kinds
  <2>4. CASE r = <<"load", "connections">>
    BY <2>1, <2>3, <2>4, <1>1, <1>2 DEF LoadDone, Loaded
  <2>5. CASE r = <<"load", "addresses">>
    BY <2>2, <2>3, <2>5, <1>1, <1>2 DEF LoadDone, Loaded
  <2>6. CASE r # <<"load", "connections">> /\ r # <<"load", "addresses">>
    BY <2>3, <2>6, <1>1, <1>2 DEF Converging, LoadDone, Loaded
  <2> QED BY <2>4, <2>5, <2>6
<1> QED BY <1>3, <1>4, <1>5 DEF Converging

\* A step after which load has not less to its account.
LEMMA LoadKept ==
    ASSUME Converging, UNCHANGED <<phase, retained>>,
           \A kind \in Kinds :
                /\ <<"load", kind>> \in listed' <=> <<"load", kind>> \in listed
                /\ toRead'[<<"load", kind>>] \subseteq toRead[<<"load", kind>>],
           unread \subseteq unread',
           \A s \in Subjects :
                s \in toRead[<<"load", KindOf(s)>>] \/ handled[s] # Nil \/ Handing(s)
                => \/ s \in toRead'[<<"load", KindOf(s)>>] \/ s \in unread'
                   \/ handled'[s] # Nil \/ Handing(s)'
                   \/ retained[s].raw = Mistyped
    PROVE  Loads' /\ LoadDone'
<1>1. Loads'  BY KindFacts DEF Converging, Loads
<1>2. LoadDone'  BY DEF Converging, LoadDone, Loaded, Kinds
<1> QED BY <1>1, <1>2

LEMMA CatchUpListFailsConverges ==
    ASSUME InputsOK, InputsOK', Converging, NEW kind \in Kinds, CatchUpListFails(kind)
    PROVE  Converging'
<1>1. /\ listed' = listed \cup {<<"catchUp", kind>>}
      /\ UNCHANGED <<hand, handled, retained, ingest, live, last, connections, points, phase,
                     unread, ops, toRead>>
  BY DEF CatchUpListFails, maps, environment
<1>2. (Identified /\ Numbered /\ Taken /\ Reconciled /\ Called /\ FirstRead)'
  BY <1>1, ReadingKept DEF InputsOK
<1>3. \A k \in Kinds : <<"load", k>> \in listed' <=> <<"load", k>> \in listed
  BY <1>1
<1>4. Loads' /\ LoadDone'  BY <1>1, <1>3, AroundKept, LoadKept
<1> QED BY <1>2, <1>4 DEF Converging

\* Reading takes one subject from the list of the reader.
LEMMA NextToReadFacts ==
    ASSUME InputsOK, NEW r \in Readers, NEW s \in Subjects, NextToRead(r, s)
    PROVE  /\ hand[r] = Nil /\ retained[s] # Nil
           /\ \A kind \in Kinds : toRead'[<<"load", kind>>] \subseteq toRead[<<"load", kind>>]
           /\ \A t \in Subjects : t \in toRead[<<"load", KindOf(t)>>] =>
                \/ t \in toRead'[<<"load", KindOf(t)>>]
                \/ t = s /\ r[1] = "load"
<1>1. /\ toRead' = [toRead EXCEPT ![r] = @ \ {s}] /\ hand[r] = Nil /\ retained[s] # Nil
  BY DEF NextToRead, Idle, InputsOK
<1>2. \A kind \in Kinds : toRead'[<<"load", kind>>] \subseteq toRead[<<"load", kind>>]
  BY <1>1, ReadersAreGoroutines DEF InputsOK
<1>3. ASSUME NEW t \in Subjects, t \in toRead[<<"load", KindOf(t)>>],
             t \notin toRead'[<<"load", KindOf(t)>>]
      PROVE  t = s /\ r[1] = "load"
  <2>1. r = <<"load", KindOf(t)>> /\ t = s  BY <1>1, <1>3, KindFacts DEF InputsOK
  <2> QED BY <2>1
<1> QED BY <1>1, <1>2, <1>3

LEMMA ReadDescriptorFailsConverges ==
    ASSUME InputsOK, InputsOK', Converging, NEW r \in Readers, NEW s \in Subjects,
           ReadDescriptorFails(r, s)
    PROVE  Converging'
<1>1. /\ NextToRead(r, s) /\ unread' = IF r[1] = "load" THEN unread \cup {s} ELSE unread
      /\ UNCHANGED <<hand, handled, retained, ingest, live, last, connections, points, phase,
                     listed, ops>>
  BY DEF ReadDescriptorFails, maps, environment
<1>2. (Identified /\ Numbered /\ Taken /\ Reconciled /\ Called /\ FirstRead)'
  BY <1>1, ReadingKept DEF InputsOK
<1>3. Loads' /\ LoadDone'  BY <1>1, AroundKept, NextToReadFacts, LoadKept
<1> QED BY <1>2, <1>3 DEF Converging

\* One goroutine gets something else into its hand.
LEMMA HandChanges ==
    ASSUME InputsOK, NEW g \in Goroutines, NEW x, hand' = [hand EXCEPT ![g] = x]
    PROVE  /\ hand'[g] = x
           /\ \A m \in Sent : Held(m)' => Held(m) \/ (x # Nil /\ x.message = m)
           /\ (hand[g] = Nil \/ hand[g].stage # "handle")
              => \A s \in Subjects : Handing(s) => Handing(s)'
           /\ \A s \in Subjects :
                Handing(s) => Handing(s)' \/ (hand[g] # Nil /\ hand[g].message.subject = s)
<1>1. hand'[g] = x /\ \A h \in Goroutines : h # g => hand'[h] = hand[h]
  BY DEF InputsOK, HandsOK
<1>2. \A m \in Sent : Held(m)' => Held(m) \/ (x # Nil /\ x.message = m)
  BY <1>1 DEF Held
<1>3. ASSUME NEW s \in Subjects, Handing(s)
      PROVE  Handing(s)' \/ (hand[g] # Nil /\ hand[g].message.subject = s
                             /\ hand[g].stage = "handle")
  <2>1. PICK h \in Goroutines :
          hand[h] # Nil /\ hand[h].stage = "handle" /\ hand[h].message.subject = s
    BY <1>3 DEF Handing
  <2>2. CASE h = g  BY <2>1, <2>2
  <2>3. CASE h # g  BY <2>1, <2>3, <1>1 DEF Handing
  <2> QED BY <2>2, <2>3
<1> QED BY <1>1, <1>2, <1>3

\* Who has a message in hand has one that somebody had.
LEMMA HeldShrinks ==
    ASSUME UNCHANGED <<retained, ingest>>,
           \A m \in Sent : /\ Held(m)' => m \in Around
                           /\ last'[m.subject] = m => m \in Around
                           /\ HandledOf(m)' => m \in Around
                           /\ Waits(m)' => Waits(m)
    PROVE  Around' \subseteq Around /\ \A s \in Subjects : Known(s) => Known(s)'
<1>1. \A m \in Sent : Ingested(m)' <=> Ingested(m)  BY DEF Ingested
<1>2. ASSUME NEW m \in Around'  PROVE m \in Around
  <2>1. /\ m \in Sent
        /\ \/ retained'[m.subject] = m \/ last'[m.subject] = m
           \/ HandledOf(m)' \/ Waits(m)' \/ Ingested(m)' \/ Held(m)'
    BY <1>2 DEF Around
  <2>2. CASE retained'[m.subject] = m  BY <2>1, <2>2 DEF Around
  <2>3. CASE Waits(m)'  BY <2>1, <2>3 DEF Around
  <2>4. CASE Ingested(m)'  BY <2>1, <2>4, <1>1 DEF Around
  <2> QED BY <2>1, <2>2, <2>3, <2>4
<1>3. \A s \in Subjects : Known(s) => Known(s)'  BY DEF Known
<1> QED BY <1>2, <1>3

LEMMA ReadDescriptorConverges ==
    ASSUME InputsOK, InputsOK', Converging, NEW r \in Readers, NEW s \in Subjects,
           ReadDescriptor(r, s)
    PROVE  Converging'
<1> DEFINE x == IF r[1] = "catchUp" THEN InHand(retained[s], "accept")
                ELSE IF retained[s].raw # Mistyped THEN InHand(retained[s], "handle") ELSE Nil
<1>1. /\ NextToRead(r, s) /\ hand' = [hand EXCEPT ![r] = x]
      /\ UNCHANGED <<handled, retained, ingest, live, last, connections, points, phase,
                     listed, unread, ops>>
  BY DEF ReadDescriptor, maps, environment
<1>2. r \in Goroutines /\ hand[r] = Nil /\ retained[s] \in Sent /\ retained[s] # Nil
      /\ retained[s].subject = s
  BY <1>1, NextToReadFacts, ReadersAreGoroutines DEF InputsOK, Filed
<1>3. x # Nil => x.message = retained[s]  BY DEF InHand
<1>4. r[1] = "load" /\ retained[s].raw # Mistyped
      => x # Nil /\ x.stage = "handle" /\ x.message.subject = s
  BY <1>2, InHandNotNil DEF InHand
<1> HIDE DEF x
<1>5. /\ hand'[r] = x
      /\ \A m \in Sent : Held(m)' => Held(m) \/ m = retained[s]
      /\ \A t \in Subjects : Handing(t) => Handing(t)'
  BY <1>1, <1>2, <1>3, HandChanges
<1>6. \A m \in Sent : /\ Waits(m)' <=> Waits(m)
                      /\ Ingested(m)' <=> Ingested(m)
                      /\ HandledOf(m)' <=> HandledOf(m)
  BY <1>1 DEF Waits, Ingested, HandledOf
<1>7. \A m \in Sent : /\ Held(m)' => m \in Around
                      /\ last'[m.subject] = m => m \in Around
                      /\ HandledOf(m)' => m \in Around
  BY <1>1, <1>2, <1>5, <1>6 DEF Around
<1>8. Identified'
  <2>1. Around' \subseteq Around /\ \A t \in Subjects : Known(t) => Known(t)'
    BY <1>1, <1>6, <1>7, HeldShrinks
  <2> QED BY <2>1, <1>1, IdentifiedKept DEF Converging, InputsOK
<1>9. Numbered'  BY <1>1 DEF Converging, Numbered
<1>10. Taken'  BY <1>1, <1>6 DEF Converging, Taken
<1>11. Reconciled'  BY <1>1 DEF Converging, Reconciled, Definition
<1>12. Called'  BY <1>1, <1>5 DEF Converging, Called
<1>13. FirstRead'  BY <1>1, <1>2, <1>5, <1>6 DEF Converging, FirstRead
<1>14. Loads' /\ LoadDone'
  <2>1. r[1] = "load" /\ retained[s].raw # Mistyped => Handing(s)'
    BY <1>2, <1>4, <1>5 DEF Handing
  <2> QED BY <2>1, <1>1, <1>5, NextToReadFacts, LoadKept
<1> QED BY <1>8, <1>9, <1>10, <1>11, <1>12, <1>13, <1>14 DEF Converging

\* deliverValue: what is accepted is on its way to the handler, and what is not
\* is no newer than what was.
LEMMA DeliverConverges ==
    ASSUME InputsOK, InputsOK', Converging, NEW g \in Goroutines, NEW m \in Sent,
           Deliver(g, m), m \in Around,
           hand[g] = Nil \/ hand[g].stage = "accept",
           \A n \in Sent : (Waits(n)' => Waits(n)) /\ (Waits(n) => Waits(n)' \/ n = m),
           UNCHANGED <<handled, retained, ingest, connections, points, phase, listed, toRead,
                       unread, ops>>
    PROVE  Converging'
<1> DEFINE x == IF Accepts(m) /\ m.raw # Mistyped THEN InHand(m, "handle") ELSE Nil
           s == m.subject
<1>1. /\ hand' = [hand EXCEPT ![g] = x]
      /\ last' = IF Accepts(m) THEN [last EXCEPT ![m.subject] = m] ELSE last
  BY DEF Deliver
<1>2. /\ s \in Subjects /\ m.at \in Nat /\ m # Nil  BY SentFacts
<1>3. x # Nil => x.message = m  BY DEF InHand
<1>4. Accepts(m) /\ m.raw # Mistyped
      => x # Nil /\ x.stage = "handle" /\ x.message.subject = s
  BY InHandNotNil DEF InHand
<1> HIDE DEF x
<1>5. /\ hand'[g] = x
      /\ \A n \in Sent : Held(n)' => Held(n) \/ n = m
      /\ \A t \in Subjects : Handing(t) => Handing(t)'
  BY <1>1, <1>3, HandChanges
<1>6. \A t \in Subjects : t # s => last'[t] = last[t]  BY <1>1 DEF InputsOK, Filed
<1>7. /\ Accepts(m) => last'[s] = m
      /\ ~Accepts(m) => last'[s] = last[s]
  BY <1>1, <1>2 DEF InputsOK, Filed
<1>8. last[s] # Nil => last[s] \in Sent /\ last[s].subject = s /\ last[s].at \in Nat
  BY <1>2, SentFacts DEF InputsOK, Filed
<1>9. last'[s] # Nil /\ m.at <= last'[s].at
      /\ (last[s] # Nil => last[s].at <= last'[s].at)
  <2>1. CASE Accepts(m)
    <3>1. last[s] # Nil => last[s].at <= m.at  BY <2>1, <1>2, <1>8 DEF Accepts
    <3> QED BY <3>1, <2>1, <1>2, <1>7
  <2>2. CASE ~Accepts(m)
    <3>1. last[s] # Nil /\ (last[s].id = m.id \/ ~(m.at >= last[s].at))
      BY <2>2 DEF Accepts
    <3>2. last[s] \in Around  BY <3>1, <1>8 DEF Around
    <3>3. last[s].id = m.id => last[s] = m
      BY <3>1, <3>2, <1>8 DEF Converging, Identified
    <3>4. m.at <= last[s].at  BY <3>1, <3>3, <1>2, <1>8
    <3> QED BY <3>1, <3>4, <2>2, <1>7, <1>8
  <2> QED BY <2>1, <2>2
<1>10. Identified'
  <2>1. \A n \in Sent : /\ Held(n)' => n \in Around
                        /\ HandledOf(n)' => n \in Around
    BY <1>5 DEF Around, HandledOf
  <2>2. ASSUME NEW n \in Sent, last'[n.subject] = n  PROVE n \in Around
    <3>1. n.subject \in Subjects  BY SentFacts
    <3>2. last[n.subject] = n \/ n = m  BY <2>2, <3>1, <1>6, <1>7
    <3> QED BY <3>2 DEF Around
  <2>3. Around' \subseteq Around /\ \A t \in Subjects : Known(t) => Known(t)'
    BY <2>1, <2>2, HeldShrinks
  <2> QED BY <2>3, IdentifiedKept DEF Converging, InputsOK
<1>11. Numbered'  BY DEF Converging, Numbered
<1>12. Taken'
  <2> SUFFICES ASSUME phase \in {"loading", "starting", "running"}, NEW n \in Sent,
                      n.id > 0, retained[n.subject] = n \/ Ingested(n)
               PROVE  Waits(n)' \/ (last'[n.subject] # Nil /\ n.at <= last'[n.subject].at)
    BY DEF Taken, Ingested
  <2>1. Waits(n) \/ (last[n.subject] # Nil /\ n.at <= last[n.subject].at)
    BY DEF Converging, Taken
  <2>2. n.subject \in Subjects /\ n.at \in Nat  BY SentFacts
  <2>3. CASE Waits(n)  BY <2>3, <1>9
  <2>4. CASE last[n.subject] # Nil /\ n.at <= last[n.subject].at
    <3>1. CASE n.subject # s  BY <3>1, <2>2, <2>4, <1>6
    <3>2. CASE n.subject = s
      <4>1. last'[s].at \in Nat  BY <1>7, <1>9, <1>8, <1>2
      <4> QED BY <4>1, <3>2, <2>2, <2>4, <1>8, <1>9
    <3> QED BY <3>1, <3>2
  <2> QED BY <2>1, <2>3, <2>4
<1>13. Reconciled'  BY DEF Converging, Reconciled, Definition
<1>14. Called'
  <2> SUFFICES ASSUME NEW t \in Subjects, last'[t] # Nil, last'[t].raw # Mistyped
               PROVE  handled[t] # Nil \/ Handing(t)'
    BY DEF Called
  <2>1. CASE t = s /\ Accepts(m)
    <3>1. x # Nil /\ x.stage = "handle" /\ x.message.subject = s  BY <2>1, <1>4, <1>7
    <3> QED BY <3>1, <2>1, <1>5 DEF Handing
  <2>2. CASE ~(t = s /\ Accepts(m))
    <3>1. last'[t] = last[t]  BY <2>2, <1>6, <1>7
    <3> QED BY <3>1, <1>5 DEF Converging, Called
  <2> QED BY <2>1, <2>2
<1>15. FirstRead'
  <2> SUFFICES ASSUME NEW t \in Subjects, retained[t] # Nil, retained[t].id = 0,
                      last'[t] = Nil, NEW n \in Sent, n.subject = t,
                      HandledOf(n)' \/ Held(n)'
               PROVE  n = retained[t]
    BY DEF FirstRead
  <2>1. t # s /\ last[t] = Nil  BY <1>6, <1>9
  <2>2. HandledOf(n) \/ Held(n)  BY <2>1, <1>5 DEF HandledOf
  <2> QED BY <2>1, <2>2 DEF Converging, FirstRead
<1>16. Loads' /\ LoadDone'  BY <1>5, LoadKept
<1> QED BY <1>10, <1>11, <1>12, <1>13, <1>14, <1>15, <1>16 DEF Converging

LEMMA CatchUpAcceptsConverges ==
    ASSUME InputsOK, InputsOK', Converging, NEW kind \in Kinds, CatchUpAccepts(kind)
    PROVE  Converging'
<1>1. PICK g \in Goroutines : g = <<"catchUp", kind>>  BY ReadersAreGoroutines
<1>2. hand[g] # Nil /\ hand[g].stage = "accept" /\ Deliver(g, hand[g].message)
  BY <1>1 DEF CatchUpAccepts, Idle
<1>3. PICK m \in Sent : m = hand[g].message  BY <1>2, HandFacts
<1>4. m \in Around  BY <1>2, <1>3 DEF Around, Held
<1>5. \A n \in Sent : Waits(n)' <=> Waits(n)  BY DEF CatchUpAccepts, Waits
<1> QED BY <1>2, <1>3, <1>4, <1>5, DeliverConverges DEF CatchUpAccepts, maps

LEMMA CallbackAcceptsConverges ==
    ASSUME InputsOK, InputsOK', Converging, NEW kind \in Kinds, CallbackAccepts(kind)
    PROVE  Converging'
<1>1. PICK g \in Goroutines : g = <<"callback", kind>>  BY ReadersAreGoroutines
<1>2. /\ hand[g] = Nil /\ live[kind] # <<>> /\ Deliver(g, Head(live[kind]))
      /\ live' = [live EXCEPT ![kind] = Tail(@)]
  BY <1>1 DEF CallbackAccepts, Idle
<1> DEFINE q == live[kind]
<1>3. q \in Seq(Sent)  BY DEF InputsOK
<1>4. PICK m \in Sent : m = Head(q)  BY <1>2, <1>3, HeadTail
<1>5. /\ Waits(m)
      /\ \A n \in Sent : (Waits(n)' => Waits(n)) /\ (Waits(n) => Waits(n)' \/ n = m)
  <2>1. /\ 1 \in DOMAIN q /\ q[1] = m
        /\ \A i \in DOMAIN Tail(q) : i + 1 \in DOMAIN q /\ Tail(q)[i] = q[i + 1]
        /\ \A i \in DOMAIN q : q[i] = m \/ \E j \in DOMAIN Tail(q) : Tail(q)[j] = q[i]
    BY <1>2, <1>3, <1>4, HeadTail
  <2>2. live'[kind] = Tail(q) /\ \A k \in Kinds : k # kind => live'[k] = live[k]
    BY <1>2 DEF InputsOK
  <2>3. Waits(m)  BY <2>1 DEF Waits
  <2>4. ASSUME NEW n \in Sent, Waits(n)'  PROVE Waits(n)
    <3>1. PICK k \in Kinds : \E i \in DOMAIN live'[k] : live'[k][i] = n
      BY <2>4 DEF Waits
    <3>2. CASE k = kind
      <4>1. PICK i \in DOMAIN Tail(q) : Tail(q)[i] = n  BY <3>1, <3>2, <2>2
      <4> QED BY <4>1, <2>1 DEF Waits
    <3>3. CASE k # kind  BY <3>1, <3>3, <2>2 DEF Waits
    <3> QED BY <3>2, <3>3
  <2>5. ASSUME NEW n \in Sent, Waits(n), n # m  PROVE Waits(n)'
    <3>1. PICK k \in Kinds : \E i \in DOMAIN live[k] : live[k][i] = n
      BY <2>5 DEF Waits
    <3>2. CASE k = kind
      <4>1. PICK i \in DOMAIN q : q[i] = n  BY <3>1, <3>2
      <4>2. PICK j \in DOMAIN Tail(q) : Tail(q)[j] = n  BY <4>1, <2>1, <2>5
      <4> QED BY <4>2, <2>2 DEF Waits
    <3>3. CASE k # kind  BY <3>1, <3>3, <2>2 DEF Waits
    <3> QED BY <3>2, <3>3
  <2> QED BY <2>3, <2>4, <2>5
<1>6. m \in Around  BY <1>5 DEF Around
<1> QED BY <1>2, <1>4, <1>5, <1>6, DeliverConverges DEF CallbackAccepts, maps

\* The handler: what it was called for is what the service has.
LEMMA HandleMessageConverges ==
    ASSUME Data, Control, InputsOK', Converging, NEW g \in Goroutines, HandleMessage(g)
    PROVE  Converging'
<1> DEFINE x == IF todo' = <<>> THEN Nil ELSE InHand(hand[g].message, "return")
<1>0. InputsOK  BY DEF Data
<1>1. /\ hand[g] # Nil /\ hand[g].stage = "handle" /\ hand' = [hand EXCEPT ![g] = x]
      /\ UNCHANGED <<retained, ingest, live, last, phase, listed, toRead, unread, ops>>
  BY DEF HandleMessage, Idle, environment
<1>2. PICK m \in Sent : m = hand[g].message  BY <1>0, <1>1, HandFacts
<1>3. m.subject \in Subjects /\ m # Nil  BY SentFacts
<1>4. handled' = [handled EXCEPT ![m.subject] = m]  BY <1>2 DEF HandleMessage
<1>5. x # Nil => x.message = m  BY <1>2 DEF InHand
<1> HIDE DEF x
<1>6. /\ \A n \in Sent : Held(n)' => Held(n) \/ n = m
      /\ \A t \in Subjects : Handing(t) => Handing(t)' \/ t = m.subject
  BY <1>0, <1>1, <1>2, <1>5, HandChanges
<1>7. /\ handled'[m.subject] = m
      /\ \A t \in Subjects : t # m.subject => handled'[t] = handled[t]
  BY <1>0, <1>3, <1>4 DEF InputsOK, Filed
<1>8. Held(m)  BY <1>1, <1>2 DEF Held
<1>9. \A n \in Sent : HandledOf(n)' => HandledOf(n) \/ n = m
  BY <1>7, SentFacts DEF HandledOf
<1>10. \A n \in Sent : (Waits(n)' <=> Waits(n)) /\ (Ingested(n)' <=> Ingested(n))
  BY <1>1 DEF Waits, Ingested
<1>11. Identified'
  <2>1. \A n \in Sent : /\ Held(n)' => n \in Around
                        /\ HandledOf(n)' => n \in Around
                        /\ last'[n.subject] = n => n \in Around
    BY <1>1, <1>6, <1>8, <1>9 DEF Around
  <2>2. Around' \subseteq Around /\ \A t \in Subjects : Known(t) => Known(t)'
    BY <2>1, <1>1, <1>10, HeldShrinks
  <2> QED BY <2>2, <1>0, <1>1, IdentifiedKept DEF Converging, InputsOK
<1>12. Numbered' /\ Taken'  BY <1>1, <1>10 DEF Converging, Numbered, Taken
<1>13. Reconciled'
  <2>1. \A s \in Subjects : Definition(s)' = IF s = m.subject THEN Parsed(m.raw)
                                             ELSE Definition(s)
    BY <1>2, HandleMessageStep
  <2> QED BY <2>1, <1>3, <1>7 DEF Converging, Reconciled
<1>14. \A t \in Subjects : handled[t] # Nil \/ Handing(t) => handled'[t] # Nil \/ Handing(t)'
  BY <1>3, <1>6, <1>7
<1>15. Called'  BY <1>1, <1>14 DEF Converging, Called
<1>16. FirstRead'
  BY <1>1, <1>6, <1>8, <1>9 DEF Converging, FirstRead
<1>17. Loads' /\ LoadDone'  BY <1>1, <1>14, LoadKept
<1> QED BY <1>11, <1>12, <1>13, <1>15, <1>16, <1>17 DEF Converging

LEMMA HandlerReturnsConverges ==
    ASSUME InputsOK, InputsOK', Converging, NEW g \in Goroutines, HandlerReturns(g)
    PROVE  Converging'
<1>1. /\ hand[g] # Nil /\ hand[g].stage = "return" /\ hand' = [hand EXCEPT ![g] = Nil]
      /\ UNCHANGED <<handled, retained, ingest, live, last, connections, points, phase,
                     listed, toRead, unread, ops>>
  BY DEF HandlerReturns, Idle, maps, environment
<1>2. /\ \A m \in Sent : Held(m)' => Held(m)
      /\ \A s \in Subjects : Handing(s) => Handing(s)'
  BY <1>1, HandChanges
<1>3. \A m \in Sent : /\ Waits(m)' <=> Waits(m)
                      /\ Ingested(m)' <=> Ingested(m)
                      /\ HandledOf(m)' <=> HandledOf(m)
  BY <1>1 DEF Waits, Ingested, HandledOf
<1>4. Identified'
  <2>1. \A m \in Sent : /\ Held(m)' => m \in Around
                        /\ last'[m.subject] = m => m \in Around
                        /\ HandledOf(m)' => m \in Around
    BY <1>1, <1>2, <1>3 DEF Around
  <2>2. Around' \subseteq Around /\ \A t \in Subjects : Known(t) => Known(t)'
    BY <2>1, <1>1, <1>3, HeldShrinks
  <2> QED BY <2>2, <1>1, IdentifiedKept DEF Converging, InputsOK
<1>5. Numbered' /\ Taken'  BY <1>1, <1>3 DEF Converging, Numbered, Taken
<1>6. Reconciled'  BY <1>1 DEF Converging, Reconciled, Definition
<1>7. Called' /\ FirstRead'  BY <1>1, <1>2, <1>3 DEF Converging, Called, FirstRead
<1>8. Loads' /\ LoadDone'  BY <1>1, <1>2, LoadKept
<1> QED BY <1>4, <1>5, <1>6, <1>7, <1>8 DEF Converging

\* The end of a subscription: what waits is dropped.
LEMMA EndSubscriptionConverges ==
    ASSUME InputsOK, InputsOK', Converging, NEW kind \in Kinds, EndSubscription(kind),
           phase' \in {"closing", "closed"}
    PROVE  Converging'
<1>1. /\ toRead' = [toRead EXCEPT ![<<"catchUp", kind>>] = {}]
      /\ live' = [live EXCEPT ![kind] = <<>>]
      /\ UNCHANGED <<hand, handled, retained, ingest, last, connections, points, listed,
                     unread, ops>>
  BY DEF EndSubscription, maps
<1>2. \A k \in Kinds : toRead'[<<"load", k>>] = toRead[<<"load", k>>]
  BY <1>1, ReadersAreGoroutines DEF InputsOK
<1>3. \A m \in Sent : /\ Waits(m)' => Waits(m)
                      /\ Ingested(m)' <=> Ingested(m)
                      /\ Held(m)' <=> Held(m)
                      /\ HandledOf(m)' <=> HandledOf(m)
  <2>1. \A k \in Kinds : live'[k] = live[k] \/ DOMAIN live'[k] = {}
    BY <1>1 DEF InputsOK
  <2> QED BY <2>1, <1>1 DEF Waits, Ingested, Held, HandledOf
<1>4. \A s \in Subjects : Handing(s)' <=> Handing(s)  BY <1>1 DEF Handing
<1>5. Identified'
  <2>1. \A m \in Sent : /\ Held(m)' => m \in Around
                        /\ last'[m.subject] = m => m \in Around
                        /\ HandledOf(m)' => m \in Around
    BY <1>1, <1>3 DEF Around
  <2>2. Around' \subseteq Around /\ \A t \in Subjects : Known(t) => Known(t)'
    BY <2>1, <1>1, <1>3, HeldShrinks
  <2> QED BY <2>2, <1>1, IdentifiedKept DEF Converging, InputsOK
<1>6. Numbered' /\ Taken'  BY <1>1 DEF Converging, Numbered, Taken
<1>7. Reconciled'  BY <1>1 DEF Converging, Reconciled, Definition
<1>8. Called' /\ FirstRead'  BY <1>1, <1>3, <1>4 DEF Converging, Called, FirstRead
<1>9. Loads'  BY <1>1, <1>2, <1>4, KindFacts DEF Converging, Loads
<1>10. LoadDone'  BY <1>1, <1>2 DEF Converging, LoadDone, Loaded, Kinds
<1> QED BY <1>5, <1>6, <1>7, <1>8, <1>9, <1>10 DEF Converging

\* A publication: the message waits for the callback.
LEMMA PublishDescriptorConverges ==
    ASSUME Data, InputsOK', Converging, NEW s \in Subjects, NEW raw \in Choices[s],
           NEW skew \in Skews, PublishDescriptor(s, raw, skew)
    PROVE  Converging'
<1>0. InputsOK /\ ops \in Nat  BY DEF Data, InputsOK
<1>1. PICK m : m = [subject |-> s, raw |-> raw, id |-> ops + 1, at |-> ops + 1 + skew]
  OBVIOUS
<1>2. /\ ingest' = Append(ingest, m) /\ ops' = ops + 1
      /\ live' = IF Cancelled(KindOf(s)) THEN live
                 ELSE [live EXCEPT ![KindOf(s)] = Append(@, m)]
      /\ UNCHANGED <<hand, handled, retained, last, connections, points, phase, listed,
                     toRead, unread>>
  BY <1>1 DEF PublishDescriptor, Operation, run, maps
<1>3. m \in Sent
  <2>1. raw \in Valid(s) \cup {Mistyped}
    <3>1. CASE s \in Connections  BY <3>1, DescriptorsAssumption DEF Valid
    <3>2. CASE s \in Points /\ s \notin Connections
      BY <3>2, DescriptorsAssumption DEF Valid
    <3> QED BY <3>1, <3>2 DEF Subjects
  <2>2. ops + 1 \in Nat /\ ops + 1 + skew \in Nat  BY <1>0, BoundsAssumption
  <2> QED BY <1>1, <2>1, <2>2, MessageOf
<1>4. m.subject = s /\ m.id = ops + 1  BY <1>1
<1>5. /\ \A n \in Sent : Ingested(n)' <=> Ingested(n) \/ n = m
      /\ \A t \in Subjects : Known(t) => Known(t)'
      /\ Known(s)'
      /\ \A i \in DOMAIN ingest' : ingest'[i].id > 0
  <2>1. ingest \in Seq(Sent)  BY <1>0 DEF InputsOK
  <2>2. /\ DOMAIN ingest' = 1..Len(ingest)+1 /\ DOMAIN ingest = 1..Len(ingest)
        /\ Len(ingest) \in Nat /\ ingest'[Len(ingest)+1] = m
        /\ \A i \in 1..Len(ingest) : ingest'[i] = ingest[i]
    BY <2>1, <1>2, <1>3
  <2>3. \A i \in DOMAIN ingest' : i \in DOMAIN ingest \/ i = Len(ingest) + 1  BY <2>2
  <2>4. Len(ingest) + 1 \in DOMAIN ingest' /\ DOMAIN ingest \subseteq DOMAIN ingest'
    BY <2>2
  <2>5. \A n \in Sent : Ingested(n)' <=> Ingested(n) \/ n = m
    BY <2>2, <2>3, <2>4 DEF Ingested
  <2>6. \A t \in Subjects : (Known(t) => Known(t)') /\ Known(s)'
    BY <2>2, <2>4, <1>2, <1>4 DEF Known
  <2>7. \A i \in DOMAIN ingest' : ingest'[i].id > 0
    BY <2>2, <2>3, <1>0, <1>4 DEF Converging, Numbered
  <2> QED BY <2>5, <2>6, <2>7
<1>6. /\ \A n \in Sent : (Waits(n) => Waits(n)') /\ (Waits(n)' => Waits(n) \/ n = m)
      /\ phase \in {"loading", "starting", "running"} => Waits(m)'
  <2>1. CASE Cancelled(KindOf(s))
    <3>1. phase \notin {"loading", "starting", "running"}  BY <2>1 DEF Cancelled
    <3> QED BY <3>1, <2>1, <1>2 DEF Waits
  <2>2. CASE ~Cancelled(KindOf(s))
    <3> DEFINE k == KindOf(s)
               q == live[k]
    <3>1. k \in Kinds /\ q \in Seq(Sent)  BY <1>0, KindFacts DEF InputsOK
    <3>2. live'[k] = Append(q, m) /\ \A j \in Kinds : j # k => live'[j] = live[j]
      BY <2>2, <3>1, <1>0, <1>2 DEF InputsOK
    <3> HIDE DEF k, q
    <3>3. /\ DOMAIN Append(q, m) = 1..Len(q)+1 /\ DOMAIN q = 1..Len(q)
          /\ Len(q) \in Nat /\ Append(q, m)[Len(q)+1] = m
          /\ \A i \in 1..Len(q) : Append(q, m)[i] = q[i]
      BY <3>1, <1>3
    <3>4. /\ \A i \in DOMAIN Append(q, m) : i \in DOMAIN q \/ i = Len(q) + 1
          /\ Len(q) + 1 \in DOMAIN Append(q, m) /\ DOMAIN q \subseteq DOMAIN Append(q, m)
      BY <3>3
    <3>5. Waits(m)'  BY <3>1, <3>2, <3>3, <3>4 DEF Waits
    <3>6. ASSUME NEW n \in Sent, Waits(n)  PROVE Waits(n)'
      <4>1. PICK j \in Kinds : \E i \in DOMAIN live[j] : live[j][i] = n
        BY <3>6 DEF Waits
      <4>2. CASE j = k
        <5>1. PICK i \in DOMAIN q : q[i] = n  BY <4>1, <4>2 DEF q
        <5> QED BY <5>1, <3>1, <3>2, <3>3, <3>4 DEF Waits
      <4>3. CASE j # k  BY <4>1, <4>3, <3>2 DEF Waits
      <4> QED BY <4>2, <4>3
    <3>7. ASSUME NEW n \in Sent, Waits(n)', n # m  PROVE Waits(n)
      <4>1. PICK j \in Kinds : \E i \in DOMAIN live'[j] : live'[j][i] = n
        BY <3>7 DEF Waits
      <4>2. CASE j = k
        <5>1. PICK i \in DOMAIN Append(q, m) : Append(q, m)[i] = n  BY <4>1, <4>2, <3>2
        <5>2. i \in DOMAIN q /\ q[i] = n  BY <5>1, <3>3, <3>4, <3>7
        <5> QED BY <5>2, <3>1 DEF Waits, q
      <4>3. CASE j # k  BY <4>1, <4>3, <3>2 DEF Waits
      <4> QED BY <4>2, <4>3
    <3> QED BY <3>5, <3>6, <3>7
  <2> QED BY <2>1, <2>2
<1>7. /\ \A n \in Sent : (Held(n)' <=> Held(n)) /\ (HandledOf(n)' <=> HandledOf(n))
      /\ \A t \in Subjects : Handing(t)' <=> Handing(t)
  BY <1>2 DEF Held, HandledOf, Handing
<1>8. Around' \subseteq Around \cup {m}
  BY <1>2, <1>5, <1>6, <1>7 DEF Around
<1>9. Identified'
  <2>1. \A n \in Around : n.id \in Nat /\ n.id <= ops /\ n.subject \in Subjects
                          /\ Known(n.subject)
    BY SentFacts DEF Converging, Identified, Around
  <2>2. \A t \in Subjects : \A n \in Around : n.subject = t => Known(t)'
    BY <2>1, <1>5
  <2>3. \A n \in Around' : n.id <= ops' /\ n.subject \in Subjects
    BY <2>1, <1>0, <1>2, <1>4, <1>8
  <2>4. \A t \in Subjects : \A n \in Around' : n.subject = t => Known(t)'
    BY <2>2, <1>4, <1>5, <1>8
  <2>5. ASSUME NEW n \in Around'  PROVE Known(n.subject)'
    <3>1. PICK t \in Subjects : t = n.subject  BY <2>3, <2>5
    <3> QED BY <3>1, <2>4, <2>5
  <2>6. \A n, o \in Around' : n.subject = o.subject /\ n.id = o.id => n = o
    BY <2>1, <1>0, <1>4, <1>8 DEF Converging, Identified
  <2> QED BY <2>3, <2>5, <2>6 DEF Identified
<1>10. Numbered'  BY <1>2, <1>5 DEF Converging, Numbered
<1>11. Taken'
  <2> SUFFICES ASSUME phase \in {"loading", "starting", "running"}, NEW n \in Sent,
                      n.id > 0, retained[n.subject] = n \/ Ingested(n)'
               PROVE  Waits(n)' \/ (last[n.subject] # Nil /\ n.at <= last[n.subject].at)
    BY <1>2 DEF Taken
  <2>1. CASE n = m  BY <2>1, <1>6
  <2>2. CASE n # m  BY <2>2, <1>5, <1>6 DEF Converging, Taken
  <2> QED BY <2>1, <2>2
<1>12. Reconciled'  BY <1>2 DEF Converging, Reconciled, Definition
<1>13. Called' /\ FirstRead' /\ Loads'
  BY <1>2, <1>7 DEF Converging, Called, FirstRead, Loads
<1>14. LoadDone'  BY <1>2 DEF Converging, LoadDone, Loaded
<1> QED BY <1>9, <1>10, <1>11, <1>12, <1>13, <1>14 DEF Converging

\* The retain service takes the next message over.
LEMMA HandleIngestConverges ==
    ASSUME InputsOK, InputsOK', Converging, HandleIngest  PROVE Converging'
<1>1. /\ ingest # <<>> /\ ingest' = Tail(ingest)
      /\ retained' = [retained EXCEPT ![Head(ingest).subject] = Head(ingest)]
      /\ UNCHANGED <<hand, handled, live, last, connections, points, phase, listed, toRead,
                     unread, ops>>
  BY DEF HandleIngest, run, maps
<1>2. ingest \in Seq(Sent)  BY DEF InputsOK
<1>3. PICK m \in Sent : m = Head(ingest)  BY <1>1, <1>2, HeadTail
<1>4. /\ 1 \in DOMAIN ingest /\ ingest[1] = m
      /\ \A i \in DOMAIN ingest' : i + 1 \in DOMAIN ingest /\ ingest'[i] = ingest[i + 1]
      /\ \A i \in DOMAIN ingest :
            ingest[i] = m \/ \E j \in DOMAIN ingest' : ingest'[j] = ingest[i]
  BY <1>1, <1>2, <1>3, HeadTail
<1>5. m.subject \in Subjects /\ m # Nil  BY SentFacts
<1>6. /\ retained'[m.subject] = m
      /\ \A s \in Subjects : s # m.subject => retained'[s] = retained[s]
  BY <1>1, <1>3, <1>5 DEF InputsOK, Filed
<1>7. m.id > 0 /\ Ingested(m)  BY <1>4 DEF Converging, Numbered, Ingested
<1>8. \A n \in Sent : (Ingested(n)' => Ingested(n)) /\ (Ingested(n) => Ingested(n)' \/ n = m)
  BY <1>4 DEF Ingested
<1>9. /\ \A n \in Sent : /\ Held(n)' <=> Held(n)
                         /\ HandledOf(n)' <=> HandledOf(n)
                         /\ Waits(n)' <=> Waits(n)
      /\ \A t \in Subjects : Handing(t)' <=> Handing(t)
  BY <1>1 DEF Held, HandledOf, Handing, Waits
<1>10. \A n \in Sent : retained'[n.subject] = n => retained[n.subject] = n \/ n = m
  BY <1>6, SentFacts
<1>11. Identified'
  <2>1. Around' \subseteq Around  BY <1>1, <1>7, <1>8, <1>9, <1>10 DEF Around
  <2>2. \A s \in Subjects : Known(s) => Known(s)'
    BY <1>4, <1>5, <1>6 DEF Known
  <2> QED BY <2>1, <2>2, <1>1, IdentifiedKept DEF Converging, InputsOK
<1>12. \A s \in Subjects : retained'[s] # Nil /\ retained'[s].id = 0 =>
         s # m.subject /\ retained'[s] = retained[s]
  BY <1>6, <1>7
<1>13. Numbered'  BY <1>4, <1>12 DEF Converging, Numbered
<1>14. Taken'
  <2>1. \A n \in Sent : retained'[n.subject] = n \/ Ingested(n)'
                        => retained[n.subject] = n \/ Ingested(n)
    BY <1>7, <1>8, <1>10
  <2> QED BY <2>1, <1>1, <1>9 DEF Converging, Taken
<1>15. Reconciled'  BY <1>1 DEF Converging, Reconciled, Definition
<1>16. Called'  BY <1>1, <1>9 DEF Converging, Called
<1>17. FirstRead' /\ Loads'
  BY <1>1, <1>9, <1>12 DEF Converging, FirstRead, Loads
<1>18. LoadDone'  BY <1>1 DEF Converging, LoadDone, Loaded
<1> QED BY <1>11, <1>13, <1>14, <1>15, <1>16, <1>17, <1>18 DEF Converging

LEMMA InitConverging ==
    ASSUME Init  PROVE Converging
<1> USE DEF Init
<1>0. InputsOK  BY InitIInv DEF IInv, Data
<1>1. /\ ops = 0 /\ DOMAIN ingest = {} /\ \A kind \in Kinds : DOMAIN live[kind] = {}
      /\ \A s \in Subjects : last[s] = Nil /\ handled[s] = Nil
      /\ \A g \in Goroutines : hand[g] = Nil
  OBVIOUS
<1>2. \A s \in Subjects : retained[s] # Nil => retained[s].id = 0 /\ retained[s].at = 0
  OBVIOUS
<1>3. \A m \in Sent : ~Waits(m) /\ ~Ingested(m) /\ ~Held(m)
  BY <1>1 DEF Waits, Ingested, Held
<1>4. \A m \in Sent : ~HandledOf(m) /\ last[m.subject] # m
  BY <1>1, SentFacts DEF HandledOf
<1>5. \A m \in Around : m \in Sent /\ retained[m.subject] = m
  BY <1>3, <1>4 DEF Around
<1>6. Identified
  BY <1>1, <1>2, <1>5, SentFacts DEF Identified, Known
<1>7. Numbered /\ Taken
  BY <1>1, <1>2, <1>3, SentFacts DEF Numbered, Taken
<1>8. Reconciled  BY <1>1 DEF Reconciled, Definition, Subjects
<1>9. Called /\ FirstRead  BY <1>1, <1>3, <1>4 DEF Called, FirstRead
<1>10. Loads /\ LoadDone  BY DEF Loads, LoadDone
<1> QED BY <1>6, <1>7, <1>8, <1>9, <1>10 DEF Converging

LEMMA NextConverging ==
    ASSUME IInv, IInv', Converging, [Next]_vars  PROVE Converging'
<1>0. Data /\ Control /\ InputsOK /\ InputsOK' /\ ops <= ops  BY DEF IInv, Data, InputsOK
<1>1. ASSUME UNCHANGED <<run, connections, points, environment>>  PROVE Converging'
  BY <1>0, <1>1, ConvergingKept DEF run, environment, messages, PhaseSound
<1>2. ASSUME Tasks  PROVE Converging'
  BY <1>1, <1>2 DEF Tasks, StopWorker, CancelWorker, JoinWorker, StartWorker, CloseClient,
     maps
<1>3. ASSUME NEW w \in WorkerIds, PollStep(w) \/ PollerEnds(w)  PROVE Converging'
  BY <1>1, <1>3 DEF PollStep, PollerEnds, PollBegins, ReadGroup, ReadFails, SkipPoint,
     PublishPoint, PublishFails, RememberPublished, PollDone, maps
<1>4. ASSUME UNCHANGED vars  PROVE Converging'
  BY <1>1, <1>4 DEF vars, maps
<1>5. ASSUME StartWorkers  PROVE Converging'
  <2>1. Loaded("addresses") /\ Loaded("connections") /\ phase = "loading"
    BY <1>5 DEF StartWorkers, Done, Loaded, Converging, LoadDone
  <2> QED BY <2>1, <1>0, <1>5, ConvergingKept
          DEF StartWorkers, environment, maps, messages, PhaseSound
<1>6. ASSUME WorkersStarted \/ Stop  PROVE Converging'
  BY <1>0, <1>6, ConvergingKept
     DEF WorkersStarted, Stop, environment, maps, messages, PhaseSound
<1>7. ASSUME Running  PROVE Converging'
  <2>1. CASE \E r \in Readers, s \in Subjects : ReadDescriptor(r, s) \/ ReadDescriptorFails(r, s)
    BY <2>1, <1>0, ReadDescriptorConverges, ReadDescriptorFailsConverges
  <2>2. CASE \E r \in Readers : ListSubjects(r)
    BY <2>2, <1>0, ListSubjectsConverges
  <2>3. CASE \E kind \in Kinds :
               CatchUpListFails(kind) \/ CatchUpAccepts(kind) \/ CallbackAccepts(kind)
    BY <2>3, <1>0, CatchUpListFailsConverges, CatchUpAcceptsConverges,
       CallbackAcceptsConverges
  <2>4. CASE \E g \in Goroutines : HandleMessage(g) \/ HandlerReturns(g)
    BY <2>4, <1>0, HandleMessageConverges, HandlerReturnsConverges
  <2>5. CASE UnsubscribeConnections
    <3>1. EndSubscription("connections") /\ phase' = "closed" /\ "connections" \in Kinds
      BY <2>5 DEF UnsubscribeConnections, Kinds
    <3> QED BY <3>1, <1>0, EndSubscriptionConverges
  <2>6. CASE HandleIngest  BY <2>6, <1>0, HandleIngestConverges
  <2> QED BY <1>5, <1>6, <1>7, <2>1, <2>2, <2>3, <2>4, <2>5, <2>6 DEF Running
<1>8. ASSUME Environment  PROVE Converging'
  <2>1. CASE Unsubscribe
    <3>1. EndSubscription("addresses") /\ phase' = "closing" /\ "addresses" \in Kinds
      BY <2>1 DEF Unsubscribe, Kinds
    <3> QED BY <3>1, <1>0, EndSubscriptionConverges
  <2>2. CASE \E s \in Subjects : \E raw \in Choices[s], skew \in Skews :
               PublishDescriptor(s, raw, skew)
    BY <2>2, <1>0, PublishDescriptorConverges
  <2>3. CASE \E e \in Endpoints, v \in Readings : ChangeDevice(e, v)
    <3>1. UNCHANGED <<messages, connections, points, phase>> /\ ops' = ops + 1
      BY <2>3 DEF ChangeDevice, Operation, run, maps, messages
    <3>2. ops <= ops'  BY <3>1, <1>0 DEF InputsOK
    <3> QED BY <3>1, <3>2, <1>0, ConvergingKept DEF PhaseSound
  <2> QED BY <1>8, <2>1, <2>2, <2>3 DEF Environment
<1> QED BY <1>2, <1>3, <1>4, <1>7, <1>8 DEF Next

\* Once every message is handled, the service has the newest descriptor of every
\* subject by the clocks of the publishers, unless one handler call overtook
\* another: accept, the catch-up and load together lose nothing.
THEOREM Convergence == Spec => []NewestUnlessOvertaken
<1>1. IInv /\ Converging => NewestUnlessOvertaken
  <2> SUFFICES ASSUME Data, Converging, Settled, NEW s \in Subjects
               PROVE  IF retained[s] = Nil THEN Definition(s) = Nil
                      ELSE \/ Unknown(s) \/ Overtaken(s) \/ Newest(s).raw = Mistyped
                           \/ Definition(s) = Parsed(Newest(s).raw)
    BY DEF IInv, NewestUnlessOvertaken
  <2>1. /\ phase = "running" /\ DOMAIN ingest = {} /\ \A g \in Goroutines : hand[g] = Nil
        /\ \A kind \in Kinds : DOMAIN live[kind] = {}
    BY DEF Settled, Idle
  <2>2. ~Handing(s) /\ \A m \in Sent : ~Waits(m)  BY <2>1 DEF Handing, Waits
  <2>3. /\ Filed(retained) /\ Filed(last) /\ Filed(handled)  BY DEF Data, InputsOK
  <2>4. CASE retained[s] = Nil
    <3>1. ~Known(s)  BY <2>1, <2>4 DEF Known
    <3>2. handled[s] = Nil
      <4> SUFFICES ASSUME handled[s] # Nil  PROVE FALSE  OBVIOUS
      <4>1. handled[s] \in Sent /\ handled[s].subject = s  BY <2>3 DEF Filed
      <4>2. handled[s] \in Around  BY <4>1 DEF Around, HandledOf
      <4> QED BY <3>1, <4>1, <4>2 DEF Converging, Identified
    <3> QED BY <2>4, <3>2 DEF Converging, Reconciled
  <2>5. CASE retained[s] # Nil /\ last[s] = Nil
    <3>1. /\ retained[s] \in Sent /\ retained[s].subject = s /\ retained[s].id \in Nat
      BY <2>3, <2>5, SentFacts DEF Filed
    <3>2. retained[s].id = 0
      <4>1. ~(retained[s].id > 0)  BY <3>1, <2>1, <2>2, <2>5 DEF Converging, Taken
      <4> QED BY <3>1, <4>1
    <3>3. Newest(s) = retained[s]  BY <2>5 DEF Newest
    <3>4. CASE s \in unread  BY <3>4, <2>5 DEF Unknown
    <3>5. CASE retained[s].raw = Mistyped  BY <3>3, <3>5, <2>5
    <3>6. CASE s \notin unread /\ retained[s].raw # Mistyped
      <4>1. <<"load", KindOf(s)>> \in listed /\ toRead[<<"load", KindOf(s)>>] = {}
        BY <2>1, KindFacts DEF Converging, LoadDone, Loaded, Kinds
      <4>2. handled[s] # Nil
        BY <4>1, <3>2, <3>6, <2>2, <2>5 DEF Converging, Loads
      <4>3. handled[s] \in Sent /\ handled[s].subject = s  BY <4>2, <2>3 DEF Filed
      <4>4. handled[s] = retained[s]
        BY <4>3, <3>2, <2>5 DEF Converging, FirstRead, HandledOf
      <4> QED BY <4>2, <4>4, <3>3, <2>5 DEF Converging, Reconciled
    <3> QED BY <3>4, <3>5, <3>6
  <2>6. CASE retained[s] # Nil /\ last[s] # Nil
    <3>1. /\ retained[s] \in Sent /\ retained[s].subject = s /\ retained[s].id \in Nat
          /\ retained[s].at \in Nat /\ last[s].at \in Nat
      BY <2>3, <2>6, SentFacts DEF Filed
    <3>2. last[s].at >= retained[s].at
      <4>1. CASE retained[s].id = 0
        BY <4>1, <3>1, <2>6 DEF Converging, Numbered
      <4>2. CASE retained[s].id > 0
        <5>1. retained[s].at <= last[s].at
          BY <4>2, <3>1, <2>1, <2>2, <2>6 DEF Converging, Taken
        <5> QED BY <5>1, <3>1
      <4> QED BY <4>1, <4>2, <3>1
    <3>3. Newest(s) = last[s]  BY <3>2, <2>6 DEF Newest
    <3>4. CASE last[s].raw = Mistyped  BY <3>3, <3>4, <2>6
    <3>5. CASE last[s].raw # Mistyped
      <4>1. handled[s] # Nil  BY <3>5, <2>2, <2>6 DEF Converging, Called
      <4>2. CASE handled[s] # last[s]  BY <4>1, <4>2, <2>6 DEF Overtaken
      <4>3. CASE handled[s] = last[s]
        BY <4>1, <4>3, <3>3, <2>6 DEF Converging, Reconciled
      <4> QED BY <4>2, <4>3
    <3> QED BY <3>4, <3>5
  <2> QED BY <2>4, <2>5, <2>6
<1>2. Init => Converging  BY InitConverging
<1>3. IInv /\ IInv' /\ Converging /\ [Next]_vars => Converging'  BY NextConverging
<1>4. Spec => [](IInv /\ Converging)
  BY <1>2, <1>3, Invariance, InitIInv, NextIInv, PTL DEF Spec
<1> QED BY <1>1, <1>4, PTL
=============================================================================
