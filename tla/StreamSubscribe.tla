--------------------------- MODULE StreamSubscribe ---------------------------
(***************************************************************************)
(* stream/subscribe.go: Subscribe, SubscribeSuffix and SubscribePrefix.    *)
(*                                                                         *)
(* A subscription has two goroutines.  NATS calls its callback for one     *)
(* live message after the other; the catch-up goroutine asks the retain    *)
(* service for the values of before.  Both go through accept, which is     *)
(* atomic, and then call the handler, outside of accept's lock.            *)
(***************************************************************************)
EXTENDS StreamBus, SequencesExt

CONSTANTS
    Feeds,          \* the receivers that are subscriptions
    Rank,           \* place of each subject in the order of sort.Strings
    Filters         \* what a program subscribes to: one subject, or a list of
                    \* the subjects with a suffix or below a prefix

ASSUME FeedAssumption == Feeds \subseteq Receivers
ASSUME RankAssumption ==
    /\ Rank \in [AllSubjects -> Nat]
    /\ \A s, t \in AllSubjects : Rank[s] = Rank[t] => s = t
ASSUME FilterAssumption ==
    /\ Filters \subseteq [listed : BOOLEAN, subjects : SUBSET AllSubjects]
    /\ \A f \in Filters : ~f.listed => \E s \in AllSubjects : f.subjects = {s}

VARIABLES
    sub,            \* the subscription and its goroutines
    last,           \* deliveryState.last: message accepted last, by subject
    history         \* what happened to the subscription, see NoHistory

subVars == <<sub, last, history>>

NoSubscription ==
    [state |-> "none", filter |-> [listed |-> FALSE, subjects |-> {}],
     cancelled |-> FALSE,
     catchUp |-> "done", todo |-> {}, got |-> 0,     \* the catch-up goroutine
     live |-> "wait", message |-> 0]                 \* the NATS callback

NoHistory ==
    [before |-> {},     \* messages published before NATS knew the subscription
     after |-> {},      \* and when it had forgotten it again
     gap |-> {},        \* published before, ingested after the catch-up looked
     failed |-> {},     \* subjects whose catch-up failed
     handled |-> {},    \* messages the handler was called with
     repeated |-> {},   \* those it was called with twice
     late |-> 0]        \* handler calls after Stop returned

SubInit ==
    /\ sub = [r \in Feeds |-> NoSubscription]
    /\ last = [r \in Feeds |-> [s \in AllSubjects |-> 0]]
    /\ history = [r \in Feeds |-> NoHistory]

-----------------------------------------------------------------------------
\* startSubscription, and the start of the catch-up goroutine.
Subscribe(r, filter) ==
    /\ sub[r].state = "none"
    /\ left.subscriptions > 0 /\ left' = [left EXCEPT !.subscriptions = @ - 1]
    /\ interest' = [interest EXCEPT ![r] = filter.subjects]
    /\ sub' = [sub EXCEPT ![r] =
         [NoSubscription EXCEPT
            !.state = "open", !.filter = filter,
            !.catchUp = IF filter.listed THEN "list" ELSE "get",
            !.todo = IF filter.listed THEN {} ELSE filter.subjects]]
    /\ history' = [history EXCEPT ![r].before = published]
    /\ UNCHANGED <<clientVars, pending, retained, answering, last>>

\* Mutant of Accepts: no comparison of message ids.
AcceptsNotOlder(r, id) ==
    LET previous == last[r][log[id].subject]
    IN  previous = 0 \/ At(id) >= At(previous)

\* deliveryState.accept: neither the message accepted last nor an older one.
Accepts(r, id) ==
    LET previous == last[r][log[id].subject]
    IN  previous = 0 \/ (previous # id /\ At(id) >= At(previous))

Accept(r, id) ==
    last' = IF Accepts(r, id) THEN [last EXCEPT ![r][log[id].subject] = id] ELSE last

\* Whether deliverValue gets as far as the handler.
Delivers(r, id) == Accepts(r, id) /\ log[id].typed

\* A call of the handler.
CallHandler(r, id) ==
    history' = [history EXCEPT
        ![r].handled = @ \cup {id},
        ![r].repeated = IF id \in history[r].handled THEN @ \cup {id} ELSE @,
        ![r].late = IF sub[r].state = "stopped" THEN @ + 1 ELSE @]

-----------------------------------------------------------------------------
(* The catch-up goroutine. *)

\* The subject the goroutine is at: those of a list come in order.
First(subjects) == CHOOSE s \in subjects : \A t \in subjects : Rank[s] <= Rank[t]
Current(r) == First(sub[r].todo)

\* Mutant of NextSubject: leaves the last subject out.
NextSubjectStopsEarly(r) ==
    LET rest == sub[r].todo \ {Current(r)}
    IN  [sub EXCEPT ![r].todo = rest, ![r].got = 0,
                    ![r].catchUp = IF Cardinality(rest) <= 1 THEN "done" ELSE "next"]

\* The goroutine is done with a subject; the loop over a list looks at the
\* context before the next request.
NextSubject(r) ==
    LET rest == sub[r].todo \ {Current(r)}
    IN  [sub EXCEPT ![r].todo = rest, ![r].got = 0,
                    ![r].catchUp = IF rest = {} THEN "done" ELSE "next"]

\* Messages that will be ingested but were never queued for the subscription.
Unseen(r, subjects) ==
    {id \in history[r].before : /\ log[id].subject \in subjects
                                /\ \E c \in Clients : Contains(pending[Retain][c], id)}

\* ListSubjects or ListSubjectsPrefix, answered by handleList.
ListSubjects(r) ==
    LET subjects == {s \in sub[r].filter.subjects : retained[s] # 0} IN
    /\ sub[r].catchUp = "list" /\ answering
    /\ sub' = [sub EXCEPT ![r].todo = subjects,
                          ![r].catchUp = IF subjects = {} THEN "done" ELSE "next"]
    /\ history' = [history EXCEPT ![r].gap =
         @ \cup Unseen(r, sub[r].filter.subjects \ subjects)]
    /\ UNCHANGED <<busVars, last>>

\* The request has a timeout of its own; the context does not end it.
ListFails(r) ==
    /\ sub[r].catchUp = "list" /\ Unanswered
    /\ sub' = [sub EXCEPT ![r].catchUp = "done"]
    /\ history' = [history EXCEPT ![r].failed = sub[r].filter.subjects]
    /\ UNCHANGED <<clientVars, pending, interest, retained, answering, last>>

LoopChecksContext(r) ==
    /\ sub[r].catchUp = "next"
    /\ sub' = [sub EXCEPT ![r].catchUp = IF sub[r].cancelled THEN "done" ELSE "get"]
    /\ UNCHANGED <<busVars, last, history>>

\* getPayloadContext, answered by handleGet.
GetPayload(r) ==
    LET s == Current(r) IN
    /\ sub[r].catchUp = "get" /\ answering
    /\ sub' = IF retained[s] = 0 THEN NextSubject(r)
              ELSE [sub EXCEPT ![r].catchUp = "accept", ![r].got = retained[s]]
    /\ history' = [history EXCEPT ![r].gap = @ \cup Unseen(r, {s})]
    /\ UNCHANGED <<busVars, last>>

\* The request ends with the context or with an error at once. It has no
\* deadline: without an answer it waits.
GetFails(r) ==
    /\ sub[r].catchUp = "get"
    /\ \/ sub[r].cancelled /\ UNCHANGED left
       \/ answering /\ Unanswered
    /\ sub' = NextSubject(r)
    /\ history' = [history EXCEPT ![r].failed = @ \cup {Current(r)}]
    /\ UNCHANGED <<clientVars, pending, interest, retained, answering, last>>

CatchUpAccepts(r) ==
    /\ sub[r].catchUp = "accept"
    /\ Accept(r, sub[r].got)
    /\ sub' = IF Delivers(r, sub[r].got) THEN [sub EXCEPT ![r].catchUp = "handle"]
              ELSE NextSubject(r)
    /\ UNCHANGED <<busVars, history>>

CatchUpHandles(r) ==
    /\ sub[r].catchUp = "handle"
    /\ CallHandler(r, sub[r].got)
    /\ sub' = NextSubject(r)
    /\ UNCHANGED <<busVars, last>>

CatchUp(r) ==
    \/ ListSubjects(r) \/ ListFails(r) \/ LoopChecksContext(r)
    \/ GetPayload(r) \/ GetFails(r)
    \/ CatchUpAccepts(r) \/ CatchUpHandles(r)

-----------------------------------------------------------------------------
(* The NATS callback. *)

\* NATS takes a message off the queue; from then on Unsubscribe does not
\* prevent the callback.
TakeMessage(r, c) ==
    /\ sub[r].live = "wait" /\ pending[r][c] # <<>>
    /\ sub' = [sub EXCEPT ![r].live = "accept", ![r].message = Head(pending[r][c])]
    /\ pending' = [pending EXCEPT ![r][c] = Tail(@)]
    /\ UNCHANGED <<clientVars, interest, retained, answering, left, last, history>>

LiveAccepts(r) ==
    /\ sub[r].live = "accept"
    /\ Accept(r, sub[r].message)
    /\ sub' = IF Delivers(r, sub[r].message) THEN [sub EXCEPT ![r].live = "handle"]
              ELSE [sub EXCEPT ![r].live = "wait", ![r].message = 0]
    /\ UNCHANGED <<busVars, history>>

LiveHandles(r) ==
    /\ sub[r].live = "handle"
    /\ CallHandler(r, sub[r].message)
    /\ sub' = [sub EXCEPT ![r].live = "wait", ![r].message = 0]
    /\ UNCHANGED <<busVars, last>>

Live(r) == (\E c \in Clients : TakeMessage(r, c)) \/ LiveAccepts(r) \/ LiveHandles(r)

-----------------------------------------------------------------------------
(* Stop and Drain; both run once and wait for the catch-up goroutine. *)

\* Mutant of Ending: does not cancel the context.
EndingUncancelled(r, state) ==
    /\ sub[r].state = "open"
    /\ sub' = [sub EXCEPT ![r].state = state]
    /\ interest' = [interest EXCEPT ![r] = {}]
    /\ history' = [history EXCEPT ![r].after = published]
    /\ UNCHANGED <<clientVars, retained, answering, left, last>>

Ending(r, state) ==
    /\ sub[r].state = "open"
    /\ sub' = [sub EXCEPT ![r].state = state, ![r].cancelled = TRUE]
    /\ interest' = [interest EXCEPT ![r] = {}]
    /\ history' = [history EXCEPT ![r].after = published]
    /\ UNCHANGED <<clientVars, retained, answering, left, last>>

\* Unsubscribe drops what is queued.
Stop(r) ==
    /\ Ending(r, "stopping")
    /\ pending' = [pending EXCEPT ![r] = NoMessages]

\* Mutant of Drain: unsubscribes.
DrainUnsubscribes(r) ==
    /\ Ending(r, "draining")
    /\ pending' = [pending EXCEPT ![r] = NoMessages]

\* The queue is worked off after the interest is gone.
Drain(r) == Ending(r, "draining") /\ UNCHANGED pending

\* catchUpDone is closed, Stop or Drain closes done and returns.
Closed(r) ==
    /\ sub[r].state \in {"stopping", "draining"}
    /\ sub[r].catchUp = "done"
    /\ sub' = [sub EXCEPT ![r].state =
                 IF sub[r].state = "stopping" THEN "stopped" ELSE "drained"]
    /\ UNCHANGED <<busVars, last, history>>

-----------------------------------------------------------------------------
SubNext ==
    \E r \in Feeds :
        \/ \E filter \in Filters : Subscribe(r, filter)
        \/ CatchUp(r) \/ Live(r)
        \/ Stop(r) \/ Drain(r) \/ Closed(r)

-----------------------------------------------------------------------------
Message == published \cup {0}

SubTypeOK ==
    /\ last \in [Feeds -> [AllSubjects -> Message]]
    /\ \A r \in Feeds :
         /\ sub[r].state \in {"none", "open", "stopping", "draining", "stopped", "drained"}
         /\ sub[r].filter.subjects \subseteq AllSubjects
         /\ sub[r].catchUp \in {"done", "list", "next", "get", "accept", "handle"}
         /\ sub[r].live \in {"wait", "accept", "handle"}
         /\ sub[r].todo \subseteq sub[r].filter.subjects
         /\ {sub[r].got, sub[r].message} \subseteq Message
         /\ UNION {history[r].before, history[r].after, history[r].gap,
                   history[r].handled} \subseteq published

NothingQueued(r) == pending[r] = NoMessages /\ sub[r].live = "wait"

\* NATS queued these for the subscription.
Routed(r) ==
    {id \in (IF sub[r].state = "open" THEN published ELSE history[r].after)
              \ history[r].before : log[id].subject \in sub[r].filter.subjects}

\* A message that reached an open or drained subscription is never simply lost:
\* once the queue is empty, the message accepted last on its subject is at
\* least as new. accept drops only what is superseded, and Drain nothing.
NothingRoutedIsLost ==
    \A r \in Feeds :
        (sub[r].state \notin {"none", "stopping", "stopped"} /\ NothingQueued(r))
        => \A id \in Routed(r) :
             LET newest == last[r][log[id].subject]
             IN  newest # 0 /\ At(newest) >= At(id)

\* Catching up after subscribing closes the window between the two ("delivers
\* the latest subject value, followed by future values"): when the catch-up is
\* done and the queues are empty, the subscription is not behind the retain
\* service, except for a message that was published before it subscribed and
\* ingested after it had read, and for reads that failed.
CaughtUp ==
    \A r \in Feeds :
        /\ sub[r].state = "open" /\ sub[r].catchUp = "done" /\ NothingQueued(r)
        /\ pending[Retain] = NoMessages
        => \A s \in sub[r].filter.subjects \ history[r].failed :
             LET newest == last[r][s] IN
             \/ retained[s] \in history[r].gap \cup {0}
             \/ newest # 0 /\ At(newest) >= At(retained[s])

\* The handler gets a message at most once although it comes both ways; accept
\* remembers only the last one, so this rests on distinct times of observation.
HandledOnce ==
    \A r \in Feeds : \A id \in history[r].repeated :
        \E other \in published \ {id} :
            log[other].subject = log[id].subject /\ At(other) = At(id)

\* "Stop immediately stops the subscription", and Closed "is closed after the
\* subscription has fully stopped": once Stop has returned, the handler is not
\* called any more.
StopIsQuiet == \A r \in Feeds : history[r].late = 0

\* Stop and Drain return, although they wait for requests to a retain service
\* that may not answer.
StopReturns ==
    \A r \in Feeds :
        sub[r].state \in {"stopping", "draining"} ~> sub[r].state \in {"stopped", "drained"}
=============================================================================
