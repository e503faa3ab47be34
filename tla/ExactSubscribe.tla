---------------------------- MODULE ExactSubscribe ----------------------------
(***************************************************************************)
(* stream/interest.go: one ExactSubscription.  Every watched subject has a *)
(* NATS subscription of its own, whose callback passes the message to the  *)
(* worker of the subject over a bounded channel; Add calls the handler     *)
(* itself with the retained value.                                         *)
(***************************************************************************)
EXTENDS StreamBus, SequencesExt

CONSTANTS
    WatchOf,        \* the receiver of each subject that can be watched
    Workers,        \* DefaultInterestWorkers goroutines
    WorkerOf,       \* workerIndex: hash of the subject
    QueueSize       \* interestWorkerQueue

Watchable == DOMAIN WatchOf

ASSUME WatchAssumption ==
    /\ WatchOf \in [Watchable -> Receivers] /\ Watchable \subseteq Subjects
    /\ \A s, t \in Watchable : WatchOf[s] = WatchOf[t] => s = t
    /\ WorkerOf \in [Watchable -> Workers] /\ QueueSize \in Nat \ {0}

VARIABLES
    exact,          \* life of the subscription
    caller,         \* the goroutine inside Add
    callback,       \* message each NATS callback has to dispatch, 0 if none
    orphans,        \* those whose NATS subscription was removed meanwhile
    queue,          \* the channels of the workers
    busy,           \* message each worker handles, 0 if none
    outlived,       \* history: messages whose callback ran without a watch
    fatal,          \* history: the message whose dispatch panicked, 0 if none
    taken,          \* history: messages in the order of the callbacks
    done            \* history: messages in the order of the workers

exactVars == <<exact, caller, callback, orphans, queue, busy, outlived, fatal, taken,
               done>>

NoCall == [pc |-> "idle", subject |-> Created, got |-> 0]

ExactInit ==
    /\ exact = "none" /\ caller = NoCall
    /\ callback = [s \in Watchable |-> 0] /\ orphans = {} /\ outlived = {} /\ fatal = 0
    /\ queue = [k \in Workers |-> <<>>] /\ busy = [k \in Workers |-> 0]
    /\ taken = [s \in Watchable |-> <<>>] /\ done = [s \in Watchable |-> <<>>]

ExactTypeOK ==
    /\ exact \in {"none", "open", "cancelled", "unsubscribed", "closed", "stopped",
                  "panicked"}
    /\ caller \in [pc : {"idle", "get", "handle"}, subject : AllSubjects,
                   got : published \cup {0}]
    /\ callback \in [Watchable -> published \cup {0}]
    /\ orphans \subseteq published
    /\ queue \in [Workers -> Seq(published)]
    /\ \A k \in Workers : Len(queue[k]) <= QueueSize
    /\ busy \in [Workers -> published \cup {0}]

Alive == exact \notin {"none", "panicked"}

-----------------------------------------------------------------------------
(* The owner: SubscribeExact, Add, Watch, Remove. *)

SubscribeExact ==
    /\ exact = "none" /\ exact' = "open"
    /\ left.watches > 0 /\ left' = [left EXCEPT !.watches = @ - 1]
    /\ UNCHANGED <<clientVars, pending, interest, retained, answering,
                   caller, callback, orphans, queue, busy, outlived, fatal, taken, done>>

OwnerCalls ==
    /\ Alive /\ caller.pc = "idle"
    /\ left.watches > 0 /\ left' = [left EXCEPT !.watches = @ - 1]

\* Add (with catch-up) and Watch (without).
Ensure(s, catchUp) ==
    /\ OwnerCalls
    /\ interest' = [interest EXCEPT ![WatchOf[s]] = {s}]
    /\ caller' = IF catchUp THEN [NoCall EXCEPT !.pc = "get", !.subject = s] ELSE NoCall
    /\ UNCHANGED <<clientVars, pending, retained, answering,
                   exact, callback, orphans, queue, busy, outlived, fatal, taken, done>>

\* GetAny.
AddReads ==
    /\ Alive /\ caller.pc = "get" /\ answering
    /\ caller' = IF retained[caller.subject] = 0 THEN NoCall
                 ELSE [caller EXCEPT !.pc = "handle", !.got = retained[caller.subject]]
    /\ UNCHANGED <<busVars, exact, callback, orphans, queue, busy, outlived, fatal, taken, done>>

AddFails ==
    /\ Alive /\ caller.pc = "get" /\ Unanswered
    /\ caller' = NoCall
    /\ UNCHANGED <<clientVars, pending, interest, retained, answering,
                   exact, callback, orphans, queue, busy, outlived, fatal, taken, done>>

AddHandles ==
    /\ Alive /\ caller.pc = "handle" /\ caller' = NoCall
    /\ UNCHANGED <<busVars, exact, callback, orphans, queue, busy, outlived, fatal, taken, done>>

\* NATS drops the queues of the watches; a callback that runs goes on.
Unwatch(subjects) ==
    /\ interest' = [r \in Receivers |-> IF \E s \in subjects : r = WatchOf[s]
                                        THEN {} ELSE interest[r]]
    /\ pending' = [r \in DOMAIN pending |-> IF \E s \in subjects : r = WatchOf[s]
                                            THEN NoMessages ELSE pending[r]]
    /\ orphans' = orphans \cup ({callback[s] : s \in subjects} \ {0})
    /\ outlived' = outlived \cup orphans'
    /\ callback' = [s \in Watchable |-> IF s \in subjects THEN 0 ELSE callback[s]]

RemoveWatch(s) ==
    /\ OwnerCalls
    /\ Unwatch({s})
    /\ UNCHANGED <<clientVars, retained, answering, exact, caller, queue, busy, fatal, taken, done>>

-----------------------------------------------------------------------------
(* The callbacks and the workers. *)

TakeWatched(s, c) ==
    LET r == WatchOf[s] IN
    /\ Alive /\ callback[s] = 0 /\ pending[r][c] # <<>>
    /\ callback' = [callback EXCEPT ![s] = Head(pending[r][c])]
    /\ taken' = [taken EXCEPT ![s] = Append(@, Head(pending[r][c]))]
    /\ outlived' = IF exact \in {"open", "cancelled"} THEN outlived
                   ELSE outlived \cup {Head(pending[r][c])}
    /\ pending' = [pending EXCEPT ![r][c] = Tail(@)]
    /\ UNCHANGED <<clientVars, interest, retained, answering, left,
                   exact, caller, orphans, queue, busy, fatal, done>>

\* The callback with this message leaves dispatch.
Leaves(id) ==
    /\ callback' = [s \in Watchable |-> IF callback[s] = id THEN 0 ELSE callback[s]]
    /\ orphans' = orphans \ {id}
    /\ UNCHANGED <<busVars, caller, busy, outlived, taken, done>>

Dispatching == orphans \cup ({callback[s] : s \in Watchable} \ {0})

\* Mutants of Enqueue: no bound, a default case, any worker.
EnqueueUnbounded(id) ==
    /\ exact \in {"open", "cancelled", "unsubscribed"}
    /\ queue' = [queue EXCEPT ![WorkerOf[log[id].subject]] = Append(@, id)]
    /\ Leaves(id) /\ UNCHANGED <<exact, fatal>>

EnqueueOrDrop(id) ==
    /\ exact \in {"open", "cancelled", "unsubscribed"}
    /\ queue' = [queue EXCEPT ![WorkerOf[log[id].subject]] =
                   IF Len(@) < QueueSize THEN Append(@, id) ELSE @]
    /\ Leaves(id) /\ UNCHANGED <<exact, fatal>>

EnqueueAnywhere(id) ==
    /\ exact \in {"open", "cancelled", "unsubscribed"}
    /\ \E k \in Workers : /\ Len(queue[k]) < QueueSize
                          /\ queue' = [queue EXCEPT ![k] = Append(@, id)]
    /\ Leaves(id) /\ UNCHANGED <<exact, fatal>>

\* The select of dispatch: a send that has room,
Enqueue(id) ==
    LET k == WorkerOf[log[id].subject] IN
    /\ exact \in {"open", "cancelled", "unsubscribed"}
    /\ Len(queue[k]) < QueueSize
    /\ queue' = [queue EXCEPT ![k] = Append(@, id)]
    /\ Leaves(id) /\ UNCHANGED <<exact, fatal>>

\* ctx.Done,
GiveUp(id) ==
    /\ exact \in {"cancelled", "unsubscribed", "closed", "stopped"}
    /\ Leaves(id) /\ UNCHANGED <<exact, fatal, queue>>

\* or a send on a channel that Stop has closed.
SendPanics(id) ==
    /\ exact \in {"closed", "stopped"} /\ exact' = "panicked"
    /\ fatal' = id
    /\ Leaves(id) /\ UNCHANGED queue

Dispatch == \E id \in Dispatching : Enqueue(id) \/ GiveUp(id) \/ SendPanics(id)

WorkerTakes(k) ==
    /\ Alive /\ busy[k] = 0 /\ queue[k] # <<>>
    /\ busy' = [busy EXCEPT ![k] = Head(queue[k])]
    /\ queue' = [queue EXCEPT ![k] = Tail(@)]
    /\ UNCHANGED <<busVars, exact, caller, callback, orphans, outlived, fatal, taken, done>>

WorkerHandles(k) ==
    /\ Alive /\ busy[k] # 0
    /\ done' = [done EXCEPT ![log[busy[k]].subject] = Append(@, busy[k])]
    /\ busy' = [busy EXCEPT ![k] = 0]
    /\ UNCHANGED <<busVars, exact, caller, callback, orphans, queue, outlived, fatal, taken>>

Work(k) == WorkerTakes(k) \/ WorkerHandles(k)

-----------------------------------------------------------------------------
(* Stop. *)

StopCancels ==
    /\ exact = "open" /\ exact' = "cancelled"
    /\ UNCHANGED <<busVars, caller, callback, orphans, queue, busy, outlived, fatal, taken, done>>

StopUnsubscribes ==
    /\ exact = "cancelled" /\ exact' = "unsubscribed"
    /\ Unwatch(Watchable)
    /\ UNCHANGED <<clientVars, retained, answering, left, caller, queue, busy, fatal, taken, done>>

\* Mutant of StopClosesWorkers: does not wait for the unsubscription.
StopClosesWorkersFirst ==
    /\ exact \in {"cancelled", "unsubscribed"} /\ exact' = "closed"
    /\ UNCHANGED <<busVars, caller, callback, orphans, queue, busy, outlived, fatal,
                   taken, done>>

StopClosesWorkers ==
    /\ exact = "unsubscribed" /\ exact' = "closed"
    /\ UNCHANGED <<busVars, caller, callback, orphans, queue, busy, outlived, fatal, taken, done>>

\* The workers have emptied their channels and ended.
StopEnds ==
    /\ exact = "closed" /\ exact' = "stopped"
    /\ \A k \in Workers : queue[k] = <<>> /\ busy[k] = 0
    /\ UNCHANGED <<busVars, caller, callback, orphans, queue, busy, outlived, fatal, taken, done>>

StopExact == StopUnsubscribes \/ StopClosesWorkers \/ StopEnds

ExactNext ==
    \/ SubscribeExact
    \/ \E s \in Watchable :
         \/ \E catchUp \in BOOLEAN : Ensure(s, catchUp)
         \/ RemoveWatch(s)
         \/ \E c \in Clients : TakeWatched(s, c)
    \/ AddReads \/ AddFails \/ AddHandles
    \/ Dispatch
    \/ \E k \in Workers : Work(k)
    \/ StopCancels \/ StopExact

-----------------------------------------------------------------------------
\* While nobody stops it, the pool loses nothing: when callbacks and workers
\* are idle, every message a callback took was handled. A full channel makes
\* the callback wait, and one whose watch was removed still delivers.
PoolLosesNothing ==
    (exact = "open" /\ Dispatching = {} /\ \A k \in Workers : queue[k] = <<>> /\ busy[k] = 0)
    => \A s \in Watchable : ToSet(done[s]) = ToSet(taken[s])

\* Messages of one subject are handled in the order NATS delivered them
\* ("Messages for one subject always go to the same worker"), whatever the
\* queues and stopping do. Only a message whose callback was still dispatching
\* when Remove dropped the watch can change places with others.
WorkerKeepsOrder ==
    \A s \in Watchable : \A i, j \in DOMAIN done[s] :
        (i < j /\ {done[s][i], done[s][j]} \cap outlived = {})
        => \E a, b \in DOMAIN taken[s] :
             a < b /\ taken[s][a] = done[s][i] /\ taken[s][b] = done[s][j]

\* A send on a closed channel crashes the process. Stop closes the channels only
\* after it has unsubscribed, so this needs a callback that NATS had begun
\* before, or a watch that was added after Stop.
PanicNeedsStraggler == exact = "panicked" => fatal \in outlived
=============================================================================
