------------------------- MODULE ExactSubscribeProofs -------------------------
(***************************************************************************)
(* The pool of an exact subscription, for any number of watches, workers,  *)
(* channel lengths and writers: PoolLosesNothing, WorkerKeepsOrder and     *)
(* PanicNeedsStraggler; and with the bus and the other readers, TypeOK.    *)
(***************************************************************************)
EXTENDS StreamSubscribeProofs

ExactTyped ==
    /\ ExactTypeOK
    /\ outlived \subseteq published /\ fatal \in published \cup {0}
    /\ taken \in [Watchable -> Seq(published)] /\ done \in [Watchable -> Seq(published)]

\* A callback took this message of the subject.
Taken(s, id) == id \in published /\ log[id].subject = s /\ Contains(taken[s], id)

\* A watch gets the messages of its subject only.
WatchesOwn ==
    \A s \in Watchable :
        /\ interest[WatchOf[s]] \subseteq {s}
        /\ \A id \in published : Queued(WatchOf[s], id) => log[id].subject = s

\* Messages stay on the way of their subject: its callback, the channel of its
\* worker, and that worker.
Tracked ==
    /\ \A s \in Watchable : \A id \in published : Contains(taken[s], id) => log[id].subject = s
    /\ \A s \in Watchable : callback[s] # 0 => Taken(s, callback[s])
    /\ \A id \in orphans : \E s \in Watchable : Taken(s, id)
    /\ \A k \in Workers : \A id \in published :
         (Contains(queue[k], id) \/ busy[k] = id)
         => \E s \in Watchable : Taken(s, id) /\ WorkerOf[s] = k
    /\ \A s \in Watchable : \A id \in published : Contains(done[s], id) => Taken(s, id)

\* Callbacks without a watch are known, and after Stop has unsubscribed there
\* are no others.
Stragglers ==
    /\ orphans \subseteq outlived
    /\ exact \notin {"none", "open", "cancelled"} =>
         \A s \in Watchable : callback[s] # 0 => callback[s] \in outlived
    /\ exact = "panicked" => fatal \in outlived

\* While nobody stops the pool, a message that was taken is somewhere in it.
Accounted ==
    exact \in {"none", "open"} =>
        \A s \in Watchable : \A id \in published : Contains(taken[s], id) =>
            \/ Contains(done[s], id) \/ id \in Dispatching
            \/ \E k \in Workers : Contains(queue[k], id) \/ busy[k] = id

\* One message of the subject was taken before the other.
Before(s, id, other) ==
    \E a, b \in DOMAIN taken[s] : a < b /\ taken[s][a] = id /\ taken[s][b] = other

\* What WorkerKeepsOrder asks of two messages.
InTurn(s, id, other) == {id, other} \cap outlived = {} => Before(s, id, other)

\* Where a message of the subject is.
Working(s, id) == id # 0 /\ busy[WorkerOf[s]] = id /\ log[id].subject = s
InChannel(s, id) == Contains(queue[WorkerOf[s]], id) /\ log[id].subject = s

\* From the callback to the handler nothing overtakes.
InOrder(s) ==
    /\ \A i, j \in DOMAIN done[s] : i < j => InTurn(s, done[s][i], done[s][j])
    /\ \A i, j \in DOMAIN queue[WorkerOf[s]] :
         LET q == queue[WorkerOf[s]] IN
         (i < j /\ log[q[i]].subject = s /\ log[q[j]].subject = s) => InTurn(s, q[i], q[j])
    /\ \A id, other \in published :
         /\ Contains(done[s], id) /\ Working(s, other) => InTurn(s, id, other)
         /\ (Contains(done[s], id) \/ Working(s, id)) /\ InChannel(s, other)
            => InTurn(s, id, other)
         /\ (Contains(done[s], id) \/ Working(s, id) \/ InChannel(s, id))
            /\ callback[s] = other => InTurn(s, id, other)

PoolInv ==
    /\ ExactTyped /\ Tracked /\ Stragglers /\ Accounted
    /\ \A s \in Watchable : InOrder(s)

ExactInv == ReadersInv /\ WatchesOwn /\ PoolInv

-----------------------------------------------------------------------------
\* What the parts of the pool hold.
LEMMA PoolFacts ==
    ASSUME ReadersInv, ExactTyped
    PROVE  /\ published \subseteq Nat \ {0}
           /\ \A id \in published : log[id].subject \in AllSubjects
           /\ \A s \in Watchable : /\ callback[s] \in published \cup {0}
                                   /\ taken[s] \in Seq(published) /\ done[s] \in Seq(published)
                                   /\ WorkerOf[s] \in Workers
           /\ \A k \in Workers : queue[k] \in Seq(published) /\ busy[k] \in published \cup {0}
           /\ \A s \in Watchable : \A id : Contains(taken[s], id) => id \in published
           /\ \A s \in Watchable : \A id : Contains(done[s], id) => id \in published
           /\ \A k \in Workers : \A id : Contains(queue[k], id) => id \in published
<1>1. log \in Seq(Messages) /\ published \subseteq DOMAIN log
  BY DEF ReadersInv, BusInv, WritersTyped
<1>2. \A id \in published : log[id] \in Messages /\ id \in Nat \ {0} BY <1>1
<1>3. /\ \A s \in Watchable : /\ callback[s] \in published \cup {0}
                              /\ taken[s] \in Seq(published) /\ done[s] \in Seq(published)
                              /\ WorkerOf[s] \in Workers
      /\ \A k \in Workers : queue[k] \in Seq(published) /\ busy[k] \in published \cup {0}
  BY WatchAssumption DEF ExactTyped, ExactTypeOK
<1>4. QED BY <1>2, <1>3, QueueFacts DEF Messages

LEMMA InitExact == Init => ExactInv
<1> SUFFICES ASSUME Init PROVE ExactInv OBVIOUS
<1>1. /\ exact = "none" /\ caller = NoCall
      /\ callback = [s \in Watchable |-> 0] /\ orphans = {} /\ outlived = {} /\ fatal = 0
      /\ queue = [k \in Workers |-> <<>>] /\ busy = [k \in Workers |-> 0]
      /\ taken = [s \in Watchable |-> <<>>] /\ done = [s \in Watchable |-> <<>>]
  BY DEF Init, ExactInit
<1>2. \A s \in Watchable : WatchOf[s] \in Receivers /\ WorkerOf[s] \in Workers
  BY WatchAssumption
<1>3. /\ pending = [r \in Receivers \cup {Retain} |-> NoMessages]
      /\ interest = [r \in Receivers |-> {}]
  BY DEF Init, BusInit
<1>4. \A q : ~Contains(<<>>, q) BY DEF Contains
<1>5. WatchesOwn BY <1>2, <1>3, <1>4 DEF WatchesOwn, Queued, NoMessages
<1>6. ReadersInv BY InitReaders
<1>7. published \subseteq Nat \ {0}
  <2>1. log \in Seq(Messages) /\ published \subseteq DOMAIN log
    BY <1>6 DEF ReadersInv, BusInv, WritersTyped
  <2>2. QED BY <2>1
<1>8. ExactTyped
  <2>1. caller \in [pc : {"idle", "get", "handle"}, subject : AllSubjects,
                    got : published \cup {0}]
    BY <1>1, IdleJob DEF NoCall
  <2>2. QED BY <1>1, <2>1, WatchAssumption DEF ExactTyped, ExactTypeOK
<1>9. Tracked BY <1>1, <1>4, <1>7 DEF Tracked
<1>10. Stragglers /\ Accounted BY <1>1, <1>4 DEF Stragglers, Accounted
<1>11. ASSUME NEW s \in Watchable PROVE InOrder(s)
  BY <1>1, <1>2, <1>4, <1>7 DEF InOrder, Working, InChannel
<1>12. QED BY <1>5, <1>6, <1>8, <1>9, <1>10, <1>11 DEF ExactInv, PoolInv

-----------------------------------------------------------------------------
\* Nothing is handled, queued or taken for the subject; its callback may end, and
\* messages may outlive their watch.
LEMMA OrderStays ==
    ASSUME ReadersInv, ExactTyped, NEW s \in Watchable, InOrder(s),
           published \subseteq published', 0 \notin published',
           \A id \in published : log'[id] = log[id],
           done'[s] = done[s], queue'[WorkerOf[s]] = queue[WorkerOf[s]],
           busy'[WorkerOf[s]] = busy[WorkerOf[s]], taken'[s] = taken[s],
           outlived \subseteq outlived', callback'[s] \in {callback[s], 0}
    PROVE  InOrder(s)'
<1> DEFINE q == queue[WorkerOf[s]]
<1>1. \A x, y : InTurn(s, x, y) => InTurn(s, x, y)' BY DEF InTurn, Before
<1>2. /\ \A x : Contains(done[s], x) => x \in published
      /\ \A x : Contains(q, x) => x \in published
      /\ busy[WorkerOf[s]] \in published \cup {0} /\ q \in Seq(published)
      /\ callback[s] \in published \cup {0}
  BY PoolFacts
<1>3. \A x \in published' : Working(s, x)' => x \in published /\ Working(s, x)
  BY <1>2 DEF Working
<1>4. \A x \in published' : InChannel(s, x)' => x \in published /\ InChannel(s, x)
  BY <1>2 DEF InChannel
<1>5. (\A i, j \in DOMAIN done[s] : i < j => InTurn(s, done[s][i], done[s][j]))'
  BY DEF InOrder, InTurn, Before
<1>6. ASSUME NEW i \in DOMAIN q, NEW j \in DOMAIN q, i < j,
             log'[q[i]].subject = s, log'[q[j]].subject = s
      PROVE  InTurn(s, q[i], q[j])'
  <2>1. q[i] \in published /\ q[j] \in published BY <1>2
  <2>2. log[q[i]].subject = s /\ log[q[j]].subject = s BY <1>6, <2>1
  <2>3. InTurn(s, q[i], q[j]) BY <1>6, <2>2 DEF InOrder
  <2>4. QED BY <1>1, <2>3
<1>7. ASSUME NEW id \in published', NEW other \in published'
      PROVE  /\ (Contains(done'[s], id) /\ Working(s, other)') => InTurn(s, id, other)'
             /\ (Contains(done'[s], id) \/ Working(s, id)') /\ InChannel(s, other)'
                => InTurn(s, id, other)'
             /\ (Contains(done'[s], id) \/ Working(s, id)' \/ InChannel(s, id)')
                /\ callback'[s] = other => InTurn(s, id, other)'
  BY <1>1, <1>2, <1>3, <1>4 DEF InOrder
<1>8. QED BY <1>5, <1>6, <1>7 DEF InOrder

\* A step that may publish messages, move the call of Add or advance Stop, and
\* moves no message of the pool.
LEMMA PoolStays ==
    ASSUME ReadersInv, PoolInv, published \subseteq published',
           0 \notin published', \A id \in published : log'[id] = log[id],
           UNCHANGED <<callback, orphans, queue, busy, outlived, fatal, taken, done>>,
           exact' \in {"none", "open", "cancelled", "unsubscribed", "closed", "stopped",
                       "panicked"},
           caller' \in [pc : {"idle", "get", "handle"}, subject : AllSubjects,
                        got : published' \cup {0}],
           exact' \in {"none", "open"} => exact \in {"none", "open"},
           exact' \notin {"none", "open", "cancelled"}
             => exact \notin {"none", "open", "cancelled"},
           exact' = "panicked" => exact = "panicked"
    PROVE  PoolInv'
<1>1. /\ ExactTyped /\ Tracked /\ Stragglers /\ Accounted
      /\ \A s \in Watchable : InOrder(s)
  BY DEF PoolInv
<1> USE PoolFacts
<1>2. ExactTyped'
  <2>1. Seq(published) \subseteq Seq(published') OBVIOUS
  <2>2. QED BY <1>1, <2>1 DEF ExactTyped, ExactTypeOK
<1>3. \A s \in Watchable : \A id \in published : Taken(s, id)' <=> Taken(s, id)
  BY DEF Taken
<1>4. Tracked'
  <2>1. (\A s \in Watchable : callback[s] # 0 => Taken(s, callback[s]))'
    BY <1>1 DEF Tracked, Taken
  <2>2. \A id \in orphans' : \E s \in Watchable : Taken(s, id)'
    BY <1>1, <1>3 DEF Tracked, ExactTyped, ExactTypeOK
  <2>3. ASSUME NEW k \in Workers, NEW id \in published', Contains(queue'[k], id) \/ busy'[k] = id
        PROVE  \E s \in Watchable : Taken(s, id)' /\ WorkerOf[s] = k
    <3>1. id \in published BY <1>1, <2>3
    <3>2. QED BY <1>1, <1>3, <2>3, <3>1 DEF Tracked
  <2>4. \A s \in Watchable : \A id \in published' : Contains(done'[s], id) => Taken(s, id)'
    BY <1>1, <1>3 DEF Tracked
  <2>5. \A s \in Watchable : \A id \in published' :
          Contains(taken'[s], id) => log'[id].subject = s
    BY <1>1 DEF Tracked
  <2>6. QED BY <2>1, <2>2, <2>3, <2>4, <2>5 DEF Tracked
<1>5. Stragglers' BY <1>1 DEF Stragglers
<1>6. Accounted' BY <1>1 DEF Accounted, Dispatching
<1>7. ASSUME NEW s \in Watchable PROVE InOrder(s)'
  BY <1>1, OrderStays
<1>8. QED BY <1>2, <1>4, <1>5, <1>6, <1>7 DEF PoolInv

\* Remove and Stop take callbacks off their subjects; they go on as stragglers.
LEMMA UnwatchPool ==
    ASSUME ReadersInv, PoolInv, NEW subjects \in SUBSET Watchable, Unwatch(subjects),
           UNCHANGED <<log, published, caller, queue, busy, fatal, taken, done>>,
           \/ exact' = exact
           \/ exact = "cancelled" /\ exact' = "unsubscribed" /\ subjects = Watchable
    PROVE  PoolInv'
<1>1. /\ ExactTyped /\ Tracked /\ Stragglers /\ Accounted
      /\ \A s \in Watchable : InOrder(s)
  BY DEF PoolInv
<1>2. /\ orphans' = orphans \cup ({callback[s] : s \in subjects} \ {0})
      /\ outlived' = outlived \cup orphans'
      /\ callback' = [s \in Watchable |-> IF s \in subjects THEN 0 ELSE callback[s]]
  BY DEF Unwatch
<1>3. {callback[s] : s \in subjects} \ {0} \subseteq published BY <1>1, PoolFacts
<1>4. ExactTyped' BY <1>1, <1>2, <1>3, PoolFacts DEF ExactTyped, ExactTypeOK
<1>5. \A s \in Watchable : \A id : Taken(s, id)' <=> Taken(s, id) BY DEF Taken
<1>6. Tracked'
  <2>1. (\A s \in Watchable : callback[s] # 0 => Taken(s, callback[s]))'
    BY <1>1, <1>2 DEF Tracked, Taken
  <2>2. \A id \in orphans' : \E s \in Watchable : Taken(s, id)'
    BY <1>1, <1>2, <1>5 DEF Tracked
  <2>3. QED BY <1>1, <1>5, <2>1, <2>2 DEF Tracked
<1>7. Stragglers' BY <1>1, <1>2 DEF Stragglers
<1>8. Dispatching' = Dispatching
  <2>1. {callback'[s] : s \in Watchable} \ {0} =
        {callback[s] : s \in Watchable \ subjects} \ {0}
    BY <1>2
  <2>2. QED BY <1>2, <2>1 DEF Dispatching
<1>9. Accounted' BY <1>1, <1>8 DEF Accounted
<1>10. 0 \notin published BY <1>1, PoolFacts
<1>11. \A s \in Watchable : InOrder(s)' BY <1>1, <1>2, <1>10, OrderStays
<1>12. QED BY <1>4, <1>6, <1>7, <1>9, <1>11 DEF PoolInv

\* What dispatch holds is the message of a callback, or of a straggler.
LEMMA DispatchFacts ==
    ASSUME ReadersInv, PoolInv, NEW id \in Dispatching
    PROVE  /\ id \in published /\ id # 0
           /\ \E s \in Watchable : Taken(s, id)
           /\ log[id].subject \in Watchable /\ Taken(log[id].subject, id)
           /\ id \in outlived \/ callback[log[id].subject] = id
           /\ exact \notin {"none", "open", "cancelled"} => id \in outlived
<1>1. ExactTyped /\ Tracked /\ Stragglers BY DEF PoolInv
<1>2. CASE id \in orphans
  BY <1>1, <1>2, PoolFacts DEF Tracked, Taken, Stragglers
<1>3. CASE \E s \in Watchable : id = callback[s] /\ id # 0
  BY <1>1, <1>3, PoolFacts DEF Tracked, Taken, Stragglers
<1>4. QED BY <1>2, <1>3 DEF Dispatching

\* A callback that gives up when the context is done, or whose send panics.
LEMMA GivesUpPool ==
    ASSUME ReadersInv, PoolInv, NEW id \in Dispatching, GiveUp(id) \/ SendPanics(id)
    PROVE  PoolInv'
<1>1. /\ ExactTyped /\ Tracked /\ Stragglers /\ Accounted
      /\ \A s \in Watchable : InOrder(s)
  BY DEF PoolInv
<1>2. /\ callback' = [s \in Watchable |-> IF callback[s] = id THEN 0 ELSE callback[s]]
      /\ orphans' = orphans \ {id}
      /\ UNCHANGED <<log, published, caller, queue, busy, outlived, taken, done>>
  BY DEF GiveUp, SendPanics, Leaves, busVars, clientVars
<1>3. /\ exact \in {"cancelled", "unsubscribed", "closed", "stopped"}
      /\ \/ exact' = exact /\ fatal' = fatal
         \/ exact \in {"closed", "stopped"} /\ exact' = "panicked" /\ fatal' = id
  BY DEF GiveUp, SendPanics
<1>4. id \in published /\ (exact # "cancelled" => id \in outlived)
  BY <1>3, DispatchFacts
<1>5. ExactTyped' BY <1>1, <1>2, <1>3, <1>4, PoolFacts DEF ExactTyped, ExactTypeOK
<1>6. \A s \in Watchable : \A x : Taken(s, x)' <=> Taken(s, x) BY <1>2 DEF Taken
<1>7. Tracked'
  <2>1. (\A s \in Watchable : callback[s] # 0 => Taken(s, callback[s]))'
    BY <1>1, <1>2 DEF Tracked, Taken
  <2>2. QED BY <1>1, <1>2, <1>6, <2>1 DEF Tracked
<1>8. Stragglers' BY <1>1, <1>2, <1>3, <1>4 DEF Stragglers
<1>9. Accounted' BY <1>3 DEF Accounted
<1>10. 0 \notin published BY <1>1, PoolFacts
<1>11. \A s \in Watchable : InOrder(s)' BY <1>1, <1>2, <1>10, OrderStays
<1>12. QED BY <1>5, <1>7, <1>8, <1>9, <1>11 DEF PoolInv

\* NATS hands a callback its next message: everything of the subject that is in
\* the pool was taken before it.
LEMMA TakePool ==
    ASSUME ReadersInv, WatchesOwn, PoolInv, NEW s \in Watchable, NEW c \in Clients,
           TakeWatched(s, c)
    PROVE  PoolInv'
<1>1. /\ ExactTyped /\ Tracked /\ Stragglers /\ Accounted
      /\ \A t \in Watchable : InOrder(t)
  BY DEF PoolInv
<1>2. PICK id : id = Head(pending[WatchOf[s]][c]) OBVIOUS
<1>3. /\ callback[s] = 0 /\ callback' = [callback EXCEPT ![s] = id]
      /\ taken' = [taken EXCEPT ![s] = Append(taken[s], id)]
      /\ outlived' = IF exact \in {"open", "cancelled"} THEN outlived ELSE outlived \cup {id}
      /\ exact \notin {"none", "panicked"} /\ pending[WatchOf[s]][c] # <<>>
      /\ UNCHANGED <<log, published, exact, caller, orphans, queue, busy, fatal, done>>
  BY <1>2 DEF TakeWatched, Alive, clientVars
<1>4. id \in published /\ log[id].subject = s
  <2>1. WatchOf[s] \in Receivers BY WatchAssumption
  <2>2. pending[WatchOf[s]][c] \in Seq(published) BY <2>1 DEF ReadersInv, QueuesTyped
  <2>3. id \in published /\ Contains(pending[WatchOf[s]][c], id)
    BY <1>2, <1>3, <2>2, QueueFacts
  <2>4. QED BY <2>3 DEF WatchesOwn, Queued
<1>5. /\ taken[s] \in Seq(published) /\ taken'[s] = Append(taken[s], id) /\ callback'[s] = id
      /\ \A t \in Watchable \ {s} : taken'[t] = taken[t] /\ callback'[t] = callback[t]
  BY <1>1, <1>3, PoolFacts DEF ExactTyped, ExactTypeOK
<1>6. /\ taken'[s] \in Seq(published)
      /\ \A x : Contains(taken'[s], x) <=> (Contains(taken[s], x) \/ x = id)
  BY <1>4, <1>5, QueueFacts
<1>7. ExactTyped' BY <1>1, <1>3, <1>4, <1>5, <1>6 DEF ExactTyped, ExactTypeOK
<1>8. /\ \A t \in Watchable : \A x : Taken(t, x) => Taken(t, x)'
      /\ Taken(s, id)'
  BY <1>3, <1>4, <1>5, <1>6 DEF Taken
<1>9. Tracked'
  <2>1. ASSUME NEW t \in Watchable, callback'[t] # 0 PROVE Taken(t, callback[t])'
    <3>1. CASE t = s BY <1>3, <1>4, <1>5, <1>6, <3>1 DEF Taken
    <3>2. CASE t # s BY <1>1, <1>3, <1>5, <2>1, <3>2 DEF Tracked, Taken
    <3>3. QED BY <3>1, <3>2
  <2>2. \A t \in Watchable : \A x \in published : Contains(taken'[t], x) => log[x].subject = t
    BY <1>1, <1>4, <1>5, <1>6 DEF Tracked
  <2>3. QED BY <1>1, <1>3, <1>8, <2>1, <2>2 DEF Tracked
<1>10. Stragglers' BY <1>1, <1>3, <1>5 DEF Stragglers
<1>11. Accounted'
  <2>1. Dispatching' = Dispatching \cup {id}
    <3>1. id # 0 BY <1>1, <1>4, PoolFacts
    <3>2. QED BY <1>3, <1>5, <3>1 DEF Dispatching
  <2>2. QED BY <1>1, <1>3, <1>5, <1>6, <2>1 DEF Accounted
<1>12. ASSUME NEW t \in Watchable PROVE InOrder(t)'
  <2>1. CASE t # s
    BY <1>1, <1>3, <1>5, <2>1, PoolFacts, OrderStays
  <2>2. CASE t = s
    <3>1. ASSUME NEW x \in published, Contains(taken[s], x) PROVE InTurn(s, x, id)'
      <4>1. PICK a \in 1..Len(taken[s]) : taken[s][a] = x BY <3>1 DEF Contains
      <4>2. /\ DOMAIN taken'[s] = 1..(Len(taken[s]) + 1) /\ Len(taken[s]) \in Nat
            /\ taken'[s][a] = x /\ taken'[s][Len(taken[s]) + 1] = id
        BY <1>4, <1>5, <4>1
      <4>3. a < Len(taken[s]) + 1 BY <4>1, <4>2
      <4>4. QED BY <4>2, <4>3 DEF InTurn, Before
    <3>2. ASSUME NEW x, NEW y, InTurn(s, x, y) PROVE InTurn(s, x, y)'
      <4>1. /\ DOMAIN taken[s] \subseteq DOMAIN taken'[s]
            /\ \A a \in DOMAIN taken[s] : taken'[s][a] = taken[s][a]
        BY <1>4, <1>5
      <4>2. outlived \subseteq outlived' BY <1>3
      <4>3. QED BY <3>2, <4>1, <4>2 DEF InTurn, Before
    <3>3. \A x \in published :
            (Contains(done[s], x) \/ Working(s, x) \/ InChannel(s, x)) => Contains(taken[s], x)
      BY <1>1, PoolFacts DEF Tracked, Taken, Working, InChannel
    <3>4. \A x : (Working(s, x)' <=> Working(s, x)) /\ (InChannel(s, x)' <=> InChannel(s, x))
      BY <1>3 DEF Working, InChannel
    <3>5. (\A i, j \in DOMAIN done[s] : i < j => InTurn(s, done[s][i], done[s][j]))'
      <4> SUFFICES ASSUME NEW i \in DOMAIN done[s], NEW j \in DOMAIN done[s], i < j
                   PROVE  InTurn(s, done[s][i], done[s][j])'
        BY <1>3
      <4>1. PICK x, y : x = done[s][i] /\ y = done[s][j] OBVIOUS
      <4>2. InTurn(s, x, y)' BY <1>1, <3>2, <4>1 DEF InOrder
      <4>3. QED BY <1>3, <4>1, <4>2
    <3>6. (\A i, j \in DOMAIN queue[WorkerOf[s]] :
             LET q == queue[WorkerOf[s]] IN
             (i < j /\ log[q[i]].subject = s /\ log[q[j]].subject = s)
             => InTurn(s, q[i], q[j]))'
      <4> DEFINE q == queue[WorkerOf[s]]
      <4> SUFFICES ASSUME NEW i \in DOMAIN q, NEW j \in DOMAIN q, i < j,
                          log[q[i]].subject = s, log[q[j]].subject = s
                   PROVE  InTurn(s, q[i], q[j])'
        BY <1>3
      <4>1. PICK x, y : x = q[i] /\ y = q[j] OBVIOUS
      <4>2. InTurn(s, x, y)' BY <1>1, <3>2, <4>1 DEF InOrder
      <4>3. QED BY <1>3, <4>1, <4>2
    <3>7. ASSUME NEW x \in published, NEW y \in published
          PROVE  /\ (Contains(done'[s], x) /\ Working(s, y)') => InTurn(s, x, y)'
                 /\ (Contains(done'[s], x) \/ Working(s, x)') /\ InChannel(s, y)'
                    => InTurn(s, x, y)'
                 /\ (Contains(done'[s], x) \/ Working(s, x)' \/ InChannel(s, x)')
                    /\ callback'[s] = y => InTurn(s, x, y)'
      BY <1>1, <1>3, <1>5, <3>1, <3>2, <3>3, <3>4 DEF InOrder
    <3>8. QED BY <1>3, <2>2, <3>5, <3>6, <3>7 DEF InOrder
  <2>3. QED BY <2>1, <2>2
<1>13. QED BY <1>7, <1>9, <1>10, <1>11, <1>12 DEF PoolInv

\* A send into the channel of the subject's worker: what is there already was
\* taken before, unless the message is a straggler's.
LEMMA EnqueuePool ==
    ASSUME ReadersInv, PoolInv, NEW id \in Dispatching, Enqueue(id)
    PROVE  PoolInv'
<1>1. /\ ExactTyped /\ Tracked /\ Stragglers /\ Accounted
      /\ \A t \in Watchable : InOrder(t)
  BY DEF PoolInv
<1>2. PICK s, k : s = log[id].subject /\ k = WorkerOf[s] OBVIOUS
<1>3. /\ callback' = [t \in Watchable |-> IF callback[t] = id THEN 0 ELSE callback[t]]
      /\ orphans' = orphans \ {id} /\ Len(queue[k]) < QueueSize
      /\ queue' = [queue EXCEPT ![k] = Append(queue[k], id)]
      /\ UNCHANGED <<log, published, exact, fatal, caller, busy, outlived, taken, done>>
  BY <1>2 DEF Enqueue, Leaves, busVars, clientVars
<1>4. /\ id \in published /\ id # 0 /\ s \in Watchable /\ Taken(s, id)
      /\ id \in outlived \/ callback[s] = id
  BY <1>2, DispatchFacts
<1>5. /\ k \in Workers /\ queue[k] \in Seq(published) BY <1>1, <1>2, <1>4, PoolFacts
<1>6. /\ queue'[k] = Append(queue[k], id) /\ queue'[k] \in Seq(published)
      /\ \A x : Contains(queue'[k], x) <=> (Contains(queue[k], x) \/ x = id)
      /\ \A n \in Workers \ {k} : queue'[n] = queue[n]
  BY <1>1, <1>3, <1>4, <1>5, QueueFacts DEF ExactTyped, ExactTypeOK
<1>7. ExactTyped'
  <2>1. queue' \in [Workers -> Seq(published)]
    BY <1>1, <1>3, <1>5, <1>6 DEF ExactTyped, ExactTypeOK
  <2>2. \A n \in Workers : Len(queue'[n]) <= QueueSize
    <3>1. Len(queue'[k]) = Len(queue[k]) + 1 /\ Len(queue[k]) \in Nat BY <1>4, <1>5, <1>6
    <3>2. QED BY <1>1, <1>3, <1>6, <3>1, WatchAssumption DEF ExactTyped, ExactTypeOK
  <2>3. callback' \in [Watchable -> published \cup {0}] BY <1>1, <1>3, PoolFacts
  <2>4. QED BY <1>1, <1>3, <2>1, <2>2, <2>3 DEF ExactTyped, ExactTypeOK
<1>8. \A t \in Watchable : \A x : Taken(t, x)' <=> Taken(t, x) BY <1>3 DEF Taken
<1>9. Tracked'
  <2>1. (\A t \in Watchable : callback[t] # 0 => Taken(t, callback[t]))'
    BY <1>1, <1>3 DEF Tracked, Taken
  <2>2. ASSUME NEW n \in Workers, NEW x \in published, Contains(queue'[n], x) \/ busy'[n] = x
        PROVE  \E t \in Watchable : Taken(t, x) /\ WorkerOf[t] = n
    <3>1. CASE n = k /\ x = id BY <1>2, <1>4, <3>1
    <3>2. CASE ~(n = k /\ x = id)
      <4>1. Contains(queue[n], x) \/ busy[n] = x BY <1>3, <1>6, <2>2, <3>2
      <4>2. QED BY <1>1, <4>1 DEF Tracked
    <3>3. QED BY <3>1, <3>2
  <2>3. QED BY <1>1, <1>3, <1>8, <2>1, <2>2 DEF Tracked
<1>10. Stragglers' BY <1>1, <1>3 DEF Stragglers
<1>11. Accounted'
  <2>1. \A x \in Dispatching : x \in Dispatching' \/ x = id BY <1>3 DEF Dispatching
  <2>2. \A n \in Workers : \A x : Contains(queue[n], x) => Contains(queue'[n], x) BY <1>6
  <2>3. QED BY <1>1, <1>3, <1>5, <1>6, <2>1, <2>2 DEF Accounted
<1>12. ASSUME NEW t \in Watchable PROVE InOrder(t)'
  <2> DEFINE n == WorkerOf[t]
             q == queue[n]
             p == queue'[n]
  <2>1. \A x, y : InTurn(t, x, y)' <=> InTurn(t, x, y) BY <1>3 DEF InTurn, Before
  <2>2. n \in Workers /\ q \in Seq(published) BY <1>1, PoolFacts
  <2>3. \A x : Working(t, x)' <=> Working(t, x) BY <1>3 DEF Working
  <2>4. \A x : InChannel(t, x)' => InChannel(t, x) \/ (x = id /\ s = t)
    BY <1>2, <1>3, <1>6, <2>2 DEF InChannel
  <2>5. ASSUME s = t, NEW x \in published, Contains(done[t], x) \/ Working(t, x) \/ InChannel(t, x)
        PROVE  InTurn(t, x, id)
    <3>1. CASE id \in outlived BY <3>1 DEF InTurn
    <3>2. CASE callback[t] = id BY <1>1, <1>4, <2>5, <3>2 DEF InOrder
    <3>3. QED BY <1>4, <2>5, <3>1, <3>2
  <2>6. (\A i, j \in DOMAIN done[t] : i < j => InTurn(t, done[t][i], done[t][j]))'
    BY <1>1, <1>3 DEF InOrder, InTurn, Before
  <2>7. ASSUME NEW i \in DOMAIN p, NEW j \in DOMAIN p, i < j,
               log[p[i]].subject = t, log[p[j]].subject = t
        PROVE  InTurn(t, p[i], p[j])
    <3>1. CASE i \in DOMAIN q /\ j \in DOMAIN q
      <4>1. p[i] = q[i] /\ p[j] = q[j]
        <5>1. CASE n = k
          <6>1. p = Append(q, id) BY <1>6, <5>1
          <6>2. QED BY <1>4, <2>2, <3>1, <6>1
        <5>2. CASE n # k BY <1>6, <2>2, <5>2
        <5>3. QED BY <5>1, <5>2
      <4>2. QED BY <1>1, <2>7, <3>1, <4>1 DEF InOrder
    <3>2. CASE ~(i \in DOMAIN q /\ j \in DOMAIN q)
      <4>1. n = k BY <1>6, <2>2, <3>2
      <4>2. p = Append(q, id) BY <1>6, <4>1
      <4>3. j = Len(q) + 1 /\ i \in DOMAIN q /\ p[j] = id /\ p[i] = q[i]
        BY <1>4, <2>2, <2>7, <3>2, <4>2
      <4>4. Contains(q, p[i]) /\ p[i] \in published BY <2>2, <4>3 DEF Contains
      <4>5. InChannel(t, p[i]) /\ s = t BY <1>2, <2>7, <4>3, <4>4 DEF InChannel
      <4>6. QED BY <2>5, <4>3, <4>4, <4>5
    <3>3. QED BY <3>1, <3>2
  <2>8. (\A i, j \in DOMAIN queue[WorkerOf[t]] :
           LET z == queue[WorkerOf[t]] IN
           (i < j /\ log[z[i]].subject = t /\ log[z[j]].subject = t)
           => InTurn(t, z[i], z[j]))'
    <3> SUFFICES ASSUME NEW i \in DOMAIN p, NEW j \in DOMAIN p, i < j,
                        log[p[i]].subject = t, log[p[j]].subject = t
                 PROVE  InTurn(t, queue[WorkerOf[t]][i], queue[WorkerOf[t]][j])'
      BY <1>3
    <3>1. PICK x, y : x = p[i] /\ y = p[j] OBVIOUS
    <3>2. InTurn(t, x, y)' BY <2>1, <2>7, <3>1
    <3>3. QED BY <3>1, <3>2
  <2>9. callback'[t] # 0 => callback'[t] = callback[t] /\ callback[t] # id BY <1>3
  <2>10. s = t => id \in outlived \/ callback'[t] = 0 BY <1>3, <1>4
  <2>11. ASSUME NEW x \in published, NEW y \in published
         PROVE  /\ (Contains(done'[t], x) /\ Working(t, y)') => InTurn(t, x, y)'
                /\ (Contains(done'[t], x) \/ Working(t, x)') /\ InChannel(t, y)'
                   => InTurn(t, x, y)'
                /\ (Contains(done'[t], x) \/ Working(t, x)' \/ InChannel(t, x)')
                   /\ callback'[t] = y => InTurn(t, x, y)'
    <3>1. y # 0 BY <1>1, PoolFacts
    <3>2. id \in outlived => InTurn(t, id, y) BY DEF InTurn
    <3>3. (Contains(done[t], x) /\ Working(t, y)) => InTurn(t, x, y) BY <1>1 DEF InOrder
    <3>4. (Contains(done[t], x) \/ Working(t, x)) /\ InChannel(t, y) => InTurn(t, x, y)
      BY <1>1 DEF InOrder
    <3>5. (Contains(done[t], x) \/ Working(t, x) \/ InChannel(t, x)) /\ callback[t] = y
          => InTurn(t, x, y)
      BY <1>1 DEF InOrder
    <3>6. QED BY <1>3, <2>1, <2>3, <2>4, <2>5, <2>9, <2>10, <3>1, <3>2, <3>3, <3>4, <3>5
  <2>12. QED BY <1>3, <2>6, <2>8, <2>11 DEF InOrder
<1>13. QED BY <1>7, <1>9, <1>10, <1>11, <1>12 DEF PoolInv

\* A worker takes the head of its channel: what it holds was before the rest.
LEMMA WorkerTakesPool ==
    ASSUME ReadersInv, PoolInv, NEW k \in Workers, WorkerTakes(k)
    PROVE  PoolInv'
<1>1. /\ ExactTyped /\ Tracked /\ Stragglers /\ Accounted
      /\ \A t \in Watchable : InOrder(t)
  BY DEF PoolInv
<1>2. PICK id : id = Head(queue[k]) OBVIOUS
<1>3. /\ busy[k] = 0 /\ queue[k] # <<>> /\ busy' = [busy EXCEPT ![k] = id]
      /\ queue' = [queue EXCEPT ![k] = Tail(queue[k])]
      /\ UNCHANGED <<log, published, exact, fatal, caller, callback, orphans, outlived, taken,
                     done>>
  BY <1>2 DEF WorkerTakes, busVars, clientVars
<1>4. queue[k] \in Seq(published) BY <1>1, PoolFacts
<1>5. /\ id \in published /\ Contains(queue[k], id) /\ Tail(queue[k]) \in Seq(published)
      /\ \A x : Contains(queue[k], x) <=> (x = id \/ Contains(Tail(queue[k]), x))
  BY <1>2, <1>3, <1>4, QueueFacts
<1>6. /\ queue'[k] = Tail(queue[k]) /\ busy'[k] = id
      /\ \A n \in Workers \ {k} : queue'[n] = queue[n] /\ busy'[n] = busy[n]
      /\ Len(Tail(queue[k])) <= Len(queue[k])
  BY <1>1, <1>3, <1>4 DEF ExactTyped, ExactTypeOK
<1>7. ExactTyped'
  <2>1. queue' \in [Workers -> Seq(published)] /\ busy' \in [Workers -> published \cup {0}]
    BY <1>1, <1>3, <1>5 DEF ExactTyped, ExactTypeOK
  <2>2. \A n \in Workers : Len(queue'[n]) <= QueueSize
    <3>1. Len(queue[k]) \in Nat /\ Len(Tail(queue[k])) \in Nat BY <1>4, <1>5
    <3>2. Len(queue[k]) <= QueueSize /\ QueueSize \in Nat
      BY <1>1, WatchAssumption DEF ExactTyped, ExactTypeOK
    <3>3. Len(queue'[k]) <= QueueSize BY <1>6, <3>1, <3>2
    <3>4. QED BY <1>1, <1>6, <3>3 DEF ExactTyped, ExactTypeOK
  <2>3. QED BY <1>1, <1>3, <2>1, <2>2 DEF ExactTyped, ExactTypeOK
<1>8. \A t \in Watchable : \A x : Taken(t, x)' <=> Taken(t, x) BY <1>3 DEF Taken
<1>9. \A n \in Workers : \A x :
        (Contains(queue'[n], x) \/ busy'[n] = x) => (Contains(queue[n], x) \/ busy[n] = x)
  BY <1>5, <1>6
<1>10. Tracked'
  <2>1. (\A t \in Watchable : callback[t] # 0 => Taken(t, callback[t]))'
    BY <1>1, <1>3 DEF Tracked, Taken
  <2>2. QED BY <1>1, <1>3, <1>8, <1>9, <2>1 DEF Tracked
<1>11. Stragglers' BY <1>1, <1>3 DEF Stragglers
<1>12. Accounted'
  <2>1. 0 \notin published /\ Dispatching' = Dispatching
    BY <1>1, <1>3, PoolFacts DEF Dispatching
  <2>2. \A n \in Workers : \A x \in published :
          (Contains(queue[n], x) \/ busy[n] = x) => (Contains(queue'[n], x) \/ busy'[n] = x)
    BY <1>3, <1>5, <1>6, <2>1
  <2>3. QED BY <1>1, <1>3, <2>1, <2>2 DEF Accounted
<1>13. ASSUME NEW t \in Watchable PROVE InOrder(t)'
  <2>1. CASE WorkerOf[t] # k
    <3>1. WorkerOf[t] \in Workers /\ 0 \notin published BY <1>1, PoolFacts
    <3>2. QED BY <1>1, <1>3, <1>6, <2>1, <3>1, OrderStays
  <2>2. CASE WorkerOf[t] = k
    <3> DEFINE q == queue[k]
               p == Tail(q)
    <3>1. \A x, y : InTurn(t, x, y)' <=> InTurn(t, x, y) BY <1>3 DEF InTurn, Before
    <3>2. /\ q \in Seq(published) /\ q # <<>> /\ p \in Seq(published) /\ q[1] = id
          /\ DOMAIN p = 1..(Len(q) - 1) /\ DOMAIN q = 1..Len(q) /\ Len(q) \in Nat \ {0}
          /\ \A i \in DOMAIN p : p[i] = q[i + 1]
      BY <1>2, <1>3, <1>4, <1>5
    <3>3. (\A i, j \in DOMAIN done[t] : i < j => InTurn(t, done[t][i], done[t][j]))'
      BY <1>1, <1>3 DEF InOrder, InTurn, Before
    <3>4. \A i, j \in DOMAIN q : (i < j /\ log[q[i]].subject = t /\ log[q[j]].subject = t)
                                 => InTurn(t, q[i], q[j])
      BY <1>1, <2>2 DEF InOrder
    <3>5. ASSUME NEW i \in DOMAIN p, NEW j \in DOMAIN p, i < j,
                 log[p[i]].subject = t, log[p[j]].subject = t
          PROVE  InTurn(t, p[i], p[j])
      <4>1. /\ i + 1 \in DOMAIN q /\ j + 1 \in DOMAIN q /\ i + 1 < j + 1
            /\ p[i] = q[i + 1] /\ p[j] = q[j + 1]
        BY <3>2, <3>5
      <4>2. QED BY <3>4, <3>5, <4>1
    <3>6. (\A i, j \in DOMAIN queue[WorkerOf[t]] :
             LET z == queue[WorkerOf[t]] IN
             (i < j /\ log[z[i]].subject = t /\ log[z[j]].subject = t)
             => InTurn(t, z[i], z[j]))'
      <4>0. queue'[WorkerOf[t]] = p BY <1>6, <2>2
      <4> HIDE DEF p, q
      <4> SUFFICES ASSUME NEW i \in DOMAIN p, NEW j \in DOMAIN p, i < j,
                          log[p[i]].subject = t, log[p[j]].subject = t
                   PROVE  InTurn(t, queue[WorkerOf[t]][i], queue[WorkerOf[t]][j])'
        BY <1>3, <4>0
      <4>1. PICK x, y : x = p[i] /\ y = p[j] OBVIOUS
      <4>2. InTurn(t, x, y)' BY <3>1, <3>5, <4>1
      <4>3. QED BY <4>0, <4>1, <4>2
    <3>7. \A x : InChannel(t, x)' <=> Contains(p, x) /\ log[x].subject = t
      BY <1>3, <1>6, <2>2 DEF InChannel
    <3>8. \A x : InChannel(t, x)' => InChannel(t, x) BY <1>5, <2>2, <3>7 DEF InChannel
    <3>9. \A x : Working(t, x)' => x = id /\ InChannel(t, id)
      BY <1>3, <1>5, <1>6, <2>2 DEF Working, InChannel
    <3>10. ASSUME NEW y, InChannel(t, y)', log[id].subject = t PROVE InTurn(t, id, y)
      <4>1. PICK j \in DOMAIN p : p[j] = y BY <3>2, <3>7, <3>10 DEF Contains
      <4>2. /\ 1 \in DOMAIN q /\ j + 1 \in DOMAIN q /\ 1 < j + 1 /\ q[1] = id /\ q[j + 1] = y
        BY <3>2, <4>1
      <4>3. log[y].subject = t BY <3>7, <3>10
      <4>4. QED BY <3>4, <3>10, <4>2, <4>3
    <3>11. ASSUME NEW x \in published, NEW y \in published
           PROVE  /\ (Contains(done'[t], x) /\ Working(t, y)') => InTurn(t, x, y)'
                  /\ (Contains(done'[t], x) \/ Working(t, x)') /\ InChannel(t, y)'
                     => InTurn(t, x, y)'
                  /\ (Contains(done'[t], x) \/ Working(t, x)' \/ InChannel(t, x)')
                     /\ callback'[t] = y => InTurn(t, x, y)'
      <4>1. (Contains(done[t], x) \/ Working(t, x)) /\ InChannel(t, y) => InTurn(t, x, y)
        BY <1>1 DEF InOrder
      <4>2. (Contains(done[t], x) \/ Working(t, x) \/ InChannel(t, x)) /\ callback[t] = y
            => InTurn(t, x, y)
        BY <1>1 DEF InOrder
      <4>3. InChannel(t, id) => log[id].subject = t BY DEF InChannel
      <4>4. QED BY <1>3, <3>1, <3>8, <3>9, <3>10, <4>1, <4>2, <4>3
    <3>12. QED BY <1>3, <3>3, <3>6, <3>11 DEF InOrder
  <2>3. QED BY <2>1, <2>2
<1>14. QED BY <1>7, <1>10, <1>11, <1>12, <1>13 DEF PoolInv

\* The worker has called the handler: what was handled before was before it.
LEMMA WorkerHandlesPool ==
    ASSUME ReadersInv, PoolInv, NEW k \in Workers, WorkerHandles(k)
    PROVE  PoolInv'
<1>1. /\ ExactTyped /\ Tracked /\ Stragglers /\ Accounted
      /\ \A t \in Watchable : InOrder(t)
  BY DEF PoolInv
<1>2. PICK id, s : id = busy[k] /\ s = log[id].subject OBVIOUS
<1>3. /\ id # 0 /\ done' = [done EXCEPT ![s] = Append(done[s], id)]
      /\ busy' = [busy EXCEPT ![k] = 0]
      /\ UNCHANGED <<log, published, exact, fatal, caller, callback, orphans, queue, outlived,
                     taken>>
  BY <1>2 DEF WorkerHandles, busVars, clientVars
<1>4. id \in published /\ 0 \notin published BY <1>1, <1>2, <1>3, PoolFacts
<1>5. s \in Watchable /\ WorkerOf[s] = k /\ Taken(s, id)
  <2>1. PICK t \in Watchable : Taken(t, id) /\ WorkerOf[t] = k BY <1>1, <1>2, <1>4 DEF Tracked
  <2>2. t = s BY <1>2, <2>1 DEF Taken
  <2>3. QED BY <2>1, <2>2
<1>6. /\ done[s] \in Seq(published) /\ done'[s] = Append(done[s], id)
      /\ \A t \in Watchable \ {s} : done'[t] = done[t]
      /\ busy'[k] = 0 /\ \A n \in Workers \ {k} : busy'[n] = busy[n]
  BY <1>1, <1>3, <1>5, PoolFacts DEF ExactTyped, ExactTypeOK
<1>7. /\ done'[s] \in Seq(published)
      /\ \A x : Contains(done'[s], x) <=> (Contains(done[s], x) \/ x = id)
  BY <1>4, <1>6, QueueFacts
<1>8. ExactTyped'
  <2>1. done' \in [Watchable -> Seq(published)] /\ busy' \in [Workers -> published \cup {0}]
    BY <1>1, <1>3, <1>6, <1>7 DEF ExactTyped, ExactTypeOK
  <2>2. QED BY <1>1, <1>3, <2>1 DEF ExactTyped, ExactTypeOK
<1>9. \A t \in Watchable : \A x : Taken(t, x)' <=> Taken(t, x) BY <1>3 DEF Taken
<1>10. Tracked'
  <2>1. (\A t \in Watchable : callback[t] # 0 => Taken(t, callback[t]))'
    BY <1>1, <1>3 DEF Tracked, Taken
  <2>2. \A n \in Workers : \A x \in published :
          (Contains(queue'[n], x) \/ busy'[n] = x) => (Contains(queue[n], x) \/ busy[n] = x)
    BY <1>3, <1>4, <1>6
  <2>3. \A t \in Watchable : \A x \in published : Contains(done'[t], x) => Taken(t, x)
    BY <1>1, <1>5, <1>6, <1>7 DEF Tracked
  <2>4. QED BY <1>1, <1>3, <1>9, <2>1, <2>2, <2>3 DEF Tracked
<1>11. Stragglers' BY <1>1, <1>3 DEF Stragglers
<1>12. Accounted'
  <2>1. Dispatching' = Dispatching BY <1>3 DEF Dispatching
  <2>2. \A t \in Watchable : \A x : Contains(done[t], x) => Contains(done'[t], x)
    BY <1>6, <1>7
  <2>3. ASSUME exact \in {"none", "open"}, NEW t \in Watchable, NEW x \in published,
               Contains(taken[t], x)
        PROVE  \/ Contains(done'[t], x) \/ x \in Dispatching
               \/ \E n \in Workers : Contains(queue[n], x) \/ busy'[n] = x
    <3>1. CASE x = id
      <4>1. t = s BY <1>1, <1>2, <2>3, <3>1 DEF Tracked
      <4>2. QED BY <1>7, <3>1, <4>1
    <3>2. CASE x # id BY <1>1, <1>2, <1>6, <2>2, <2>3, <3>2 DEF Accounted
    <3>3. QED BY <3>1, <3>2
  <2>4. QED BY <1>3, <2>1, <2>3 DEF Accounted
<1>13. ASSUME NEW t \in Watchable PROVE InOrder(t)'
  <2>1. CASE WorkerOf[t] # k
    <3>1. WorkerOf[t] \in Workers /\ t # s BY <1>1, <1>5, <2>1, PoolFacts
    <3>2. QED BY <1>1, <1>3, <1>4, <1>6, <2>1, <3>1, OrderStays
  <2>2. CASE WorkerOf[t] = k
    <3>1. \A x, y : InTurn(t, x, y)' <=> InTurn(t, x, y) BY <1>3 DEF InTurn, Before
    <3>2. \A x : ~Working(t, x)' BY <1>3, <1>6, <2>2 DEF Working
    <3>3. \A x : InChannel(t, x)' <=> InChannel(t, x) BY <1>3 DEF InChannel
    <3>4. t = s => Working(t, id) BY <1>2, <1>3, <2>2 DEF Working
    <3>5. \A x : Contains(done'[t], x) => Contains(done[t], x) \/ Working(t, x)
      BY <1>6, <1>7, <3>4
    <3>6. ASSUME NEW i \in DOMAIN done'[t], NEW j \in DOMAIN done'[t], i < j
          PROVE  InTurn(t, done'[t][i], done'[t][j])
      <4>1. CASE t # s \/ j \in DOMAIN done[s]
        <5>1. /\ i \in DOMAIN done[t] /\ j \in DOMAIN done[t]
              /\ done'[t][i] = done[t][i] /\ done'[t][j] = done[t][j]
          <6>1. CASE t # s BY <1>6, <3>6, <6>1
          <6>2. CASE t = s /\ j \in DOMAIN done[s] BY <1>4, <1>6, <3>6, <6>2
          <6>3. QED BY <4>1, <6>1, <6>2
        <5>2. QED BY <1>1, <3>6, <5>1 DEF InOrder
      <4>2. CASE t = s /\ j \notin DOMAIN done[s]
        <5>1. i \in DOMAIN done[s] /\ done'[t][i] = done[s][i] /\ done'[t][j] = id
          BY <1>4, <1>6, <3>6, <4>2
        <5>2. Contains(done[s], done[s][i]) /\ done[s][i] \in published
          BY <1>6, <5>1 DEF Contains
        <5>3. InTurn(s, done[s][i], id) BY <1>1, <1>4, <1>5, <3>4, <4>2, <5>2 DEF InOrder
        <5>4. QED BY <4>2, <5>1, <5>3
      <4>3. QED BY <4>1, <4>2
    <3>7. (\A i, j \in DOMAIN done[t] : i < j => InTurn(t, done[t][i], done[t][j]))'
      <4> SUFFICES ASSUME NEW i \in DOMAIN done'[t], NEW j \in DOMAIN done'[t], i < j
                   PROVE  InTurn(t, done[t][i], done[t][j])'
        OBVIOUS
      <4>1. PICK x, y : x = done'[t][i] /\ y = done'[t][j] OBVIOUS
      <4>2. InTurn(t, x, y)' BY <3>1, <3>6, <4>1
      <4>3. QED BY <4>1, <4>2
    <3>8. (\A i, j \in DOMAIN queue[WorkerOf[t]] :
             LET z == queue[WorkerOf[t]] IN
             (i < j /\ log[z[i]].subject = t /\ log[z[j]].subject = t)
             => InTurn(t, z[i], z[j]))'
      BY <1>1, <1>3 DEF InOrder, InTurn, Before
    <3>9. ASSUME NEW x \in published, NEW y \in published
          PROVE  /\ (Contains(done'[t], x) /\ Working(t, y)') => InTurn(t, x, y)'
                 /\ (Contains(done'[t], x) \/ Working(t, x)') /\ InChannel(t, y)'
                    => InTurn(t, x, y)'
                 /\ (Contains(done'[t], x) \/ Working(t, x)' \/ InChannel(t, x)')
                    /\ callback'[t] = y => InTurn(t, x, y)'
      <4>1. (Contains(done[t], x) \/ Working(t, x)) /\ InChannel(t, y) => InTurn(t, x, y)
        BY <1>1 DEF InOrder
      <4>2. (Contains(done[t], x) \/ Working(t, x) \/ InChannel(t, x)) /\ callback[t] = y
            => InTurn(t, x, y)
        BY <1>1 DEF InOrder
      <4>3. QED BY <1>3, <3>1, <3>2, <3>3, <3>5, <4>1, <4>2
    <3>10. QED BY <1>3, <3>7, <3>8, <3>9 DEF InOrder
  <2>3. QED BY <2>1, <2>2
<1>14. QED BY <1>8, <1>10, <1>11, <1>12, <1>13 DEF PoolInv

-----------------------------------------------------------------------------
\* A step that leaves the interest of a watch alone, sets or drops it, and adds
\* nothing to its queue.
LEMMA WatchStays ==
    ASSUME WatchesOwn, UNCHANGED <<log, published>>,
           \A s \in Watchable : interest'[WatchOf[s]] \subseteq {s},
           \A s \in Watchable : \A id : Queued(WatchOf[s], id)' => Queued(WatchOf[s], id)
    PROVE  WatchesOwn'
BY DEF WatchesOwn

\* Messages are added to the log, and to what was published, and never changed.
LEMMA BusGrows ==
    ASSUME ReadersInv, BusNext
    PROVE  published \subseteq published' /\ \A id \in published : log'[id] = log[id]
<1>1. log \in Seq(Messages) /\ published \subseteq DOMAIN log
  BY DEF ReadersInv, BusInv, WritersTyped
<1>2. CASE \E w \in Writers : NewMessage(w)
  <2>1. PICK w \in Writers : NewMessage(w) BY <1>2
  <2>2. PICK m : log' = Append(log, m) BY <2>1 DEF NewMessage
  <2>3. QED BY <1>1, <2>1, <2>2 DEF NewMessage
<1>3. CASE \E w \in Writers : \/ \E s \in Subjects : Set(w, s) \/ Create(w, s)
                              \/ CreateLooks(w) \/ CreateFails(w)
                              \/ ShouldAnnounce(w) \/ ShouldAnnounceFails(w)
                              \/ Publish(w) \/ PublishFails(w)
  BY <1>3 DEF Set, Create, CreateLooks, CreateFails, ShouldAnnounce, ShouldAnnounceFails,
              Publish, PublishFails
<1>4. CASE (\E c \in Clients : HandleIngest(c)) \/ RetainStalls
  BY <1>4 DEF HandleIngest, RetainStalls, clientVars
<1>5. QED BY <1>2, <1>3, <1>4 DEF BusNext, WriterStep

\* Nothing but a message of its subject joins the queue of a watch.
LEMMA BusWatches ==
    ASSUME ReadersInv, WatchesOwn, BusNext PROVE WatchesOwn'
<1>1. \A s \in Watchable : WatchOf[s] \in Receivers /\ WatchOf[s] # Retain
  BY WatchAssumption, NameAssumption
<1>2. /\ pending \in [Receivers \cup {Retain} -> [Clients -> Seq(published)]]
      /\ log \in Seq(Messages) /\ published \subseteq DOMAIN log
  BY DEF ReadersInv, QueuesTyped, BusInv, WritersTyped
<1>3. \A s \in Watchable : \A id : Queued(WatchOf[s], id) => id \in published
  <2> SUFFICES ASSUME NEW s \in Watchable, NEW id, NEW c \in Clients,
                      Contains(pending[WatchOf[s]][c], id)
               PROVE  id \in published
    BY DEF Queued
  <2>1. pending[WatchOf[s]][c] \in Seq(published) BY <1>1, <1>2
  <2>2. QED BY <2>1, QueueFacts
<1>4. CASE \E w \in Writers : Publish(w)
  <2>1. PICK w \in Writers : Publish(w) BY <1>4
  <2>2. PICK id, t, c : id = writer[w].id /\ t = writer[w].subject /\ c = ClientOf[w] OBVIOUS
  <2>3. /\ writer[w].pc = "publish" /\ published' = published \cup {id}
        /\ UNCHANGED <<log, interest>>
        /\ pending' = [q \in DOMAIN pending |->
             IF q \in Audience(t) THEN [pending[q] EXCEPT ![c] = Append(@, id)]
             ELSE pending[q]]
    BY <2>1, <2>2 DEF Publish
  <2>4. log[id].subject = t /\ c \in Clients
    BY <2>2, <2>3, JobFacts DEF JobSound, ReadersInv
  <2>5. ASSUME NEW s \in Watchable, NEW x, Queued(WatchOf[s], x)', ~Queued(WatchOf[s], x)
        PROVE  x = id /\ s = t
    <3>1. PICK d \in Clients : Contains(pending'[WatchOf[s]][d], x) BY <2>5 DEF Queued
    <3>2. ~Contains(pending[WatchOf[s]][d], x) BY <2>5 DEF Queued
    <3>3. pending[WatchOf[s]][d] \in Seq(published) BY <1>1, <1>2
    <3>4. WatchOf[s] \in Audience(t) /\ pending'[WatchOf[s]][d] = Append(pending[WatchOf[s]][d], id)
      BY <1>1, <1>2, <2>3, <2>4, <3>1, <3>2
    <3>5. t \in interest[WatchOf[s]] BY <1>1, <3>4 DEF Audience
    <3>6. s = t BY <3>5 DEF WatchesOwn
    <3>7. x = id
      <4>1. pending[WatchOf[s]][d] \in Seq(published \cup {id}) BY <3>3
      <4>2. QED BY <3>1, <3>2, <3>4, <4>1, QueueFacts
    <3>8. QED BY <3>6, <3>7
  <2>6. QED BY <1>3, <2>3, <2>4, <2>5 DEF WatchesOwn
<1>5. ASSUME UNCHANGED <<published, interest>>, \A id \in published : log'[id] = log[id],
             \A s \in Watchable : pending'[WatchOf[s]] = pending[WatchOf[s]]
      PROVE  WatchesOwn'
  BY <1>5 DEF WatchesOwn, Queued
<1>6. CASE \E c \in Clients : HandleIngest(c)
  <2>1. PICK c \in Clients : HandleIngest(c) BY <1>6
  <2>2. UNCHANGED <<log, published, interest>> BY <2>1 DEF HandleIngest, clientVars
  <2>3. pending' = [pending EXCEPT ![Retain][c] = Tail(@)] BY <2>1 DEF HandleIngest
  <2>4. \A s \in Watchable : pending'[WatchOf[s]] = pending[WatchOf[s]] BY <1>1, <1>2, <2>3
  <2>5. QED BY <1>5, <2>2, <2>4
<1>7. CASE \E w \in Writers : NewMessage(w)
  <2>1. PICK w \in Writers : NewMessage(w) BY <1>7
  <2>2. PICK m : log' = Append(log, m) BY <2>1 DEF NewMessage
  <2>3. \A id \in published : log'[id] = log[id] BY <1>2, <2>2
  <2>4. QED BY <1>5, <2>1, <2>3 DEF NewMessage
<1>8. CASE \E w \in Writers : \/ \E s \in Subjects : Set(w, s) \/ Create(w, s)
                              \/ CreateLooks(w) \/ CreateFails(w)
                              \/ ShouldAnnounce(w) \/ ShouldAnnounceFails(w)
                              \/ PublishFails(w)
  <2>1. UNCHANGED <<log, published, pending, interest>>
    BY <1>8 DEF Set, Create, CreateLooks, CreateFails, ShouldAnnounce, ShouldAnnounceFails,
                PublishFails
  <2>2. QED BY <1>5, <2>1
<1>9. CASE RetainStalls BY <1>5, <1>9 DEF RetainStalls, clientVars
<1>10. QED BY <1>4, <1>6, <1>7, <1>8, <1>9 DEF BusNext, WriterStep

\* Subscriptions have receivers of their own.
LEMMA SubWatches ==
    ASSUME ReadersInv, WatchesOwn, SubNext PROVE WatchesOwn' /\ UNCHANGED <<log, published>>
<1>1. \A s \in Watchable : WatchOf[s] \in Receivers /\ WatchOf[s] \notin Feeds
  BY WatchAssumption, ReaderAssumption
<1>2. /\ pending \in [Receivers \cup {Retain} -> [Clients -> Seq(published)]]
      /\ interest \in [Receivers -> SUBSET AllSubjects]
  BY DEF ReadersInv, QueuesTyped
<1>3. PICK r \in Feeds :
        \/ \E filter \in Filters : Subscribe(r, filter)
        \/ CatchUp(r) \/ Live(r) \/ Stop(r) \/ Drain(r) \/ Closed(r)
  BY DEF SubNext
<1>4. /\ UNCHANGED <<log, published>>
      /\ \A q \in Receivers \ {r} : pending'[q] = pending[q] /\ interest'[q] = interest[q]
  <2>1. CASE \E filter \in Filters : Subscribe(r, filter)
    BY <1>2, <2>1 DEF Subscribe, clientVars
  <2>2. CASE CatchUp(r)
    BY <2>2 DEF CatchUp, ListSubjects, ListFails, LoopChecksContext, GetPayload, GetFails,
                CatchUpAccepts, CatchUpHandles, busVars, clientVars
  <2>3. CASE \E c \in Clients : TakeMessage(r, c)
    BY <1>2, <2>3 DEF TakeMessage, clientVars
  <2>4. CASE LiveAccepts(r) \/ LiveHandles(r) \/ Closed(r)
    BY <2>4 DEF LiveAccepts, LiveHandles, Closed, busVars, clientVars
  <2>5. CASE Stop(r) \/ Drain(r) BY <1>2, <2>5 DEF Stop, Drain, Ending, clientVars
  <2>6. QED BY <1>3, <2>1, <2>2, <2>3, <2>4, <2>5 DEF Live
<1>5. QED BY <1>1, <1>4 DEF WatchesOwn, Queued

LEMMA ExactWatches == ASSUME ReadersInv, WatchesOwn, ExactNext PROVE WatchesOwn'
<1>1. \A s \in Watchable : WatchOf[s] \in Receivers BY WatchAssumption
<1>2. /\ pending \in [Receivers \cup {Retain} -> [Clients -> Seq(published)]]
      /\ interest \in [Receivers -> SUBSET AllSubjects]
  BY DEF ReadersInv, QueuesTyped
<1>3. \A s \in Watchable : interest[WatchOf[s]] \subseteq {s} BY DEF WatchesOwn
<1>4. ASSUME UNCHANGED <<log, published, pending, interest>> PROVE WatchesOwn'
  BY <1>4 DEF WatchesOwn, Queued
<1>5. CASE SubscribeExact BY <1>4, <1>5 DEF SubscribeExact, clientVars
<1>6. ASSUME NEW s \in Watchable, NEW catchUp \in BOOLEAN, Ensure(s, catchUp) PROVE WatchesOwn'
  <2>1. UNCHANGED <<log, published, pending>> BY <1>6 DEF Ensure, clientVars
  <2>2. interest' = [interest EXCEPT ![WatchOf[s]] = {s}] BY <1>6 DEF Ensure
  <2>3. \A t \in Watchable : interest'[WatchOf[t]] \subseteq {t}
    BY <1>1, <1>2, <1>3, <2>2, WatchAssumption
  <2>4. QED BY <2>1, <2>3, WatchStays DEF Queued
<1>7. ASSUME NEW subjects \in SUBSET Watchable, Unwatch(subjects), UNCHANGED <<log, published>>
      PROVE  WatchesOwn'
  <2>1. \A t \in Watchable : /\ interest'[WatchOf[t]] \in {interest[WatchOf[t]], {}}
                             /\ pending'[WatchOf[t]] \in {pending[WatchOf[t]], NoMessages}
    BY <1>1, <1>2, <1>7 DEF Unwatch
  <2>2. \A t \in Watchable : \A id : Queued(WatchOf[t], id)' => Queued(WatchOf[t], id)
    BY <2>1 DEF Queued, NoMessages, Contains
  <2>3. QED BY <1>3, <1>7, <2>1, <2>2, WatchStays
<1>8. ASSUME NEW s \in Watchable, RemoveWatch(s) PROVE WatchesOwn'
  BY <1>7, <1>8 DEF RemoveWatch, clientVars
<1>9. ASSUME NEW s \in Watchable, NEW c \in Clients, TakeWatched(s, c) PROVE WatchesOwn'
  <2>1. /\ UNCHANGED <<log, published, interest>> /\ pending[WatchOf[s]][c] # <<>>
        /\ pending' = [pending EXCEPT ![WatchOf[s]][c] = Tail(@)]
    BY <1>9 DEF TakeWatched, clientVars
  <2>2. ASSUME NEW t \in Watchable, NEW id, Queued(WatchOf[t], id)' PROVE Queued(WatchOf[t], id)
    <3>1. PICK d \in Clients : Contains(pending'[WatchOf[t]][d], id) BY <2>2 DEF Queued
    <3>2. pending[WatchOf[s]][c] \in Seq(published) BY <1>1, <1>2
    <3>3. \/ pending'[WatchOf[t]][d] = pending[WatchOf[t]][d]
          \/ /\ WatchOf[t] = WatchOf[s] /\ d = c
             /\ pending'[WatchOf[t]][d] = Tail(pending[WatchOf[s]][c])
      BY <1>1, <1>2, <2>1
    <3>4. Contains(pending[WatchOf[t]][d], id) BY <2>1, <3>1, <3>2, <3>3, QueueFacts
    <3>5. QED BY <3>4 DEF Queued
  <2>3. QED BY <1>3, <2>1, <2>2, WatchStays
<1>10. CASE AddReads \/ AddFails \/ AddHandles
  BY <1>4, <1>10 DEF AddReads, AddFails, AddHandles, busVars, clientVars
<1>11. CASE Dispatch
  BY <1>4, <1>11 DEF Dispatch, Enqueue, GiveUp, SendPanics, Leaves, busVars, clientVars
<1>12. CASE \E k \in Workers : Work(k)
  BY <1>4, <1>12 DEF Work, WorkerTakes, WorkerHandles, busVars, clientVars
<1>13. CASE StopCancels \/ StopClosesWorkers \/ StopEnds
  BY <1>4, <1>13 DEF StopCancels, StopClosesWorkers, StopEnds, busVars, clientVars
<1>14. CASE StopUnsubscribes BY <1>7, <1>14 DEF StopUnsubscribes, clientVars
<1>15. QED
  BY <1>5, <1>6, <1>8, <1>9, <1>10, <1>11, <1>12, <1>13, <1>14 DEF ExactNext, StopExact

\* Add and Watch, and the steps of Stop that touch no message.
LEMMA QuietPool ==
    ASSUME ReadersInv, PoolInv,
           \/ SubscribeExact
           \/ \E s \in Watchable : \E catchUp \in BOOLEAN : Ensure(s, catchUp)
           \/ AddReads \/ AddFails \/ AddHandles
           \/ StopCancels \/ StopClosesWorkers \/ StopEnds
    PROVE  PoolInv'
<1> DEFINE Calls == [pc : {"idle", "get", "handle"}, subject : AllSubjects,
                     got : published \cup {0}]
<1>1. caller \in Calls BY DEF PoolInv, ExactTyped, ExactTypeOK
<1>2. NoCall \in Calls BY IdleJob DEF NoCall
<1>3. 0 \notin published BY PoolFacts DEF PoolInv
<1>4. /\ UNCHANGED <<log, published, callback, orphans, queue, busy, outlived, fatal, taken,
                     done>>
  BY DEF SubscribeExact, Ensure, AddReads, AddFails, AddHandles, StopCancels,
         StopClosesWorkers, StopEnds, busVars, clientVars
<1>5. caller' \in Calls
  <2>1. ASSUME NEW s \in Watchable, NEW catchUp \in BOOLEAN, Ensure(s, catchUp)
        PROVE  caller' \in Calls
    <3>1. s \in AllSubjects BY WatchAssumption DEF AllSubjects
    <3>2. [NoCall EXCEPT !.pc = "get", !.subject = s] \in Calls BY <1>2, <3>1
    <3>3. QED BY <1>2, <2>1, <3>2 DEF Ensure
  <2>2. CASE AddReads
    <3>1. caller.subject \in AllSubjects BY <1>1
    <3>2. retained[caller.subject] \in published \cup {0}
      BY <3>1 DEF ReadersInv, BusInv, WritersTyped, KnownWritten
    <3>3. [caller EXCEPT !.pc = "handle", !.got = retained[caller.subject]] \in Calls
      BY <1>1, <3>2
    <3>4. QED BY <1>2, <2>2, <3>3 DEF AddReads
  <2>3. CASE AddFails \/ AddHandles BY <1>2, <2>3 DEF AddFails, AddHandles
  <2>4. CASE SubscribeExact \/ StopCancels \/ StopClosesWorkers \/ StopEnds
    BY <1>1, <2>4 DEF SubscribeExact, StopCancels, StopClosesWorkers, StopEnds
  <2>5. QED BY <2>1, <2>2, <2>3, <2>4
<1>6. \/ exact' = exact
      \/ exact = "none" /\ exact' = "open"
      \/ exact = "open" /\ exact' = "cancelled"
      \/ exact = "unsubscribed" /\ exact' = "closed"
      \/ exact = "closed" /\ exact' = "stopped"
  BY DEF SubscribeExact, Ensure, AddReads, AddFails, AddHandles, StopCancels,
         StopClosesWorkers, StopEnds
<1>7. exact \in {"none", "open", "cancelled", "unsubscribed", "closed", "stopped", "panicked"}
  BY DEF PoolInv, ExactTyped, ExactTypeOK
<1>8. QED BY <1>3, <1>4, <1>5, <1>6, <1>7, PoolStays

LEMMA ExactPool ==
    ASSUME ReadersInv, WatchesOwn, PoolInv, ExactNext PROVE PoolInv'
<1>1. CASE \/ SubscribeExact
           \/ \E s \in Watchable : \E catchUp \in BOOLEAN : Ensure(s, catchUp)
           \/ AddReads \/ AddFails \/ AddHandles
           \/ StopCancels \/ StopClosesWorkers \/ StopEnds
  BY <1>1, QuietPool
<1>2. ASSUME NEW s \in Watchable, RemoveWatch(s) PROVE PoolInv'
  <2>1. {s} \in SUBSET Watchable OBVIOUS
  <2>2. /\ Unwatch({s}) /\ exact' = exact
        /\ UNCHANGED <<log, published, caller, queue, busy, fatal, taken, done>>
    BY <1>2 DEF RemoveWatch, clientVars
  <2>3. QED BY <2>1, <2>2, UnwatchPool
<1>3. ASSUME NEW s \in Watchable, NEW c \in Clients, TakeWatched(s, c) PROVE PoolInv'
  BY <1>3, TakePool
<1>4. CASE Dispatch BY <1>4, EnqueuePool, GivesUpPool DEF Dispatch
<1>5. CASE \E k \in Workers : Work(k) BY <1>5, WorkerTakesPool, WorkerHandlesPool DEF Work
<1>6. CASE StopUnsubscribes
  <2>1. /\ Unwatch(Watchable) /\ exact = "cancelled" /\ exact' = "unsubscribed"
        /\ UNCHANGED <<log, published, caller, queue, busy, fatal, taken, done>>
    BY <1>6 DEF StopUnsubscribes, clientVars
  <2>2. QED BY <2>1, UnwatchPool
<1>7. QED BY <1>1, <1>2, <1>3, <1>4, <1>5, <1>6 DEF ExactNext, StopExact

\* The inductive invariant of the pool, for every step of writers, retain
\* service, subscriptions and owner.
THEOREM ExactInvariance == Spec => []ExactInv
<1>1. ExactInv /\ [Next]_vars => ExactInv'
  <2> SUFFICES ASSUME ExactInv, [Next]_vars PROVE ExactInv' OBVIOUS
  <2>1. ReadersInv /\ WatchesOwn /\ PoolInv BY DEF ExactInv
  <2>2. ReadersInv' BY <2>1, ReadersStep
  <2>3. log \in Seq(Messages) /\ published \subseteq DOMAIN log /\ 0 \notin published'
    <3>1. log \in Seq(Messages) /\ published \subseteq DOMAIN log
      BY <2>1 DEF ReadersInv, BusInv, WritersTyped
    <3>2. log' \in Seq(Messages) /\ published' \subseteq DOMAIN log'
      BY <2>2 DEF ReadersInv, BusInv, WritersTyped
    <3>3. QED BY <3>1, <3>2
  <2>4. ASSUME UNCHANGED exactVars, published \subseteq published',
               \A id \in published : log'[id] = log[id]
        PROVE  PoolInv'
    <3>1. UNCHANGED <<exact, caller, callback, orphans, queue, busy, outlived, fatal, taken,
                      done>>
      BY <2>4 DEF exactVars
    <3>2. /\ exact \in {"none", "open", "cancelled", "unsubscribed", "closed", "stopped",
                        "panicked"}
          /\ caller \in [pc : {"idle", "get", "handle"}, subject : AllSubjects,
                         got : published' \cup {0}]
      BY <2>1, <2>4 DEF PoolInv, ExactTyped, ExactTypeOK
    <3>3. QED BY <2>1, <2>3, <2>4, <3>1, <3>2, PoolStays
  <2>5. CASE BusNext /\ UNCHANGED <<subVars, exactVars>>
    <3>1. published \subseteq published' /\ \A id \in published : log'[id] = log[id]
      BY <2>1, <2>3, <2>5, BusGrows
    <3>2. QED BY <2>1, <2>2, <2>4, <2>5, <3>1, BusWatches DEF ExactInv
  <2>6. CASE SubNext /\ UNCHANGED exactVars
    BY <2>1, <2>2, <2>4, <2>6, SubWatches DEF ExactInv
  <2>7. CASE ExactNext BY <2>1, <2>2, <2>7, ExactWatches, ExactPool DEF ExactInv
  <2>8. CASE UNCHANGED vars
    <3>1. UNCHANGED <<log, published, pending, interest, exactVars>>
      BY <2>8 DEF vars, busVars, clientVars
    <3>2. WatchesOwn' BY <2>1, <3>1 DEF WatchesOwn, Queued
    <3>3. QED BY <2>2, <2>4, <3>1, <3>2 DEF ExactInv
  <2>9. QED BY <2>5, <2>6, <2>7, <2>8 DEF Next
<1>2. QED BY <1>1, InitExact, PTL DEF Spec

\* dispatch, the bounded channels and the workers lose no message while nobody
\* stops the subscription, whatever is added and removed meanwhile.
THEOREM PoolKeepsAll == Spec => []PoolLosesNothing
<1>1. ExactInv => PoolLosesNothing
  <2> SUFFICES ASSUME ExactInv, exact = "open", Dispatching = {},
                      \A k \in Workers : queue[k] = <<>> /\ busy[k] = 0,
                      NEW s \in Watchable
               PROVE  ToSet(done[s]) = ToSet(taken[s])
    BY DEF PoolLosesNothing
  <2>1. ReadersInv /\ ExactTyped /\ Tracked /\ Accounted BY DEF ExactInv, PoolInv
  <2>2. /\ taken[s] \in Seq(published) /\ done[s] \in Seq(published)
        /\ \A id : Contains(taken[s], id) => id \in published
        /\ \A id : Contains(done[s], id) => id \in published
        /\ 0 \notin published
    BY <2>1, PoolFacts
  <2>3. \A id : ~Contains(<<>>, id) BY DEF Contains
  <2>4. \A id : Contains(taken[s], id) <=> Contains(done[s], id)
    BY <2>1, <2>2, <2>3 DEF Accounted, Tracked, Taken
  <2>5. \A q \in Seq(published) : \A id : id \in ToSet(q) <=> Contains(q, id)
    BY DEF ToSet, Contains
  <2>6. QED BY <2>2, <2>4, <2>5
<1>2. QED BY <1>1, ExactInvariance, PTL

\* The worker of a subject handles its messages in the order NATS delivered
\* them; only the message of a callback that outlived its watch is exempt.
THEOREM WorkersKeepOrder == Spec => []WorkerKeepsOrder
<1>1. ExactInv => WorkerKeepsOrder
  BY DEF ExactInv, PoolInv, InOrder, InTurn, Before, WorkerKeepsOrder
<1>2. QED BY <1>1, ExactInvariance, PTL

\* Stop unsubscribes before it closes the channels, so the send that panics is
\* that of a callback without a watch.
THEOREM PanicIsStraggler == Spec => []PanicNeedsStraggler
<1>1. ExactInv => PanicNeedsStraggler
  BY DEF ExactInv, PoolInv, Stragglers, PanicNeedsStraggler
<1>2. QED BY <1>1, ExactInvariance, PTL

\* Type correctness of writers, queues, retain service and readers.
THEOREM TypeCorrect == Spec => []TypeOK
<1>1. ExactInv => TypeOK
  <2> SUFFICES ASSUME ExactInv PROVE TypeOK OBVIOUS
  <2>1. ReadersInv BY DEF ExactInv
  <2>2. BusTypeOK
    BY <2>1 DEF ReadersInv, BusTypeOK, QueuesTyped, BusInv, WritersTyped, Jobs
  <2>3. SubTypeOK
    <3>1. last \in [Feeds -> [AllSubjects -> Message]]
      BY <2>1 DEF ReadersInv, ReadersTyped, ReaderInv, Published
    <3>2. ASSUME NEW r \in Feeds
          PROVE  /\ sub[r] \in Subscriptions /\ Published(r)
      BY <2>1, HeldFacts DEF ReaderInv
    <3>3. QED BY <3>1, <3>2 DEF SubTypeOK, Subscriptions, Published
  <2>4. ExactTypeOK BY DEF ExactInv, PoolInv, ExactTyped
  <2>5. QED BY <2>2, <2>3, <2>4 DEF TypeOK
<1>2. QED BY <1>1, ExactInvariance, PTL
=============================================================================
