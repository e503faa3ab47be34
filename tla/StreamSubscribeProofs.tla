------------------------- MODULE StreamSubscribeProofs -------------------------
(***************************************************************************)
(* What a subscription promises its handler, for any number of             *)
(* subscriptions, writers, subjects and clocks: HandledOnce,               *)
(* NothingRoutedIsLost, CaughtUp and how far Stop can be from quiet.       *)
(***************************************************************************)
EXTENDS StreamProofs, WellFoundedInduction

\* The bus as the readers see it: the part of BusTypeOK that BusInv leaves out.
QueuesTyped ==
    /\ pending \in [Receivers \cup {Retain} -> [Clients -> Seq(published)]]
    /\ interest \in [Receivers -> SUBSET AllSubjects]
    /\ answering \in BOOLEAN /\ left \in Budgets /\ silent \in SUBSET Subjects

\* A message has one writer, who publishes it once; announcements are about
\* subjects, and owed for subjects only.
Apart(w) ==
    /\ writer[w].pc = "publish" => writer[w].id \notin published
    /\ writer[w].announce => writer[w].subject \in Subjects
    /\ writer[w].pc \in {"stamp", "publish"} /\ writer[w].subject = Created
       => writer[w].about \in Subjects
    /\ \A v \in Writers : (v # w /\ writer[v].pc = "publish" /\ writer[w].pc = "publish")
                          => writer[v].id # writer[w].id

WritersDiffer == \A w \in Writers : Apart(w)

Subscriptions ==
    [state : {"none", "open", "stopping", "draining", "stopped", "drained"},
     filter : [listed : BOOLEAN, subjects : SUBSET AllSubjects],
     cancelled : BOOLEAN,
     catchUp : {"done", "list", "next", "get", "accept", "handle"},
     todo : SUBSET AllSubjects, got : Nat,
     live : {"wait", "accept", "handle"}, message : Nat]

Histories ==
    [before : SUBSET Nat, after : SUBSET Nat, gap : SUBSET Nat,
     failed : SUBSET AllSubjects, handled : SUBSET Nat,
     repeated : SUBSET Nat, late : Nat]

ReadersTyped ==
    /\ sub \in [Feeds -> Subscriptions] /\ history \in [Feeds -> Histories]
    /\ last \in [Feeds -> [AllSubjects -> Nat]]

\* What a reader holds was published.
Published(r) ==
    /\ \A s \in AllSubjects : last[r][s] \in Message
    /\ sub[r].got \in Message /\ sub[r].message \in Message
    /\ sub[r].todo \subseteq sub[r].filter.subjects
    /\ UNION {history[r].before, history[r].after, history[r].gap,
              history[r].handled, history[r].repeated} \subseteq published

\* Where the two goroutines can be in each state of the subscription.
Life(r) ==
    /\ sub[r].state = "none" => sub[r] = NoSubscription
    /\ sub[r].state = "open" => /\ interest[r] = sub[r].filter.subjects
                                /\ ~sub[r].cancelled
    /\ sub[r].state \in {"none", "stopping", "stopped"} => /\ interest[r] = {}
                                                           /\ pending[r] = NoMessages
    /\ sub[r].state \in {"stopped", "drained"} => sub[r].catchUp = "done"
    /\ history[r].late # 0 => /\ history[r].late = 1 /\ sub[r].state = "stopped"
                              /\ sub[r].live = "wait"
    /\ sub[r].catchUp \in {"next", "get", "accept", "handle"} => sub[r].todo # {}
    /\ sub[r].catchUp \in {"accept", "handle"} =>
         sub[r].got \in published /\ log[sub[r].got].subject = Current(r)
    /\ sub[r].live \in {"accept", "handle"} => sub[r].message \in published

\* deliveryState has seen this message, or one as new of the same subject.
Passed(r, id) ==
    /\ last[r][log[id].subject] # 0
    /\ At(last[r][log[id].subject]) >= At(id)

\* Handed to the handler now.
LiveHas(r, id) == sub[r].live = "handle" /\ sub[r].message = id
CatchUpHas(r, id) == sub[r].catchUp = "handle" /\ sub[r].got = id

\* Another message of the same subject with the same time of observation.
Twin(id) ==
    \E other \in published \ {id} :
        log[other].subject = log[id].subject /\ At(other) = At(id)

\* A message that accept lets through a second time has a twin.
Once(r) ==
    /\ \A s \in AllSubjects : last[r][s] # 0 => log[last[r][s]].subject = s
    /\ \A id \in published :
         /\ (id \in history[r].handled \/ LiveHas(r, id) \/ CatchUpHas(r, id)) => Passed(r, id)
         /\ id \in history[r].handled /\ (LiveHas(r, id) \/ CatchUpHas(r, id)) => Twin(id)
         /\ LiveHas(r, id) /\ CatchUpHas(r, id) => Twin(id)
    /\ \A id \in history[r].repeated : Twin(id)

\* NATS holds the message for the receiver.
Queued(r, id) == \E c \in Clients : Contains(pending[r][c], id)

\* On its way to accept.
Waiting(r, id) == Queued(r, id) \/ (sub[r].live = "accept" /\ sub[r].message = id)

Arriving(r) ==
    sub[r].state \notin {"none", "stopping", "stopped"} =>
        \A id \in Routed(r) : Passed(r, id) \/ Waiting(r, id)

\* The catch-up goroutine has yet to look at the subject.
ToRead(r, s) ==
    \/ sub[r].catchUp = "list"
    \/ sub[r].catchUp \in {"next", "get"} /\ s \in sub[r].todo
    \/ sub[r].catchUp \in {"accept", "handle"} /\ s \in sub[r].todo \ {Current(r)}

\* A message of before the subscription whose subject was read: it came too late
\* for that, or it is what was read.
Catching(r) ==
    sub[r].state = "open" =>
        \A id \in history[r].before :
            LET s == log[id].subject IN
            (s \in sub[r].filter.subjects \ history[r].failed /\ ~ToRead(r, s)) =>
              /\ Queued(Retain, id) => id \in history[r].gap
              /\ retained[s] = id => \/ id \in history[r].gap \/ Passed(r, id)
                                     \/ sub[r].catchUp = "accept" /\ sub[r].got = id

ReaderInv(r) ==
    /\ Published(r) /\ Life(r) /\ Once(r)
    /\ Arriving(r) /\ Catching(r)

ReadersInv ==
    /\ BusInv /\ QueuesTyped /\ WritersDiffer /\ ReadersTyped
    /\ \A r \in Feeds : ReaderInv(r)

-----------------------------------------------------------------------------
(* Helpers. *)

\* Every non-empty set of natural numbers has a least element.
LEMMA NatMin == ASSUME NEW T, T \subseteq Nat, T # {} PROVE \E m \in T : \A n \in T : m <= n
<1> DEFINE R == OpToRel(<, Nat)
<1>1. IsWellFoundedOn(R, Nat) BY NatLessThanWellFounded
<1>2. PICK m \in T : \A n \in T : ~(<<n, m>> \in R)
  <2> HIDE DEF R
  <2>1. QED BY <1>1, WFMin
<1>3. \A a, b \in Nat : <<a, b>> \in R <=> a < b BY DEF OpToRel
<1> HIDE DEF R
<1>4. ASSUME NEW n \in T PROVE m <= n
  <2>1. n \in Nat /\ m \in Nat OBVIOUS
  <2>2. ~(n < m) BY <1>2, <1>3, <2>1
  <2>3. QED BY <2>1, <2>2
<1>5. QED BY <1>4

\* What a queue holds after something was appended to it or taken off.
LEMMA QueueFacts ==
    ASSUME NEW S, NEW q \in Seq(S)
    PROVE  /\ \A y : ~Contains(<<>>, y)
           /\ \A x \in S : /\ Append(q, x) \in Seq(S)
                           /\ \A y : Contains(Append(q, x), y) <=> (Contains(q, y) \/ y = x)
           /\ q # <<>> => /\ Head(q) \in S /\ Tail(q) \in Seq(S) /\ Contains(q, Head(q))
                         /\ \A y : Contains(q, y) <=> (y = Head(q) \/ Contains(Tail(q), y))
           /\ \A y : Contains(q, y) => y \in S
<1>1. \A y : ~Contains(<<>>, y) BY DEF Contains
<1>2. ASSUME NEW x \in S
      PROVE  /\ Append(q, x) \in Seq(S)
             /\ \A y : Contains(Append(q, x), y) <=> (Contains(q, y) \/ y = x)
  <2>1. /\ Append(q, x) \in Seq(S) /\ Len(Append(q, x)) = Len(q) + 1 /\ Len(q) \in Nat
        /\ \A i \in 1..Len(q) : Append(q, x)[i] = q[i]
        /\ Append(q, x)[Len(q) + 1] = x
    OBVIOUS
  <2>2. \A i : i \in 1..(Len(q) + 1) <=> i \in 1..Len(q) \/ i = Len(q) + 1 BY <2>1
  <2>3. QED BY <2>1, <2>2 DEF Contains
<1>3. ASSUME q # <<>>
      PROVE  /\ Head(q) \in S /\ Tail(q) \in Seq(S) /\ Contains(q, Head(q))
             /\ \A y : Contains(q, y) <=> (y = Head(q) \/ Contains(Tail(q), y))
  <2>1. /\ Head(q) \in S /\ Tail(q) \in Seq(S) /\ Head(q) = q[1] /\ Len(q) \in Nat
        /\ Len(Tail(q)) = Len(q) - 1 /\ Len(q) >= 1
        /\ \A i \in 1..Len(Tail(q)) : Tail(q)[i] = q[i + 1]
    BY <1>3
  <2>2. \A i \in 1..Len(q) : i = 1 \/ (i - 1 \in 1..Len(Tail(q)) /\ q[i] = Tail(q)[i - 1])
    BY <2>1
  <2>3. \A i \in 1..Len(Tail(q)) : i + 1 \in 1..Len(q) BY <2>1
  <2>4. 1 \in 1..Len(q) BY <2>1
  <2>5. QED BY <2>1, <2>2, <2>3, <2>4 DEF Contains
<1>4. \A y : Contains(q, y) => y \in S BY DEF Contains
<1>5. QED BY <1>1, <1>2, <1>3, <1>4

\* What the bounds leave is a bound again.
LEMMA Spent ==
    ASSUME left \in Budgets
    PROVE  /\ Fault => left' \in Budgets
           /\ Unanswered => left' \in Budgets
           /\ left.calls > 0 => [left EXCEPT !.calls = @ - 1] \in Budgets
           /\ left.mistyped > 0 => [left EXCEPT !.mistyped = @ - 1] \in Budgets
           /\ left.subscriptions > 0 => [left EXCEPT !.subscriptions = @ - 1] \in Budgets
           /\ left.watches > 0 => [left EXCEPT !.watches = @ - 1] \in Budgets
<1>1. Fault => left' \in Budgets BY DEF Fault, Budgets
<1>2. Unanswered => left' \in Budgets BY <1>1 DEF Unanswered
<1>3. left.calls > 0 => [left EXCEPT !.calls = @ - 1] \in Budgets BY DEF Budgets
<1>4. left.mistyped > 0 => [left EXCEPT !.mistyped = @ - 1] \in Budgets BY DEF Budgets
<1>5. left.subscriptions > 0 => [left EXCEPT !.subscriptions = @ - 1] \in Budgets
  BY DEF Budgets
<1>6. left.watches > 0 => [left EXCEPT !.watches = @ - 1] \in Budgets BY DEF Budgets
<1>7. QED BY <1>1, <1>2, <1>3, <1>4, <1>5, <1>6

\* The first of some subjects is one of them.
LEMMA FirstOf ==
    ASSUME NEW todo \in SUBSET AllSubjects, todo # {} PROVE First(todo) \in todo
<1> DEFINE T == {Rank[s] : s \in todo}
<1>1. T \subseteq Nat /\ T # {} BY RankAssumption
<1>2. PICK m \in T : \A n \in T : m <= n BY <1>1, NatMin
<1>3. PICK s \in todo : m = Rank[s] BY <1>2
<1>4. \A t \in todo : Rank[s] <= Rank[t] BY <1>2, <1>3
<1>5. QED BY <1>4 DEF First

-----------------------------------------------------------------------------
(* The bus. *)

LEMMA InitBusTyped == Init => BusTypeOK /\ QueuesTyped /\ WritersDiffer
<1> SUFFICES ASSUME Init PROVE QueuesTyped /\ WritersDiffer /\ BusTypeOK OBVIOUS
<1>1. /\ writer = [w \in Writers |-> Idle]
      /\ pending = [r \in Receivers \cup {Retain} |-> NoMessages]
      /\ interest = [r \in Receivers |-> {}] /\ answering = TRUE /\ silent = {}
      /\ \E start \in Starts : left = start.left
  BY DEF Init, BusInit
<1>2. left \in Budgets BY <1>1, StartAssumption
<1>3. NoMessages \in [Clients -> Seq(published)] BY DEF NoMessages
<1>4. QueuesTyped BY <1>1, <1>2, <1>3 DEF QueuesTyped
<1>5. Idle.pc = "idle" /\ Idle.announce = FALSE BY DEF Idle
<1>6. WritersDiffer BY <1>1, <1>5 DEF WritersDiffer, Apart
<1>7. BusTypeOK
  BY <1>4, InitBus DEF BusTypeOK, QueuesTyped, BusInv, WritersTyped, Jobs
<1>8. QED BY <1>4, <1>6, <1>7

\* A step that spends some of the bounds and leaves queues and interest alone.
LEMMA QueuesFrame ==
    ASSUME QueuesTyped, left' \in Budgets, UNCHANGED <<published, pending, interest, answering>>,
           silent' \in SUBSET Subjects
    PROVE  QueuesTyped'
BY DEF QueuesTyped

\* Calls, requests and their answers: the writer's job changes, not its message.
LEMMA CallTyped ==
    ASSUME BusInv, QueuesTyped, WritersDiffer, NEW w \in Writers, NEW job \in Jobs,
           writer' = [writer EXCEPT ![w] = job], job.pc # "publish",
           job.announce => job.subject \in Subjects,
           job.pc = "stamp" => job.subject # Created,
           UNCHANGED <<published, pending, interest, answering>>,
           left' \in Budgets, silent' \in SUBSET Subjects
    PROVE  QueuesTyped' /\ WritersDiffer'
<1>1. \A v \in Writers : writer'[v] = IF v = w THEN job ELSE writer[v] BY JobFacts
<1>2. WritersDiffer' BY <1>1 DEF WritersDiffer, Apart
<1>3. QED BY <1>2, QueuesFrame

LEMMA SetTyped ==
    ASSUME BusInv, QueuesTyped, WritersDiffer, NEW w \in Writers, NEW s \in Subjects,
           SetBegins(w, s), UNCHANGED <<published, pending, interest, answering, silent>>,
           left' \in Budgets
    PROVE  QueuesTyped' /\ WritersDiffer'
<1> DEFINE pc == IF s \in known[ClientOf[w]] THEN "stamp" ELSE "check"
           job == [Idle EXCEPT !.pc = pc, !.subject = s, !.about = s]
<1>1. job \in Jobs /\ job.subject = s /\ job.pc = pc /\ job.announce = FALSE
  BY IdleJob DEF Jobs, Idle
<1>2. writer' = [writer EXCEPT ![w] = job] BY DEF SetBegins
<1>3. s # Created /\ pc # "publish" BY NameAssumption
<1>4. silent' \in SUBSET Subjects BY DEF QueuesTyped
<1> HIDE DEF job
<1>5. QED BY <1>1, <1>2, <1>3, <1>4, CallTyped

\* A writer that returns to its caller.
LEMMA IdleTyped ==
    ASSUME BusInv, QueuesTyped, WritersDiffer, NEW w \in Writers,
           writer' = [writer EXCEPT ![w] = Idle],
           UNCHANGED <<published, pending, interest, answering>>,
           left' \in Budgets, silent' \in SUBSET Subjects
    PROVE  QueuesTyped' /\ WritersDiffer'
<1>1. Idle \in Jobs /\ Idle.pc = "idle" /\ Idle.announce = FALSE BY IdleJob DEF Idle
<1>2. QED BY <1>1, CallTyped

LEMMA AnnounceTyped ==
    ASSUME BusInv, QueuesTyped, WritersDiffer, NEW w \in Writers,
           ShouldAnnounce(w) \/ ShouldAnnounceFails(w)
    PROVE  QueuesTyped' /\ WritersDiffer'
<1> DEFINE s == writer[w].subject
           announce == IF ShouldAnnounce(w) THEN retained[s] = 0 ELSE writer[w].announce
           job == [writer[w] EXCEPT !.pc = "stamp", !.announce = announce]
<1>1. /\ writer[w].pc = "check" /\ s \in Subjects /\ writer[w] \in Jobs /\ s # Created
      /\ UNCHANGED <<published, pending, interest, answering>>
  BY JobFacts, NameAssumption DEF ShouldAnnounce, ShouldAnnounceFails
<1>2. announce \in BOOLEAN BY <1>1 DEF Jobs
<1>3. job \in Jobs /\ job.subject = s /\ job.pc = "stamp" BY <1>1, <1>2 DEF Jobs
<1>4. writer' = [writer EXCEPT ![w] = job]
  BY <1>1, JobFacts DEF ShouldAnnounce, ShouldAnnounceFails, Jobs
<1>5. left' \in Budgets /\ silent' \in SUBSET Subjects
  BY <1>1, Spent DEF ShouldAnnounce, ShouldAnnounceFails, QueuesTyped
<1> HIDE DEF job
<1>6. QED BY <1>1, <1>3, <1>4, <1>5, CallTyped

LEMMA NewMessageTyped ==
    ASSUME BusInv, QueuesTyped, WritersDiffer, NEW w \in Writers, NewMessage(w)
    PROVE  QueuesTyped' /\ WritersDiffer'
<1>1. /\ writer[w].pc = "stamp"
      /\ writer' = [writer EXCEPT ![w].pc = "publish", ![w].id = Len(log) + 1]
      /\ UNCHANGED <<published, silent, pending, interest, answering>>
  BY DEF NewMessage
<1>2. left' \in Budgets /\ silent' \in SUBSET Subjects
  <2>1. PICK typed \in BOOLEAN :
          /\ typed \/ left.mistyped > 0
          /\ left' = IF typed THEN left ELSE [left EXCEPT !.mistyped = @ - 1]
    BY DEF NewMessage
  <2>2. QED BY <1>1, <2>1, Spent DEF QueuesTyped
<1>3. QueuesTyped' BY <1>1, <1>2, QueuesFrame
<1>4. /\ published \subseteq 1..Len(log) /\ Len(log) \in Nat
      /\ \A v \in Writers : writer[v].pc = "publish" => writer[v].id \in 1..Len(log)
  BY DEF BusInv, WritersTyped, JobsSound, JobSound
<1>9. /\ Len(log) + 1 \notin published
      /\ \A v \in Writers : writer[v].pc = "publish" => writer[v].id # Len(log) + 1
  BY <1>4
<1>5. /\ \A v \in Writers : /\ writer'[v].subject = writer[v].subject
                            /\ writer'[v].about = writer[v].about
                            /\ writer'[v].announce = writer[v].announce
      /\ writer'[w].pc = "publish" /\ writer'[w].id = Len(log) + 1
      /\ \A v \in Writers : v # w => writer'[v] = writer[v]
  BY <1>1, <1>4, JobFacts DEF Jobs
<1>8. published' = published BY <1>1
<1>6. ASSUME NEW v \in Writers PROVE Apart(v)'
  <2>1. Apart(v) /\ Apart(w) BY DEF WritersDiffer
  <2>2. CASE v = w
    <3>1. /\ writer'[v].subject = Created => writer'[v].about \in Subjects
          /\ writer'[v].announce => writer'[v].subject \in Subjects
      BY <1>1, <1>5, <2>1, <2>2 DEF Apart
    <3>2. \A u \in Writers : u # v /\ writer'[u].pc = "publish" => writer'[u].id # writer'[v].id
      BY <1>9, <1>5, <2>2
    <3>3. writer'[v].id \notin published' BY <1>5, <1>8, <1>9, <2>2
    <3>4. QED BY <3>1, <3>2, <3>3 DEF Apart
  <2>3. CASE v # w
    <3>1. writer'[v] = writer[v] BY <1>5, <2>3
    <3>2. \A u \in Writers : (u # v /\ writer'[u].pc = "publish" /\ writer'[v].pc = "publish")
                             => writer'[u].id # writer'[v].id
      BY <1>9, <1>5, <2>1, <3>1 DEF Apart
    <3>3. QED BY <1>8, <2>1, <3>1, <3>2 DEF Apart
  <2>4. QED BY <2>2, <2>3
<1>7. QED BY <1>3, <1>6 DEF WritersDiffer

LEMMA PublishTyped ==
    ASSUME BusInv, QueuesTyped, WritersDiffer, NEW w \in Writers, Publish(w)
    PROVE  QueuesTyped' /\ WritersDiffer'
<1> DEFINE job == writer[w]
           next == IF job.announce THEN [Idle EXCEPT !.pc = "stamp", !.about = job.subject]
                   ELSE Idle
<1>1. /\ job.pc = "publish" /\ published' = published \cup {job.id}
      /\ writer' = [writer EXCEPT ![w] = next]
      /\ UNCHANGED <<silent, interest, answering, left>>
      /\ pending' = [r \in DOMAIN pending |->
           IF r \in Audience(job.subject)
           THEN [pending[r] EXCEPT ![ClientOf[w]] = Append(@, job.id)] ELSE pending[r]]
  BY DEF Publish, AnnounceCreated
<1>2. /\ next.announce = FALSE /\ next.pc # "publish"
      /\ next.pc = "stamp" => next.about \in Subjects
  BY DEF Idle, WritersDiffer, Apart
<1>3. \A v \in Writers : writer'[v] = IF v = w THEN next ELSE writer[v] BY <1>1, JobFacts
<1>4. ASSUME NEW v \in Writers PROVE Apart(v)'
  <2>1. Apart(v) /\ Apart(w) BY DEF WritersDiffer
  <2> HIDE DEF next
  <2>2. CASE v = w BY <1>1, <1>2, <1>3, <2>1, <2>2 DEF Apart
  <2>3. CASE v # w BY <1>1, <1>2, <1>3, <2>1, <2>3 DEF Apart
  <2>4. QED BY <2>2, <2>3
<1>5. \A q \in Seq(published) : q \in Seq(published') /\ Append(q, job.id) \in Seq(published')
  BY <1>1
<1>6. pending' \in [Receivers \cup {Retain} -> [Clients -> Seq(published')]]
  <2>1. pending \in [Receivers \cup {Retain} -> [Clients -> Seq(published)]] BY DEF QueuesTyped
  <2>2. ASSUME NEW r \in Receivers \cup {Retain} PROVE pending'[r] \in [Clients -> Seq(published')]
    BY <1>1, <1>5, <2>1
  <2>3. QED BY <1>1, <2>1, <2>2
<1>7. QueuesTyped' BY <1>1, <1>6 DEF QueuesTyped
<1>8. QED BY <1>4, <1>7 DEF WritersDiffer

LEMMA PublishFailsTyped ==
    ASSUME BusInv, QueuesTyped, WritersDiffer, NEW w \in Writers, PublishFails(w)
    PROVE  QueuesTyped' /\ WritersDiffer'
<1>1. /\ writer[w].pc = "publish" /\ Fault /\ writer' = [writer EXCEPT ![w] = Idle]
      /\ silent' = IF writer[w].subject = Created THEN silent \cup {writer[w].about} ELSE silent
      /\ UNCHANGED <<published, pending, interest, answering>>
  BY DEF PublishFails
<1>2. left' \in Budgets /\ silent' \in SUBSET Subjects
  BY <1>1, Spent DEF QueuesTyped, WritersDiffer, Apart
<1>3. QED BY <1>1, <1>2, IdleTyped

LEMMA BusTyped ==
    ASSUME BusInv, QueuesTyped, WritersDiffer, BusNext
    PROVE  QueuesTyped' /\ WritersDiffer'
<1>0. left \in Budgets /\ silent \in SUBSET Subjects BY DEF QueuesTyped
<1>1. ASSUME NEW w \in Writers, NEW s \in Subjects, Set(w, s)
      PROVE  QueuesTyped' /\ WritersDiffer'
  BY <1>0, <1>1, Spent, SetTyped DEF Set, Call
<1>2. ASSUME NEW w \in Writers, NEW s \in Subjects, Create(w, s)
      PROVE  QueuesTyped' /\ WritersDiffer'
  <2> DEFINE job == [Idle EXCEPT !.pc = "create", !.subject = s, !.about = s]
  <2>1. job \in Jobs /\ job.pc = "create" /\ job.announce = FALSE BY IdleJob DEF Jobs, Idle
  <2>2. /\ writer' = [writer EXCEPT ![w] = job] /\ left' \in Budgets
        /\ UNCHANGED <<published, silent, pending, interest, answering>>
    BY <1>0, <1>2, Spent DEF Create, Call
  <2> HIDE DEF job
  <2>3. QED BY <1>0, <2>1, <2>2, CallTyped
<1>3. ASSUME NEW w \in Writers, CreateLooks(w) PROVE QueuesTyped' /\ WritersDiffer'
  <2>1. /\ writer[w].subject \in Subjects
        /\ UNCHANGED <<published, silent, pending, interest, answering, left>>
        /\ SetBegins(w, writer[w].subject) \/ writer' = [writer EXCEPT ![w] = Idle]
    BY <1>3, JobFacts DEF CreateLooks
  <2>2. QED BY <1>0, <2>1, SetTyped, IdleTyped
<1>4. ASSUME NEW w \in Writers, CreateFails(w) PROVE QueuesTyped' /\ WritersDiffer'
  BY <1>0, <1>4, Spent, IdleTyped DEF CreateFails
<1>5. ASSUME NEW w \in Writers, WriterStep(w) PROVE QueuesTyped' /\ WritersDiffer'
  BY <1>3, <1>4, <1>5, AnnounceTyped, NewMessageTyped, PublishTyped, PublishFailsTyped
     DEF WriterStep
<1>6. ASSUME NEW c \in Clients, HandleIngest(c) PROVE QueuesTyped' /\ WritersDiffer'
  <2>1. /\ pending[Retain][c] # <<>> /\ pending' = [pending EXCEPT ![Retain][c] = Tail(@)]
        /\ UNCHANGED <<published, writer, silent, interest, answering, left>>
    BY <1>6 DEF HandleIngest, clientVars
  <2>2. pending' \in [Receivers \cup {Retain} -> [Clients -> Seq(published)]]
    BY <2>1 DEF QueuesTyped
  <2>3. QED BY <2>1, <2>2 DEF QueuesTyped, WritersDiffer, Apart
<1>7. CASE RetainStalls
  BY <1>7 DEF RetainStalls, clientVars, QueuesTyped, WritersDiffer, Apart
<1>8. QED BY <1>1, <1>2, <1>5, <1>6, <1>7 DEF BusNext

-----------------------------------------------------------------------------
(* A reader and the steps of others. *)

\* What a reader holds is in the log.
LEMMA HeldFacts ==
    ASSUME ReadersInv, NEW r \in Feeds
    PROVE  /\ sub[r] \in Subscriptions /\ history[r] \in Histories /\ ReaderInv(r)
           /\ r \in Receivers /\ r # Retain
           /\ last[r] \in [AllSubjects -> Nat]
           /\ published \subseteq DOMAIN log /\ 0 \notin published
           /\ published \subseteq Nat
           /\ \A id \in published : /\ log[id] \in Messages /\ log[id].subject \in AllSubjects
                                    /\ log[id].at \in Nat /\ log[id].typed \in BOOLEAN
<1>1. log \in Seq(Messages) /\ published \subseteq DOMAIN log
  BY DEF ReadersInv, BusInv, WritersTyped
<1>2. \A id \in published : log[id] \in Messages /\ id \in Nat \ {0} BY <1>1
<1>3. r \in Receivers /\ r # Retain BY FeedAssumption, NameAssumption
<1>4. QED BY <1>1, <1>2, <1>3 DEF ReadersInv, ReadersTyped, Messages

\* Messages of before the step: their subject, their time and their twins stay.
LEMMA LogStays ==
    ASSUME ReadersInv, published \subseteq published',
           \A id \in published : log'[id] = log[id]
    PROVE  \A id \in published : /\ At(id)' = At(id)
                                 /\ Twin(id) => Twin(id)'
BY DEF Twin, At

\* A step of others: it may publish a message, which is queued for the reader if
\* it is for it, and the retain service may ingest messages that were on their way.
LEMMA Undisturbed ==
    ASSUME ReadersInv, NEW r \in Feeds,
           sub'[r] = sub[r], history'[r] = history[r], last'[r] = last[r],
           interest'[r] = interest[r],
           interest[r] = {} => pending'[r] = pending[r],
           \A id \in published : Queued(r, id) => Queued(r, id)',
           \A id \in published' \ published :
             log'[id].subject \in interest[r] => Queued(r, id)',
           published \subseteq published', \A id \in published : log'[id] = log[id],
           \A id \in published : Queued(Retain, id)' => Queued(Retain, id),
           \A s \in AllSubjects : retained'[s] # retained[s] => Queued(Retain, retained'[s])
    PROVE  ReaderInv(r)'
<1>1. /\ ReaderInv(r) /\ sub[r] \in Subscriptions /\ history[r] \in Histories
      /\ 0 \notin published
      /\ \A id \in published : log[id].subject \in AllSubjects
  BY HeldFacts
<1>2. \A id \in published : At(id)' = At(id) /\ (Twin(id) => Twin(id)') BY LogStays
<1>11. history[r].before \cup history[r].after \cup history[r].handled
      \cup history[r].repeated \subseteq published
  BY <1>1 DEF ReaderInv, Published
<1>3. Published(r)' BY <1>1 DEF ReaderInv, Published, Message
<1>4. Life(r)' BY <1>1 DEF ReaderInv, Published, Life, Message, Current
<1>5. \A id \in published : Passed(r, id) => Passed(r, id)'
  <2> SUFFICES ASSUME NEW id \in published, Passed(r, id) PROVE Passed(r, id)' OBVIOUS
  <2>1. last[r][log[id].subject] \in published
    BY <1>1 DEF ReaderInv, Published, Message, Passed
  <2>2. QED BY <1>2, <2>1 DEF Passed
<1>6. Once(r)'
  <2>1. \A s \in AllSubjects : last[r][s] # 0 => last[r][s] \in published
    BY <1>1 DEF ReaderInv, Published, Message
  <2>2. \A id \in history[r].repeated : Twin(id)'
    <3> SUFFICES ASSUME NEW id \in history[r].repeated PROVE Twin(id)' OBVIOUS
    <3>1. Twin(id) /\ id \in published BY <1>11, <1>1 DEF ReaderInv, Once
    <3>2. QED BY <3>1, <1>2
  <2>3. ASSUME NEW id \in published' \ published
        PROVE  id \notin history[r].handled /\ ~LiveHas(r, id) /\ ~CatchUpHas(r, id)
    BY <1>11, <1>1 DEF ReaderInv, Life, LiveHas, CatchUpHas
  <2>4. QED BY <1>1, <1>2, <1>5, <2>1, <2>2, <2>3 DEF ReaderInv, Once, LiveHas, CatchUpHas
<1>7. Arriving(r)'
  <2> SUFFICES ASSUME sub[r].state \notin {"none", "stopping", "stopped"},
                      NEW id \in Routed(r)'
               PROVE  Passed(r, id)' \/ Waiting(r, id)'
    BY DEF Arriving
  <2>1. CASE id \in published
    <3>1. id \in Routed(r) BY <2>1 DEF Routed
    <3>2. Passed(r, id) \/ Waiting(r, id) BY <1>1, <3>1 DEF ReaderInv, Arriving
    <3>3. QED BY <1>5, <2>1, <3>2 DEF Waiting
  <2>2. CASE id \notin published
    <3>1. sub[r].state = "open" /\ id \in published' BY <1>11, <2>2 DEF Routed
    <3>2. log'[id].subject \in interest[r]
      BY <1>1, <3>1 DEF Routed, ReaderInv, Life
    <3>3. QED BY <2>2, <3>1, <3>2 DEF Waiting
  <2>3. QED BY <2>1, <2>2
<1>8. Catching(r)'
  BY <1>11, <1>1, <1>5 DEF ReaderInv, Catching, ToRead, Current
<1>10. QED BY <1>3, <1>4, <1>6, <1>7, <1>8 DEF ReaderInv

\* A step that moves no message.
LEMMA NoMessageMoves ==
    ASSUME ReadersInv, UNCHANGED <<subVars, published, pending, interest, retained>>,
           \A id \in published : log'[id] = log[id]
    PROVE  \A r \in Feeds : ReaderInv(r)'
<1>1. UNCHANGED <<sub, last, history>> BY DEF subVars
<1>2. QED BY <1>1, Undisturbed DEF Queued

LEMMA PublishReaders ==
    ASSUME ReadersInv, UNCHANGED subVars, NEW w \in Writers, Publish(w)
    PROVE  \A r \in Feeds : ReaderInv(r)'
<1> SUFFICES ASSUME NEW r \in Feeds PROVE ReaderInv(r)' OBVIOUS
<1>1. UNCHANGED <<sub, last, history>> BY DEF subVars
<1>2. PICK id, s, c : id = writer[w].id /\ s = writer[w].subject /\ c = ClientOf[w] OBVIOUS
<1>3. /\ writer[w].pc = "publish" /\ published' = published \cup {id}
      /\ UNCHANGED <<log, interest, retained>>
      /\ pending' = [q \in DOMAIN pending |->
           IF q \in Audience(s) THEN [pending[q] EXCEPT ![c] = Append(@, id)]
           ELSE pending[q]]
  BY <1>2 DEF Publish
<1>4. id \notin published BY <1>2, <1>3 DEF ReadersInv, WritersDiffer, Apart
<1>5. /\ id \in DOMAIN log /\ log[id].subject = s /\ c \in Clients /\ BusInv
  BY <1>2, <1>3, JobFacts DEF JobSound, ReadersInv
<1>6. pending \in [Receivers \cup {Retain} -> [Clients -> Seq(published)]]
  BY DEF ReadersInv, QueuesTyped
<1>7. ASSUME NEW q \in Receivers \cup {Retain}, NEW d \in Clients, NEW i
      PROVE  Contains(pending'[q][d], i) <=> (\/ Contains(pending[q][d], i)
                                              \/ q \in Audience(s) /\ d = c /\ i = id)
  <2>1. pending[q][d] \in Seq(published) BY <1>6
  <2>2. pending[q][d] \in Seq(published') BY <2>1, <1>3
  <2>3. CASE q \in Audience(s) /\ d = c
    <3>1. pending'[q][d] = Append(pending[q][d], id) BY <1>3, <1>6, <2>3
    <3>2. id \in published' BY <1>3
    <3>3. QED BY <2>2, <2>3, <3>1, <3>2, QueueFacts
  <2>4. CASE ~(q \in Audience(s) /\ d = c)
    <3>1. pending'[q][d] = pending[q][d] BY <1>3, <1>6, <2>4
    <3>2. QED BY <2>4, <3>1
  <2>5. QED BY <2>3, <2>4
<1>8. \A q \in Receivers \cup {Retain} : \A i : Queued(q, i) => Queued(q, i)' BY <1>7 DEF Queued
<1>9. \A q \in Receivers \cup {Retain}, i \in published : Queued(q, i)' => Queued(q, i)
  BY <1>4, <1>7 DEF Queued
<1>10. r \in Receivers /\ r # Retain BY HeldFacts
<1>11. \A i \in published' \ published : log'[i].subject \in interest[r] => Queued(r, i)'
  <2> SUFFICES ASSUME NEW i \in published' \ published, log'[i].subject \in interest[r]
               PROVE  Queued(r, i)'
    OBVIOUS
  <2>1. i = id /\ r \in Audience(s) BY <1>3, <1>5, <1>10 DEF Audience
  <2>2. Contains(pending'[r][c], i) BY <1>5, <1>7, <1>10, <2>1
  <2>3. QED BY <1>5, <2>2 DEF Queued
<1>12. interest[r] = {} => pending'[r] = pending[r]
  BY <1>3, <1>6, <1>10 DEF Audience
<1>13. QED BY <1>1, <1>3, <1>8, <1>9, <1>10, <1>11, <1>12, Undisturbed

LEMMA IngestReaders ==
    ASSUME ReadersInv, UNCHANGED subVars, NEW c \in Clients, HandleIngest(c)
    PROVE  \A r \in Feeds : ReaderInv(r)'
<1> SUFFICES ASSUME NEW r \in Feeds PROVE ReaderInv(r)' OBVIOUS
<1>1. UNCHANGED <<sub, last, history>> BY DEF subVars
<1>2. PICK q, id : q = pending[Retain][c] /\ id = Head(q) OBVIOUS
<1>3. /\ q # <<>> /\ UNCHANGED <<log, published, interest>>
      /\ retained' = [retained EXCEPT ![log[id].subject] = id]
      /\ pending' = [pending EXCEPT ![Retain][c] = Tail(q)]
  BY <1>2 DEF HandleIngest, clientVars
<1>4. /\ pending \in [Receivers \cup {Retain} -> [Clients -> Seq(published)]]
      /\ q \in Seq(published)
  BY <1>2 DEF ReadersInv, QueuesTyped
<1>5. /\ Contains(q, id) /\ id \in published
      /\ \A y : Contains(Tail(q), y) => Contains(q, y)
  BY <1>2, <1>3, <1>4, QueueFacts
<1>6. \A i : Queued(Retain, i)' => Queued(Retain, i)
  <2> SUFFICES ASSUME NEW i, NEW d \in Clients, Contains(pending'[Retain][d], i)
               PROVE  Contains(pending[Retain][d], i)
    BY DEF Queued
  <2>1. pending'[Retain][d] = IF d = c THEN Tail(q) ELSE pending[Retain][d] BY <1>3, <1>4
  <2>2. QED BY <1>2, <1>5, <2>1
<1>7. Queued(Retain, id) BY <1>2, <1>5 DEF Queued
<1>8. \A s \in AllSubjects : retained'[s] # retained[s] => retained'[s] = id
  BY <1>3 DEF ReadersInv, BusInv, WritersTyped
<1>9. r \in Receivers /\ r # Retain BY HeldFacts
<1>10. pending'[r] = pending[r] BY <1>3, <1>4, <1>9
<1>11. \A i : Queued(r, i) => Queued(r, i)' BY <1>10 DEF Queued
<1>12. \A s \in AllSubjects : retained'[s] # retained[s] => Queued(Retain, retained'[s])
  BY <1>7, <1>8
<1>13. QED BY <1>1, <1>3, <1>6, <1>10, <1>11, <1>12, Undisturbed

LEMMA BusReaders ==
    ASSUME ReadersInv, BusNext, UNCHANGED subVars PROVE \A r \in Feeds : ReaderInv(r)'
<1>1. CASE \E w \in Writers : Publish(w) BY <1>1, PublishReaders
<1>2. CASE \E c \in Clients : HandleIngest(c) BY <1>2, IngestReaders
<1>3. CASE \E w \in Writers : NewMessage(w)
  <2>1. PICK w \in Writers : NewMessage(w) BY <1>3
  <2>2. PICK m : log' = Append(log, m) BY <2>1 DEF NewMessage
  <2>3. log \in Seq(Messages) /\ published \subseteq DOMAIN log
    BY DEF ReadersInv, BusInv, WritersTyped
  <2>4. \A id \in published : log'[id] = log[id] BY <2>2, <2>3
  <2>5. QED BY <2>1, <2>4, NoMessageMoves DEF NewMessage
<1>4. CASE \E w \in Writers : \/ \E s \in Subjects : Set(w, s) \/ Create(w, s)
                              \/ CreateLooks(w) \/ CreateFails(w)
                              \/ ShouldAnnounce(w) \/ ShouldAnnounceFails(w)
                              \/ PublishFails(w)
  <2>1. UNCHANGED <<log, published, pending, interest, retained>>
    BY <1>4 DEF Set, Create, CreateLooks, CreateFails, ShouldAnnounce, ShouldAnnounceFails,
                PublishFails
  <2>2. QED BY <2>1, NoMessageMoves
<1>5. CASE RetainStalls
  BY <1>5, NoMessageMoves DEF RetainStalls, clientVars
<1>6. QED BY <1>1, <1>2, <1>3, <1>4, <1>5 DEF BusNext, WriterStep

\* The watches of exact subscriptions are receivers of their own.
LEMMA ExactReaders ==
    ASSUME ReadersInv, ExactNext, UNCHANGED subVars
    PROVE  QueuesTyped' /\ WritersDiffer' /\ \A r \in Feeds : ReaderInv(r)'
<1>1. /\ pending \in [Receivers \cup {Retain} -> [Clients -> Seq(published)]]
      /\ interest \in [Receivers -> SUBSET AllSubjects] /\ left \in Budgets
  BY DEF ReadersInv, QueuesTyped
<1>2. \A s \in Watchable : /\ WatchOf[s] \in Receivers /\ WatchOf[s] # Retain
                           /\ WatchOf[s] \notin Feeds /\ s \in AllSubjects
  BY WatchAssumption, NameAssumption, ReaderAssumption DEF AllSubjects
<1>3. /\ \A r \in Feeds : r \in Receivers /\ r # Retain
      /\ NoMessages \in [Clients -> Seq(published)]
  BY FeedAssumption, NameAssumption DEF NoMessages
<1> DEFINE Still == /\ UNCHANGED <<clientVars, retained, answering>> /\ left' \in Budgets
                    /\ pending' \in [Receivers \cup {Retain} -> [Clients -> Seq(published)]]
                    /\ interest' \in [Receivers -> SUBSET AllSubjects]
                    /\ pending'[Retain] = pending[Retain]
                    /\ \A r \in Feeds : pending'[r] = pending[r] /\ interest'[r] = interest[r]
<1>4. ASSUME NEW subjects \in SUBSET Watchable, Unwatch(subjects),
             UNCHANGED <<clientVars, retained, answering>>, left' \in Budgets
      PROVE  Still
  BY <1>1, <1>2, <1>3, <1>4 DEF Unwatch
<1>5. Still
  <2>1. CASE SubscribeExact BY <1>1, <2>1, Spent DEF SubscribeExact
  <2>2. CASE \E s \in Watchable, catchUp \in BOOLEAN : Ensure(s, catchUp)
    <3>1. PICK s \in Watchable, catchUp \in BOOLEAN : Ensure(s, catchUp) BY <2>2
    <3>2. interest' = [interest EXCEPT ![WatchOf[s]] = {s}] /\ left' \in Budgets
      BY <1>1, <3>1, Spent DEF Ensure, OwnerCalls
    <3>3. QED BY <1>1, <1>2, <1>3, <3>1, <3>2 DEF Ensure
  <2>3. CASE \E s \in Watchable : RemoveWatch(s)
    <3>1. PICK s \in Watchable : RemoveWatch(s) BY <2>3
    <3>2. left' \in Budgets BY <1>1, <3>1, Spent DEF RemoveWatch, OwnerCalls
    <3>3. {s} \in SUBSET Watchable /\ Unwatch({s}) BY <3>1 DEF RemoveWatch
    <3>4. QED BY <1>4, <3>1, <3>2, <3>3 DEF RemoveWatch
  <2>4. CASE \E s \in Watchable, c \in Clients : TakeWatched(s, c)
    <3>1. PICK s \in Watchable, c \in Clients : TakeWatched(s, c) BY <2>4
    <3>2. /\ pending[WatchOf[s]][c] # <<>>
          /\ pending' = [pending EXCEPT ![WatchOf[s]][c] = Tail(@)]
      BY <3>1 DEF TakeWatched
    <3>3. Tail(pending[WatchOf[s]][c]) \in Seq(published) BY <1>1, <1>2, <3>2
    <3>4. QED BY <1>1, <1>2, <1>3, <3>1, <3>2, <3>3 DEF TakeWatched
  <2>5. CASE AddReads \/ AddFails \/ AddHandles
    BY <1>1, <2>5, Spent DEF AddReads, AddFails, AddHandles, busVars
  <2>6. CASE Dispatch
    BY <1>1, <2>6 DEF Dispatch, Enqueue, GiveUp, SendPanics, Leaves, busVars
  <2>7. CASE \E k \in Workers : Work(k)
    BY <1>1, <2>7 DEF Work, WorkerTakes, WorkerHandles, busVars
  <2>8. CASE StopCancels \/ StopClosesWorkers \/ StopEnds
    BY <1>1, <2>8 DEF StopCancels, StopClosesWorkers, StopEnds, busVars
  <2>9. CASE StopUnsubscribes
    BY <1>1, <1>4, <2>9 DEF StopUnsubscribes
  <2>10. QED BY <2>1, <2>2, <2>3, <2>4, <2>5, <2>6, <2>7, <2>8, <2>9 DEF ExactNext, StopExact
<1>6. QueuesTyped' /\ WritersDiffer'
  BY <1>5 DEF clientVars, ReadersInv, QueuesTyped, WritersDiffer, Apart
<1>7. UNCHANGED <<sub, last, history, log, published, retained>>
  BY <1>5 DEF subVars, clientVars
<1>8. \A r \in Feeds \cup {Retain} : \A i : Queued(r, i)' <=> Queued(r, i) BY <1>5 DEF Queued
<1>9. \A r \in Feeds : ReaderInv(r)' BY <1>5, <1>7, <1>8, Undisturbed
<1>10. QED BY <1>6, <1>9

-----------------------------------------------------------------------------
(* The steps of a reader. *)

\* A step of one reader, from what it makes of its own state.
LEMMA Turn ==
    ASSUME ReadersInv, NEW r \in Feeds, NEW x \in Subscriptions, NEW h \in Histories,
           NEW l \in [AllSubjects -> Nat],
           sub' = [sub EXCEPT ![r] = x], history' = [history EXCEPT ![r] = h],
           last' = [last EXCEPT ![r] = l],
           UNCHANGED <<clientVars, retained>>, QueuesTyped',
           \A q \in Receivers \cup {Retain} : q # r => pending'[q] = pending[q],
           \A q \in Receivers : q # r => interest'[q] = interest[q],
           ReaderInv(r)'
    PROVE  ReadersInv'
<1>1. r \in Receivers /\ r # Retain BY HeldFacts
<1>2. UNCHANGED <<log, published, writer, retained>> BY DEF clientVars
<1>3. Retain \in DOMAIN pending' BY DEF QueuesTyped
<1>4. BusInv' BY <1>1, <1>3, Frame DEF ReadersInv
<1>5. WritersDiffer' BY <1>2 DEF ReadersInv, WritersDiffer, Apart
<1>6. ReadersTyped' BY DEF ReadersInv, ReadersTyped
<1>7. ASSUME NEW q \in Feeds, q # r PROVE ReaderInv(q)'
  <2>1. q \in Receivers /\ q # Retain BY HeldFacts
  <2>2. /\ sub'[q] = sub[q] /\ history'[q] = history[q] /\ last'[q] = last[q]
    BY <1>7 DEF ReadersInv, ReadersTyped
  <2>3. /\ interest'[q] = interest[q] /\ pending'[q] = pending[q]
        /\ pending'[Retain] = pending[Retain]
    BY <1>1, <1>7, <2>1
  <2>4. \A i : (Queued(q, i)' <=> Queued(q, i)) /\ (Queued(Retain, i)' <=> Queued(Retain, i))
    BY <2>3 DEF Queued
  <2>5. QED BY <1>2, <2>2, <2>3, <2>4, Undisturbed
<1>8. QED BY <1>4, <1>5, <1>6, <1>7 DEF ReadersInv

\* What stays when only the catch-up goroutine moves, or only the callback.
SameLive(x, y) ==
    /\ x.state = y.state /\ x.filter = y.filter /\ x.cancelled = y.cancelled
    /\ x.live = y.live /\ x.message = y.message
SameCatchUp(x, y) ==
    /\ x.state = y.state /\ x.filter = y.filter /\ x.cancelled = y.cancelled
    /\ x.catchUp = y.catchUp /\ x.todo = y.todo /\ x.got = y.got

LEMMA NextFacts ==
    ASSUME ReadersInv, NEW r \in Feeds, sub[r].todo # {}, sub' = NextSubject(r)
    PROVE  /\ Current(r) \in sub[r].todo
           /\ \E x \in Subscriptions :
                /\ sub' = [sub EXCEPT ![r] = x] /\ sub'[r] = x /\ SameLive(x, sub[r])
                /\ x.todo = sub[r].todo \ {Current(r)} /\ x.got = 0
                /\ x.catchUp = IF x.todo = {} THEN "done" ELSE "next"
<1> DEFINE rest == sub[r].todo \ {Current(r)}
           pc == IF rest = {} THEN "done" ELSE "next"
           x == [sub[r] EXCEPT !.todo = rest, !.got = 0, !.catchUp = pc]
<1>1. sub \in [Feeds -> Subscriptions] /\ sub[r] \in Subscriptions
  BY DEF ReadersInv, ReadersTyped
<1>2. sub[r].todo \in SUBSET AllSubjects BY <1>1 DEF Subscriptions
<1>3. Current(r) \in sub[r].todo BY <1>2, FirstOf DEF Current
<1>4. x \in Subscriptions BY <1>1, <1>2 DEF Subscriptions
<1>5. SameLive(x, sub[r]) /\ x.todo = rest /\ x.got = 0 /\ x.catchUp = pc
  BY <1>1 DEF Subscriptions, SameLive
<1>6. sub' = [sub EXCEPT ![r] = x] BY <1>1 DEF NextSubject, Subscriptions
<1>7. sub'[r] = x BY <1>1, <1>6
<1>8. QED BY <1>3, <1>4, <1>5, <1>6, <1>7

\* A message that accept lets through becomes the last one; one that it has let
\* through before has a twin.
LEMMA AcceptFacts ==
    ASSUME ReadersInv, NEW r \in Feeds, NEW id \in published, Accept(r, id),
           UNCHANGED <<log, published>>
    PROVE  /\ \E l \in [AllSubjects -> Nat] : last' = [last EXCEPT ![r] = l] /\ last'[r] = l
           /\ \A s \in AllSubjects :
                /\ last'[r][s] \in published \cup {0}
                /\ last'[r][s] # 0 => log[last'[r][s]].subject = s
                /\ last'[r][s] # last[r][s] => /\ Accepts(r, id) /\ s = log[id].subject
                                               /\ last'[r][s] = id
           /\ Accepts(r, id) => /\ last'[r][log[id].subject] = id
                                /\ Passed(r, id) => Twin(id)
           /\ Passed(r, id)'
           /\ \A i \in published : Passed(r, i) => Passed(r, i)'
<1> DEFINE s == log[id].subject
           l == IF Accepts(r, id) THEN [last[r] EXCEPT ![s] = id] ELSE last[r]
<1>1. /\ last \in [Feeds -> [AllSubjects -> Nat]] /\ s \in AllSubjects /\ id \in Nat
      /\ id # 0 /\ Published(r) /\ Once(r)
      /\ \A i \in published : log[i].at \in Nat
  BY HeldFacts DEF ReaderInv, ReadersInv, ReadersTyped
<1>2. last' = [last EXCEPT ![r] = l] /\ last'[r] = l BY <1>1 DEF Accept
<1>3. l \in [AllSubjects -> Nat] BY <1>1
<1>4. \A t \in AllSubjects : last[r][t] \in published \cup {0} BY <1>1 DEF Published, Message
<1>5. ASSUME NEW t \in AllSubjects
      PROVE  /\ last'[r][t] \in published \cup {0}
             /\ last'[r][t] # 0 => log[last'[r][t]].subject = t
             /\ last'[r][t] # last[r][t] => Accepts(r, id) /\ t = s /\ last'[r][t] = id
  BY <1>1, <1>2, <1>4 DEF Once
<1>6. Accepts(r, id) => last'[r][s] = id BY <1>1, <1>2
<1>7. ASSUME Accepts(r, id), Passed(r, id) PROVE Twin(id)
  <2>1. /\ last[r][s] # 0 /\ last[r][s] # id /\ At(id) >= At(last[r][s])
        /\ At(last[r][s]) >= At(id)
    BY <1>7 DEF Accepts, Passed
  <2>2. last[r][s] \in published BY <1>1, <1>4, <2>1
  <2>3. At(id) = At(last[r][s])
    <3>1. At(id) \in Nat /\ At(last[r][s]) \in Nat BY <1>1, <2>2 DEF At
    <3>2. PICK m, n \in Nat : m = At(id) /\ n = At(last[r][s]) BY <3>1
    <3>3. m >= n /\ n >= m BY <2>1, <3>2
    <3>4. m = n BY <3>3
    <3>5. QED BY <3>2, <3>4
  <2>4. log[last[r][s]].subject = s BY <1>1, <2>1 DEF Once
  <2>5. QED BY <2>1, <2>2, <2>3, <2>4 DEF Twin
<1>8. Passed(r, id)'
  <2>1. CASE Accepts(r, id) BY <1>1, <1>6, <2>1 DEF Passed, At
  <2>2. CASE ~Accepts(r, id)
    <3>1. last' = last BY <2>2 DEF Accept
    <3>2. last[r][s] # 0 /\ (last[r][s] = id \/ ~(At(id) >= At(last[r][s])))
      BY <2>2 DEF Accepts
    <3>3. last[r][s] \in published BY <1>1, <1>4, <3>2
    <3>4. QED BY <1>1, <3>1, <3>2, <3>3 DEF Passed, At
  <2>3. QED BY <2>1, <2>2
<1>9. ASSUME NEW i \in published, Passed(r, i) PROVE Passed(r, i)'
  <2> DEFINE t == log[i].subject
  <2>1. t \in AllSubjects BY HeldFacts
  <2>2. CASE last'[r][t] = last[r][t] BY <1>9, <2>2 DEF Passed, At
  <2>3. CASE last'[r][t] # last[r][t]
    <3>1. Accepts(r, id) /\ t = s /\ last'[r][t] = id BY <1>5, <2>1, <2>3
    <3>2. last[r][s] \in published /\ At(last[r][s]) >= At(i) BY <1>1, <1>4, <1>9, <3>1 DEF Passed
    <3>3. At(id) >= At(last[r][s]) BY <1>9, <3>1 DEF Accepts, Passed
    <3>4. log[id].at \in Nat /\ log[last[r][s]].at \in Nat /\ log[i].at \in Nat
      BY <1>1, <3>2
    <3>5. log[id].at >= log[i].at BY <3>2, <3>3, <3>4 DEF At
    <3>6. last'[r][t] # 0 /\ log'[last'[r][t]].at >= log'[i].at BY <1>1, <3>1, <3>5
    <3>7. QED BY <3>6 DEF Passed, At
  <2>4. QED BY <2>2, <2>3
<1> HIDE DEF l
<1>10. QED BY <1>2, <1>3, <1>5, <1>6, <1>7, <1>8, <1>9

\* What a call of the handler leaves behind.
LEMMA CallFacts ==
    ASSUME ReadersInv, NEW r \in Feeds, NEW id \in published,
           history' = [history EXCEPT
             ![r].handled = @ \cup {id},
             ![r].repeated = IF id \in history[r].handled THEN @ \cup {id} ELSE @,
             ![r].late = IF sub[r].state = "stopped" THEN @ + 1 ELSE @]
    PROVE  /\ history'[r] \in Histories /\ history' = [history EXCEPT ![r] = history'[r]]
           /\ history'[r].before = history[r].before /\ history'[r].after = history[r].after
           /\ history'[r].gap = history[r].gap /\ history'[r].failed = history[r].failed
           /\ history'[r].handled = history[r].handled \cup {id}
           /\ history'[r].repeated = IF id \in history[r].handled
                                     THEN history[r].repeated \cup {id}
                                     ELSE history[r].repeated
           /\ history'[r].late = IF sub[r].state = "stopped" THEN history[r].late + 1
                                 ELSE history[r].late
<1> DEFINE repeated == IF id \in history[r].handled THEN history[r].repeated \cup {id}
                       ELSE history[r].repeated
           late == IF sub[r].state = "stopped" THEN history[r].late + 1 ELSE history[r].late
           h == [history[r] EXCEPT !.handled = @ \cup {id}, !.repeated = repeated,
                                   !.late = late]
<1>1. /\ history \in [Feeds -> Histories] /\ history[r] \in Histories
      /\ id \in Nat
  BY HeldFacts DEF ReadersInv, ReadersTyped
<1>2. repeated \in SUBSET Nat /\ late \in Nat BY <1>1 DEF Histories
<1>3. h \in Histories BY <1>1, <1>2 DEF Histories
<1>4. /\ h.before = history[r].before /\ h.after = history[r].after
      /\ h.gap = history[r].gap /\ h.failed = history[r].failed
      /\ h.handled = history[r].handled \cup {id} /\ h.repeated = repeated
      /\ h.late = late
  BY <1>1 DEF Histories
<1>5. history' = [history EXCEPT ![r] = h] BY <1>1 DEF Histories
<1>6. history'[r] = h BY <1>1, <1>5
<1> HIDE DEF h
<1>7. QED BY <1>3, <1>4, <1>5, <1>6

\* A step of a reader that neither accepts a message nor calls the handler.
LEMMA QuietReader ==
    ASSUME ReadersInv, NEW r \in Feeds, UNCHANGED <<log, published>>,
           last'[r] = last[r],
           history'[r].handled = history[r].handled,
           history'[r].repeated = history[r].repeated,
           \A id : LiveHas(r, id)' <=> LiveHas(r, id),
           \A id : CatchUpHas(r, id)' <=> CatchUpHas(r, id),
           \A id \in Routed(r)' : sub'[r].state \notin {"none", "stopping", "stopped"}
             => /\ sub[r].state \notin {"none", "stopping", "stopped"} /\ id \in Routed(r)
                /\ Waiting(r, id) => Waiting(r, id)'
    PROVE  Once(r)' /\ Arriving(r)'
<1>1. Once(r) /\ Arriving(r) /\ Life(r) BY HeldFacts DEF ReaderInv
<1>2. \A id : At(id)' = At(id) /\ (Twin(id)' <=> Twin(id)) BY DEF At, Twin
<1>3. \A id : Passed(r, id)' <=> Passed(r, id) BY <1>2 DEF Passed, At
<1>4. Once(r)' BY <1>1, <1>2, <1>3 DEF Once
<1>5. Arriving(r)' BY <1>1, <1>3 DEF Arriving
<1>7. QED BY <1>4, <1>5

LEMMA SubscribeReader ==
    ASSUME ReadersInv, NEW r \in Feeds, NEW filter \in Filters, Subscribe(r, filter)
    PROVE  ReadersInv'
<1> DEFINE pc == IF filter.listed THEN "list" ELSE "get"
           todo == IF filter.listed THEN {} ELSE filter.subjects
           x == [NoSubscription EXCEPT !.state = "open", !.filter = filter,
                                       !.catchUp = pc, !.todo = todo]
           h == [history[r] EXCEPT !.before = published]
<1>1. /\ sub \in [Feeds -> Subscriptions] /\ history \in [Feeds -> Histories]
      /\ last \in [Feeds -> [AllSubjects -> Nat]]
      /\ QueuesTyped
  BY DEF ReadersInv, ReadersTyped
<1>2. /\ history[r] \in Histories /\ ReaderInv(r) /\ r \in Receivers /\ published \subseteq Nat
  BY HeldFacts
<1>3. /\ filter \in [listed : BOOLEAN, subjects : SUBSET AllSubjects]
      /\ ~filter.listed => filter.subjects # {}
  BY FilterAssumption
<1>4. filter.subjects \in SUBSET AllSubjects BY <1>3
<1>5. x \in Subscriptions BY <1>3, <1>4 DEF Subscriptions, NoSubscription
<1>6. /\ x.state = "open" /\ x.filter = filter /\ x.cancelled = FALSE
      /\ x.catchUp = pc /\ x.todo = todo /\ x.got = 0 /\ x.live = "wait" /\ x.message = 0
  BY DEF NoSubscription
<1>7. h \in Histories BY <1>2 DEF Histories
<1>8. /\ h.before = published /\ h.after = history[r].after /\ h.gap = history[r].gap
      /\ h.failed = history[r].failed
      /\ h.handled = history[r].handled /\ h.repeated = history[r].repeated
      /\ h.late = history[r].late
  BY <1>2 DEF Histories
<1>9. /\ sub[r].state = "none" /\ UNCHANGED <<clientVars, pending, retained, last, answering>>
      /\ sub' = [sub EXCEPT ![r] = x] /\ history' = [history EXCEPT ![r] = h]
      /\ interest' = [interest EXCEPT ![r] = filter.subjects]
      /\ left.subscriptions > 0 /\ left' = [left EXCEPT !.subscriptions = @ - 1]
  BY <1>1, <1>2 DEF Subscribe, Histories
<1>10. /\ sub'[r] = x /\ history'[r] = h /\ UNCHANGED <<log, published>>
  BY <1>1, <1>9 DEF clientVars
<1> HIDE DEF x, h
<1>11. sub[r] = NoSubscription /\ pending[r] = NoMessages /\ history[r].late = 0
  BY <1>2, <1>9 DEF ReaderInv, Life
<1>12. sub[r].live = "wait" /\ sub[r].catchUp = "done" BY <1>11 DEF NoSubscription
<1>13. Published(r)'
  BY <1>2, <1>6, <1>8, <1>9, <1>10 DEF ReaderInv, Published, Message
<1>14. Life(r)'
  <2>1. interest'[r] = filter.subjects BY <1>1, <1>2, <1>9 DEF QueuesTyped
  <2>2. QED BY <1>3, <1>6, <1>8, <1>10, <1>11, <2>1 DEF Life
<1>15. Once(r)' /\ Arriving(r)'
  <2>1. \A id : (LiveHas(r, id)' <=> LiveHas(r, id)) /\ (CatchUpHas(r, id)' <=> CatchUpHas(r, id))
    BY <1>6, <1>10, <1>12 DEF LiveHas, CatchUpHas
  <2>2. Routed(r)' = {} BY <1>6, <1>8, <1>10 DEF Routed
  <2>3. last'[r] = last[r] BY <1>9
  <2>4. QED BY <1>8, <1>10, <2>1, <2>2, <2>3, QuietReader
<1>16. Catching(r)' BY <1>6, <1>10 DEF Catching, ToRead
<1>17. ReaderInv(r)' BY <1>13, <1>14, <1>15, <1>16 DEF ReaderInv
<1>18. QueuesTyped'
  <2>1. left' \in Budgets BY <1>1, <1>9, Spent DEF QueuesTyped
  <2>2. UNCHANGED <<published, silent>> BY <1>9 DEF clientVars
  <2>3. interest' \in [Receivers -> SUBSET AllSubjects] BY <1>1, <1>4, <1>9 DEF QueuesTyped
  <2>4. QED BY <1>1, <1>9, <2>1, <2>2, <2>3 DEF QueuesTyped
<1>19. \A q \in Receivers : q # r => interest'[q] = interest[q] BY <1>1, <1>9 DEF QueuesTyped
<1>20. last[r] \in [AllSubjects -> Nat] BY <1>1
<1>21. last' = [last EXCEPT ![r] = last[r]] BY <1>1, <1>9
<1>22. PICK l : l = last[r] OBVIOUS
<1>23. QED BY <1>5, <1>7, <1>9, <1>17, <1>18, <1>19, <1>20, <1>21, <1>22, Turn

\* A step of a reader that accepts nothing and shows nothing.
LEMMA QuietTurn ==
    ASSUME ReadersInv, NEW r \in Feeds, NEW x \in Subscriptions, NEW h \in Histories,
           sub' = [sub EXCEPT ![r] = x], history' = [history EXCEPT ![r] = h],
           UNCHANGED <<clientVars, retained, last>>, QueuesTyped',
           \A q \in Receivers \cup {Retain} : q # r => pending'[q] = pending[q],
           \A q \in Receivers : q # r => interest'[q] = interest[q],
           ReaderInv(r)'
    PROVE  ReadersInv'
<1>1. last \in [Feeds -> [AllSubjects -> Nat]]
  BY DEF ReadersInv, ReadersTyped
<1>2. PICK l : l = last[r] OBVIOUS
<1>3. l \in [AllSubjects -> Nat] /\ last' = [last EXCEPT ![r] = l]
  BY <1>1, <1>2
<1>4. QED BY <1>3, Turn

SameHistory(h, g) ==
    /\ h.before = g.before /\ h.after = g.after
    /\ h.handled = g.handled /\ h.repeated = g.repeated /\ h.late = g.late

\* A step of the catch-up goroutine up to its call of accept.
LEMMA ReadingTurn ==
    ASSUME ReadersInv, NEW r \in Feeds, NEW x \in Subscriptions, NEW h \in Histories,
           sub' = [sub EXCEPT ![r] = x], history' = [history EXCEPT ![r] = h],
           SameLive(x, sub[r]), SameHistory(h, history[r]), h.gap \subseteq published,
           sub[r].catchUp \notin {"done", "handle"}, x.catchUp # "handle",
           x.todo \subseteq sub[r].filter.subjects, x.got \in published \cup {0},
           x.catchUp \in {"next", "get", "accept"} => x.todo # {},
           x.catchUp = "accept" =>
             x.got \in published /\ log[x.got].subject = First(x.todo),
           UNCHANGED <<clientVars, pending, interest, retained, answering, last>>,
           left' \in Budgets, Catching(r)'
    PROVE  ReadersInv'
<1>1. sub'[r] = x /\ history'[r] = h /\ UNCHANGED <<log, published, silent>>
  BY DEF ReadersInv, ReadersTyped, clientVars
<1>2. ReaderInv(r) BY HeldFacts
<1>3. sub[r].state \notin {"none", "stopped", "drained"}
  BY <1>2 DEF ReaderInv, Life, NoSubscription
<1>4. Published(r)'
  BY <1>1, <1>2 DEF ReaderInv, Published, Message, SameLive, SameHistory
<1>5. Life(r)'
  BY <1>1, <1>2, <1>3 DEF ReaderInv, Life, SameLive, SameHistory, Current
<1>6. Once(r)' /\ Arriving(r)'
  <2>1. \A id : (LiveHas(r, id)' <=> LiveHas(r, id)) /\ (CatchUpHas(r, id)' <=> CatchUpHas(r, id))
    BY <1>1 DEF LiveHas, CatchUpHas, SameLive
  <2>2. /\ Routed(r)' = Routed(r) /\ sub'[r].state = sub[r].state
        /\ \A id : Waiting(r, id)' <=> Waiting(r, id)
    BY <1>1 DEF Routed, Waiting, Queued, SameLive, SameHistory
  <2>3. last'[r] = last[r] OBVIOUS
  <2>4. QED BY <1>1, <2>1, <2>2, <2>3, QuietReader DEF SameHistory
<1>7. ReaderInv(r)' BY <1>4, <1>5, <1>6 DEF ReaderInv
<1>8. QueuesTyped' BY <1>1, QueuesFrame DEF ReadersInv, QueuesTyped
<1>9. QED BY <1>7, <1>8, QuietTurn

\* Messages on their way that the catch-up does not see count as its gap.
LEMMA UnseenFacts ==
    ASSUME ReadersInv, NEW r \in Feeds, NEW S
    PROVE  /\ Unseen(r, S) \subseteq history[r].before
           /\ Unseen(r, S) \subseteq published /\ Unseen(r, S) \subseteq Nat
           /\ \A id \in history[r].before : log[id].subject \in S /\ Queued(Retain, id)
                                            => id \in Unseen(r, S)
<1>1. history[r].before \subseteq published /\ published \subseteq Nat
  BY HeldFacts DEF ReaderInv, Published
<1>2. QED BY <1>1 DEF Unseen, Queued

LEMMA ListReader == ASSUME ReadersInv, NEW r \in Feeds, ListSubjects(r) PROVE ReadersInv'
<1> DEFINE subjects == {s \in sub[r].filter.subjects : retained[s] # 0}
           pc == IF subjects = {} THEN "done" ELSE "next"
           x == [sub[r] EXCEPT !.todo = subjects, !.catchUp = pc]
           gap == history[r].gap \cup Unseen(r, sub[r].filter.subjects \ subjects)
           h == [history[r] EXCEPT !.gap = gap, !.failed = history[r].failed]
<1>1. /\ sub \in [Feeds -> Subscriptions] /\ history \in [Feeds -> Histories]
      /\ left \in Budgets
  BY DEF ReadersInv, ReadersTyped, QueuesTyped
<1>2. /\ history[r] \in Histories /\ sub[r] \in Subscriptions /\ ReaderInv(r) /\ 0 \notin published
  BY HeldFacts
<1>3. /\ sub[r].catchUp = "list" /\ UNCHANGED <<busVars, last>>
      /\ sub' = [sub EXCEPT ![r] = x] /\ history' = [history EXCEPT ![r] = h]
  BY <1>1, <1>2 DEF ListSubjects, Subscriptions, Histories
<1>4. UNCHANGED <<clientVars, pending, interest, retained, answering, left>>
  BY <1>3 DEF busVars
<1>5. subjects \in SUBSET AllSubjects /\ subjects \subseteq sub[r].filter.subjects
  BY <1>2 DEF Subscriptions
<1>6. x \in Subscriptions /\ SameLive(x, sub[r]) /\ x.todo = subjects /\ x.catchUp = pc
      /\ x.got = sub[r].got
  BY <1>2, <1>5 DEF Subscriptions, SameLive
<1>7. gap \in SUBSET Nat /\ gap \subseteq published
  BY <1>2, UnseenFacts DEF Histories, ReaderInv, Published
<1>8. h \in Histories /\ SameHistory(h, history[r]) /\ h.gap = gap
      /\ h.failed = history[r].failed
  <2>1. history[r].failed \in SUBSET AllSubjects BY <1>2 DEF Histories
  <2>2. QED BY <1>2, <1>7, <2>1 DEF Histories, SameHistory
<1> HIDE DEF x, h
<1>9. sub'[r] = x /\ history'[r] = h BY <1>1, <1>3
<1>10. Catching(r)'
  <2> SUFFICES ASSUME NEW id \in history[r].before, log[id].subject \in sub[r].filter.subjects,
                      log[id].subject \notin subjects
               PROVE  (Queued(Retain, id) => id \in gap) /\ retained[log[id].subject] # id
    BY <1>4, <1>6, <1>8, <1>9
       DEF Catching, ToRead, SameLive, SameHistory, Queued, clientVars
  <2>1. id \in published BY <1>2 DEF ReaderInv, Published
  <2>2. retained[log[id].subject] # id BY <1>2, <2>1
  <2>3. QED BY <2>2, UnseenFacts
<1>11. x.got \in published \cup {0} BY <1>2, <1>6 DEF ReaderInv, Published, Message
<1>12. QED BY <1>1, <1>3, <1>4, <1>5, <1>6, <1>7, <1>8, <1>10, <1>11, ReadingTurn

LEMMA ListFailsReader == ASSUME ReadersInv, NEW r \in Feeds, ListFails(r) PROVE ReadersInv'
<1> DEFINE x == [sub[r] EXCEPT !.catchUp = "done"]
           h == [history[r] EXCEPT !.failed = sub[r].filter.subjects]
<1>1. /\ sub \in [Feeds -> Subscriptions] /\ history \in [Feeds -> Histories]
      /\ left \in Budgets
  BY DEF ReadersInv, ReadersTyped, QueuesTyped
<1>2. /\ history[r] \in Histories /\ sub[r] \in Subscriptions /\ ReaderInv(r)
  BY HeldFacts
<1>3. /\ sub[r].catchUp = "list" /\ Unanswered
      /\ UNCHANGED <<clientVars, pending, interest, retained, answering, last>>
      /\ sub' = [sub EXCEPT ![r] = x] /\ history' = [history EXCEPT ![r] = h]
  BY <1>1, <1>2 DEF ListFails, Subscriptions, Histories
<1>4. x \in Subscriptions /\ SameLive(x, sub[r]) /\ x.todo = sub[r].todo
      /\ x.catchUp = "done" /\ x.got = sub[r].got
  BY <1>2 DEF Subscriptions, SameLive
<1>5. h \in Histories /\ SameHistory(h, history[r]) /\ h.gap = history[r].gap
      /\ h.failed = sub[r].filter.subjects
  <2>1. sub[r].filter.subjects \in SUBSET AllSubjects BY <1>2 DEF Subscriptions
  <2>2. QED BY <1>2, <2>1 DEF Histories, SameHistory
<1> HIDE DEF x, h
<1>6. sub'[r] = x /\ history'[r] = h BY <1>1, <1>3
<1>7. Catching(r)' BY <1>4, <1>5, <1>6 DEF Catching, SameLive
<1>8. /\ x.got \in published \cup {0} /\ x.todo \subseteq sub[r].filter.subjects
      /\ h.gap \subseteq published
  BY <1>2, <1>4, <1>5 DEF ReaderInv, Published, Message
<1>9. left' \in Budgets BY <1>1, <1>3, Spent
<1>10. QED BY <1>3, <1>4, <1>5, <1>7, <1>8, <1>9, ReadingTurn

LEMMA LoopReader == ASSUME ReadersInv, NEW r \in Feeds, LoopChecksContext(r) PROVE ReadersInv'
<1> DEFINE pc == IF sub[r].cancelled THEN "done" ELSE "get"
           x == [sub[r] EXCEPT !.catchUp = pc]
<1>1. /\ sub \in [Feeds -> Subscriptions] /\ history \in [Feeds -> Histories]
      /\ left \in Budgets
  BY DEF ReadersInv, ReadersTyped, QueuesTyped
<1>2. /\ history[r] \in Histories /\ sub[r] \in Subscriptions /\ ReaderInv(r)
  BY HeldFacts
<1>3. /\ sub[r].catchUp = "next" /\ UNCHANGED <<busVars, last, history>>
      /\ sub' = [sub EXCEPT ![r] = x]
  BY <1>1, <1>2 DEF LoopChecksContext, Subscriptions
<1>4. UNCHANGED <<clientVars, pending, interest, retained, answering, left>>
  BY <1>3 DEF busVars
<1>5. x \in Subscriptions /\ SameLive(x, sub[r]) /\ x.todo = sub[r].todo
      /\ x.catchUp = pc /\ x.got = sub[r].got
  BY <1>2 DEF Subscriptions, SameLive
<1> HIDE DEF x
<1>6. PICK h : h = history[r] OBVIOUS
<1>7. history' = [history EXCEPT ![r] = h] BY <1>1, <1>3, <1>6
<1>8. sub'[r] = x /\ history'[r] = history[r] BY <1>1, <1>3
<1>9. Catching(r)'
  <2>1. sub'[r].state = "open" => sub[r].state = "open" /\ x.catchUp = "get"
    BY <1>2, <1>5, <1>8 DEF ReaderInv, Life, SameLive
  <2>2. \A id : /\ Passed(r, id)' <=> Passed(r, id)
                /\ Queued(Retain, id)' <=> Queued(Retain, id)
    BY <1>3, <1>4 DEF Passed, Queued, At, clientVars
  <2>3. UNCHANGED <<log, retained>> BY <1>4 DEF clientVars
  <2>4. Catching(r) BY <1>2 DEF ReaderInv
  <2>5. QED BY <1>3, <1>5, <1>8, <2>1, <2>2, <2>3, <2>4 DEF Catching, ToRead, SameLive
<1>10. /\ x.got \in published \cup {0} /\ x.todo \subseteq sub[r].filter.subjects
       /\ h.gap \subseteq published /\ x.todo # {}
  BY <1>2, <1>3, <1>5, <1>6 DEF ReaderInv, Published, Life, Message
<1>11. h \in Histories /\ SameHistory(h, history[r]) BY <1>2, <1>6 DEF SameHistory
<1>12. QED BY <1>1, <1>3, <1>4, <1>5, <1>7, <1>9, <1>10, <1>11, ReadingTurn

LEMMA GetReader == ASSUME ReadersInv, NEW r \in Feeds, GetPayload(r) PROVE ReadersInv'
<1> DEFINE s == Current(r)
           gap == history[r].gap \cup Unseen(r, {s})
           h == [history[r] EXCEPT !.gap = gap]
<1>1. /\ sub \in [Feeds -> Subscriptions] /\ history \in [Feeds -> Histories]
      /\ left \in Budgets /\ retained \in [AllSubjects -> published \cup {0}]
  BY DEF ReadersInv, ReadersTyped, QueuesTyped, BusInv, WritersTyped
<1>2. /\ history[r] \in Histories /\ sub[r] \in Subscriptions /\ ReaderInv(r)
      /\ 0 \notin published /\ published \subseteq Nat
  BY HeldFacts
<1>3. /\ sub[r].catchUp = "get" /\ UNCHANGED <<busVars, last>>
      /\ sub' = IF retained[s] = 0 THEN NextSubject(r)
                ELSE [sub EXCEPT ![r].catchUp = "accept", ![r].got = retained[s]]
      /\ history' = [history EXCEPT ![r] = h]
  BY <1>1, <1>2 DEF GetPayload, Histories
<1>4. /\ UNCHANGED <<clientVars, pending, interest, retained, answering, left>>
      /\ UNCHANGED log
  BY <1>3 DEF busVars, clientVars
<1>5. /\ sub[r].todo # {} /\ sub[r].todo \in SUBSET AllSubjects
      /\ sub[r].todo \subseteq sub[r].filter.subjects
  BY <1>2, <1>3 DEF ReaderInv, Life, Published, Subscriptions
<1>6. s \in sub[r].todo BY <1>5, FirstOf DEF Current
<1>7. gap \in SUBSET Nat /\ gap \subseteq published
  BY <1>2, UnseenFacts DEF Histories, ReaderInv, Published
<1>8. h \in Histories /\ SameHistory(h, history[r]) /\ h.gap = gap
      /\ h.failed = history[r].failed
  BY <1>2, <1>7 DEF Histories, SameHistory
<1> HIDE DEF h
<1>9. history'[r] = h BY <1>1, <1>3
<1>10. PICK x \in Subscriptions :
         /\ sub' = [sub EXCEPT ![r] = x] /\ sub'[r] = x /\ SameLive(x, sub[r])
         /\ \/ /\ retained[s] = 0 /\ x.todo = sub[r].todo \ {s} /\ x.got = 0
               /\ x.catchUp = IF x.todo = {} THEN "done" ELSE "next"
            \/ /\ retained[s] # 0 /\ x.todo = sub[r].todo /\ x.got = retained[s]
               /\ x.catchUp = "accept"
  <2>1. CASE retained[s] = 0 BY <1>3, <1>5, <2>1, NextFacts
  <2>2. CASE retained[s] # 0
    <3> DEFINE x == [sub[r] EXCEPT !.catchUp = "accept", !.got = retained[s]]
    <3>0. s \in AllSubjects BY <1>5, <1>6
    <3>4. retained[s] \in published BY <1>1, <2>2, <3>0
    <3>1. retained[s] \in Nat BY <1>2, <3>4
    <3>2. /\ x \in Subscriptions /\ SameLive(x, sub[r]) /\ x.todo = sub[r].todo
          /\ x.got = retained[s] /\ x.catchUp = "accept"
      BY <1>2, <3>1 DEF Subscriptions, SameLive
    <3>3. sub' = [sub EXCEPT ![r] = x] /\ sub'[r] = x
      BY <1>1, <1>2, <1>3, <2>2 DEF Subscriptions
    <3> HIDE DEF x
    <3>5. QED BY <2>2, <3>2, <3>3
  <2>3. QED BY <2>1, <2>2
<1>11. Catching(r)'
  <2> SUFFICES ASSUME NEW id \in history[r].before, sub[r].state = "open",
                      log[id].subject \in sub[r].filter.subjects \ history[r].failed,
                      ~ToRead(r, log[id].subject)'
               PROVE  /\ Queued(Retain, id) => id \in gap
                      /\ retained[log[id].subject] = id
                         => \/ id \in gap \/ Passed(r, id)
                            \/ x.catchUp = "accept" /\ x.got = id
    BY <1>3, <1>4, <1>8, <1>9, <1>10
       DEF Catching, SameLive, SameHistory, Queued, Passed, At
  <2>1. id \in published BY <1>2 DEF ReaderInv, Published
  <2>2. Current(r)' = IF retained[s] = 0 THEN First(x.todo) ELSE s BY <1>10 DEF Current
  <2>3. CASE log[id].subject = s
    <3>1. Queued(Retain, id) => id \in gap BY <2>3, UnseenFacts
    <3>2. QED BY <1>2, <1>10, <2>1, <2>3, <3>1
  <2>4. CASE log[id].subject # s
    <3>1. log[id].subject \notin sub[r].todo
      <4>1. CASE retained[s] = 0 /\ x.todo = {} BY <1>10, <2>4, <4>1
      <4>2. CASE retained[s] = 0 /\ x.todo # {}
        <5>1. sub'[r].catchUp = "next" /\ sub'[r].todo = sub[r].todo \ {s} BY <1>10, <4>2
        <5>2. log[id].subject \notin sub[r].todo \ {s} BY <1>4, <5>1 DEF ToRead
        <5>3. QED BY <2>4, <5>2
      <4>3. CASE retained[s] # 0
        <5>1. sub'[r].catchUp = "accept" /\ sub'[r].todo = sub[r].todo BY <1>10, <4>3
        <5>2. log[id].subject \notin sub[r].todo \ {s} BY <1>4, <2>2, <4>3, <5>1 DEF ToRead
        <5>3. QED BY <2>4, <5>2
      <4>4. QED BY <4>1, <4>2, <4>3
    <3>2. ~ToRead(r, log[id].subject) BY <1>3, <3>1 DEF ToRead
    <3>3. QED BY <1>2, <1>3, <3>2 DEF ReaderInv, Catching
  <2>5. QED BY <2>3, <2>4
<1>12. x.catchUp = "accept" => x.got \in published /\ log[x.got].subject = First(x.todo)
  <2>1. s \in AllSubjects BY <1>5, <1>6
  <2>2. \A t \in AllSubjects : retained[t] # 0 => log[retained[t]].subject = t
    BY DEF ReadersInv, BusInv, KnownWritten
  <2>3. QED BY <1>1, <1>10, <2>1, <2>2 DEF Current
<1>13. x.got \in published \cup {0} /\ x.todo \subseteq sub[r].filter.subjects
  BY <1>5, <1>10, <1>12
<1>14. /\ x.catchUp \in {"next", "get", "accept"} => x.todo # {}
       /\ x.catchUp # "handle"
  BY <1>5, <1>10
<1>15. QED
  BY <1>1, <1>3, <1>4, <1>7, <1>8, <1>10, <1>11, <1>12, <1>13, <1>14, ReadingTurn

LEMMA GetFailsReader == ASSUME ReadersInv, NEW r \in Feeds, GetFails(r) PROVE ReadersInv'
<1> DEFINE s == Current(r)
           failed == history[r].failed \cup {s}
           h == [history[r] EXCEPT !.failed = failed]
<1>1. /\ sub \in [Feeds -> Subscriptions] /\ history \in [Feeds -> Histories]
      /\ left \in Budgets
  BY DEF ReadersInv, ReadersTyped, QueuesTyped
<1>2. /\ history[r] \in Histories /\ sub[r] \in Subscriptions /\ ReaderInv(r)
  BY HeldFacts
<1>3. /\ sub[r].catchUp = "get" /\ sub' = NextSubject(r)
      /\ UNCHANGED <<clientVars, pending, interest, retained, answering, last>>
      /\ history' = [history EXCEPT ![r] = h]
  BY <1>1, <1>2 DEF GetFails, Histories
<1>4. left' \in Budgets BY <1>1, Spent DEF GetFails
<1>5. /\ sub[r].todo # {} /\ sub[r].todo \in SUBSET AllSubjects
      /\ sub[r].todo \subseteq sub[r].filter.subjects
  BY <1>2, <1>3 DEF ReaderInv, Life, Published, Subscriptions
<1>6. s \in sub[r].todo BY <1>5, FirstOf DEF Current
<1>7. failed \in SUBSET AllSubjects BY <1>2, <1>5, <1>6 DEF Histories
<1>8. h \in Histories /\ SameHistory(h, history[r]) /\ h.gap = history[r].gap
      /\ h.failed = failed
  BY <1>2, <1>7 DEF Histories, SameHistory
<1> HIDE DEF h
<1>9. history'[r] = h /\ UNCHANGED log BY <1>1, <1>3 DEF clientVars
<1>10. PICK x \in Subscriptions :
         /\ sub' = [sub EXCEPT ![r] = x] /\ sub'[r] = x /\ SameLive(x, sub[r])
         /\ x.todo = sub[r].todo \ {s} /\ x.got = 0
         /\ x.catchUp = IF x.todo = {} THEN "done" ELSE "next"
  BY <1>3, <1>5, NextFacts
<1>11. Catching(r)'
  <2> SUFFICES ASSUME NEW id \in history[r].before, sub[r].state = "open",
                      log[id].subject \in sub[r].filter.subjects \ failed,
                      ~ToRead(r, log[id].subject)'
               PROVE  /\ Queued(Retain, id) => id \in history[r].gap
                      /\ retained[log[id].subject] = id
                         => id \in history[r].gap \/ Passed(r, id)
    BY <1>3, <1>8, <1>9, <1>10 DEF Catching, SameLive, SameHistory, Queued, Passed, At
  <2>1. log[id].subject \notin sub[r].todo
    <3>1. CASE x.todo = {} BY <1>10, <3>1
    <3>2. CASE x.todo # {}
      <4>1. sub'[r].catchUp = "next" /\ sub'[r].todo = sub[r].todo \ {s} BY <1>10, <3>2
      <4>2. log[id].subject \notin sub[r].todo \ {s} BY <1>9, <4>1 DEF ToRead
      <4>3. QED BY <4>2
    <3>3. QED BY <3>1, <3>2
  <2>2. ~ToRead(r, log[id].subject) BY <1>3, <2>1 DEF ToRead
  <2>3. QED BY <1>2, <1>3, <2>2 DEF ReaderInv, Catching
<1>12. h.gap \subseteq published BY <1>2, <1>8 DEF ReaderInv, Published
<1>13. /\ x.got \in published \cup {0} /\ x.todo \subseteq sub[r].filter.subjects
       /\ x.catchUp \in {"next", "get", "accept"} => x.todo # {}
       /\ x.catchUp \notin {"accept", "handle"}
  BY <1>5, <1>10
<1>14. QED BY <1>3, <1>4, <1>8, <1>10, <1>11, <1>12, <1>13, ReadingTurn

\* After the goroutine has gone on, the subjects to read are the ones of before.
LEMMA NextToRead ==
    ASSUME NEW r \in Feeds, sub[r].catchUp \in {"accept", "handle"},
           sub'[r].todo = sub[r].todo \ {Current(r)},
           sub'[r].catchUp = IF sub'[r].todo = {} THEN "done" ELSE "next"
    PROVE  \A s : ToRead(r, s)' <=> ToRead(r, s)
<1> SUFFICES ASSUME NEW s PROVE ToRead(r, s)' <=> ToRead(r, s) OBVIOUS
<1>1. ToRead(r, s) <=> s \in sub'[r].todo BY DEF ToRead
<1>2. CASE sub'[r].todo = {} BY <1>1, <1>2 DEF ToRead
<1>3. CASE sub'[r].todo # {}
  <2>1. sub'[r].catchUp = "next" BY <1>3
  <2>2. ToRead(r, s)' <=> s \in sub'[r].todo BY <2>1 DEF ToRead
  <2>3. QED BY <1>1, <2>2
<1>4. QED BY <1>2, <1>3

LEMMA CatchUpAcceptsReader ==
    ASSUME ReadersInv, NEW r \in Feeds, CatchUpAccepts(r) PROVE ReadersInv'
<1>1. /\ sub \in [Feeds -> Subscriptions] /\ history \in [Feeds -> Histories]
      /\ QueuesTyped
  BY DEF ReadersInv, ReadersTyped
<1>2. /\ history[r] \in Histories /\ sub[r] \in Subscriptions /\ ReaderInv(r)
  BY HeldFacts
<1>3. PICK g : g = sub[r].got OBVIOUS
<1>4. /\ sub[r].catchUp = "accept" /\ Accept(r, g) /\ UNCHANGED <<busVars, history>>
      /\ sub' = IF Delivers(r, g) THEN [sub EXCEPT ![r].catchUp = "handle"]
                ELSE NextSubject(r)
  BY <1>3 DEF CatchUpAccepts
<1>5. UNCHANGED <<clientVars, pending, interest, retained, answering, left, log, published>>
  BY <1>4 DEF busVars, clientVars
<1>6. /\ g \in published /\ log[g].subject = Current(r) /\ sub[r].todo # {}
      /\ sub[r].todo \subseteq sub[r].filter.subjects
  BY <1>2, <1>3, <1>4 DEF ReaderInv, Life, Published
<1>7. PICK x \in Subscriptions :
        /\ sub' = [sub EXCEPT ![r] = x] /\ sub'[r] = x /\ SameLive(x, sub[r])
        /\ \/ /\ Delivers(r, g) /\ x.todo = sub[r].todo /\ x.got = g /\ x.catchUp = "handle"
           \/ /\ ~Delivers(r, g) /\ x.todo = sub[r].todo \ {Current(r)} /\ x.got = 0
              /\ x.catchUp = IF x.todo = {} THEN "done" ELSE "next"
  <2>1. CASE ~Delivers(r, g) BY <1>4, <1>6, <2>1, NextFacts
  <2>2. CASE Delivers(r, g)
    <3> DEFINE x == [sub[r] EXCEPT !.catchUp = "handle"]
    <3>1. /\ x \in Subscriptions /\ SameLive(x, sub[r]) /\ x.todo = sub[r].todo
          /\ x.got = g /\ x.catchUp = "handle"
      BY <1>2, <1>3 DEF Subscriptions, SameLive
    <3>2. sub' = [sub EXCEPT ![r] = x] /\ sub'[r] = x
      BY <1>1, <1>2, <1>4, <2>2 DEF Subscriptions
    <3> HIDE DEF x
    <3>3. QED BY <2>2, <3>1, <3>2
  <2>3. QED BY <2>1, <2>2
<1>8. PICK l \in [AllSubjects -> Nat] : last' = [last EXCEPT ![r] = l] /\ last'[r] = l
  BY <1>4, <1>5, <1>6, AcceptFacts
<1>9. /\ \A s \in AllSubjects :
           /\ last'[r][s] \in published \cup {0}
           /\ last'[r][s] # 0 => log[last'[r][s]].subject = s
           /\ last'[r][s] # last[r][s] => Accepts(r, g) /\ last'[r][s] = g
      /\ Accepts(r, g) /\ Passed(r, g) => Twin(g)
      /\ Passed(r, g)'
      /\ \A i \in published : Passed(r, i) => Passed(r, i)'
  BY <1>4, <1>5, <1>6, AcceptFacts
<1>10. history'[r] = history[r] BY <1>4
<1>11. \A i : LiveHas(r, i)' <=> LiveHas(r, i) BY <1>7 DEF LiveHas, SameLive
<1>12. \A i : CatchUpHas(r, i)' <=> i = g /\ Delivers(r, g) BY <1>7 DEF CatchUpHas
<1>13. \A i : ~CatchUpHas(r, i) BY <1>4 DEF CatchUpHas
<1>14. Published(r)'
  BY <1>2, <1>5, <1>6, <1>7, <1>9, <1>10 DEF ReaderInv, Published, Message, SameLive
<1>15. Life(r)'
  <2>1. x.catchUp \in {"accept", "handle"} => x.got \in published /\ log[x.got].subject = First(x.todo)
    BY <1>6, <1>7 DEF Current
  <2>2. sub[r].state \notin {"none", "stopped", "drained"}
    BY <1>2, <1>4 DEF ReaderInv, Life, NoSubscription
  <2>3. x.catchUp \in {"next", "get", "accept", "handle"} => x.todo # {} BY <1>6, <1>7
  <2>4. QED BY <1>2, <1>5, <1>7, <1>10, <2>1, <2>2, <2>3 DEF ReaderInv, Life, SameLive, Current
<1>16. Once(r)'
  <2>1. Once(r) /\ Published(r) BY <1>2 DEF ReaderInv
  <2>2. \A i : Twin(i)' <=> Twin(i) BY <1>5 DEF Twin, At
  <2>3. ASSUME NEW i \in published
        PROVE  /\ (i \in history[r].handled \/ LiveHas(r, i)' \/ CatchUpHas(r, i)')
                  => Passed(r, i)'
               /\ i \in history[r].handled /\ (LiveHas(r, i)' \/ CatchUpHas(r, i)') => Twin(i)
               /\ LiveHas(r, i)' /\ CatchUpHas(r, i)' => Twin(i)
    BY <1>9, <1>11, <1>12, <1>13, <2>1 DEF Once, Delivers
  <2>4. QED BY <1>5, <1>9, <1>10, <2>1, <2>2, <2>3 DEF Once
<1>17. Arriving(r)'
  <2>1. /\ Routed(r)' = Routed(r) /\ Routed(r) \subseteq published
        /\ \A i : Waiting(r, i)' <=> Waiting(r, i)
    BY <1>2, <1>5, <1>7, <1>10 DEF Routed, Waiting, Queued, SameLive, ReaderInv, Published
  <2>2. QED BY <1>2, <1>7, <1>9, <2>1 DEF ReaderInv, Arriving, SameLive
<1>18. Catching(r)'
  <2>1. \A s : ToRead(r, s)' <=> ToRead(r, s)
    <3>1. CASE Delivers(r, g) BY <1>4, <1>7, <3>1 DEF ToRead, Current
    <3>2. CASE ~Delivers(r, g) BY <1>4, <1>7, <3>2, NextToRead
    <3>3. QED BY <3>1, <3>2
  <2>2. \A i : Queued(Retain, i)' <=> Queued(Retain, i) BY <1>5 DEF Queued
  <2>3. /\ sub'[r].state = sub[r].state /\ sub'[r].filter = sub[r].filter BY <1>7 DEF SameLive
  <2>4. Catching(r) /\ history[r].before \subseteq published BY <1>2 DEF ReaderInv, Published
  <2>5. QED BY <1>3, <1>5, <1>9, <1>10, <2>1, <2>2, <2>3, <2>4 DEF Catching
<1>20. ReaderInv(r)' BY <1>14, <1>15, <1>16, <1>17, <1>18 DEF ReaderInv
<1>21. QueuesTyped' BY <1>1, <1>5, QueuesFrame DEF QueuesTyped, clientVars
<1>22. PICK h : h = history[r] OBVIOUS
<1>23. h \in Histories /\ history' = [history EXCEPT ![r] = h]
  BY <1>1, <1>4, <1>22
<1>24. QED BY <1>5, <1>7, <1>8, <1>20, <1>21, <1>23, Turn

LEMMA LiveAcceptsReader ==
    ASSUME ReadersInv, NEW r \in Feeds, LiveAccepts(r) PROVE ReadersInv'
<1>1. /\ sub \in [Feeds -> Subscriptions] /\ history \in [Feeds -> Histories]
      /\ QueuesTyped
  BY DEF ReadersInv, ReadersTyped
<1>2. /\ history[r] \in Histories /\ sub[r] \in Subscriptions /\ ReaderInv(r)
  BY HeldFacts
<1>3. PICK g : g = sub[r].message OBVIOUS
<1>4. /\ sub[r].live = "accept" /\ Accept(r, g) /\ UNCHANGED <<busVars, history>>
      /\ sub' = IF Delivers(r, g) THEN [sub EXCEPT ![r].live = "handle"]
                ELSE [sub EXCEPT ![r].live = "wait", ![r].message = 0]
  BY <1>3 DEF LiveAccepts
<1>5. UNCHANGED <<clientVars, pending, interest, retained, answering, left, log, published>>
  BY <1>4 DEF busVars, clientVars
<1>6. g \in published BY <1>2, <1>3, <1>4 DEF ReaderInv, Life
<1>7. PICK x \in Subscriptions :
        /\ sub' = [sub EXCEPT ![r] = x] /\ sub'[r] = x /\ SameCatchUp(x, sub[r])
        /\ \/ Delivers(r, g) /\ x.live = "handle" /\ x.message = g
           \/ ~Delivers(r, g) /\ x.live = "wait" /\ x.message = 0
  <2>1. CASE Delivers(r, g)
    <3> DEFINE x == [sub[r] EXCEPT !.live = "handle"]
    <3>1. x \in Subscriptions /\ SameCatchUp(x, sub[r]) /\ x.live = "handle" /\ x.message = g
      BY <1>2, <1>3 DEF Subscriptions, SameCatchUp
    <3>2. sub' = [sub EXCEPT ![r] = x] /\ sub'[r] = x
      BY <1>1, <1>2, <1>4, <2>1 DEF Subscriptions
    <3> HIDE DEF x
    <3>3. QED BY <2>1, <3>1, <3>2
  <2>2. CASE ~Delivers(r, g)
    <3> DEFINE x == [sub[r] EXCEPT !.live = "wait", !.message = 0]
    <3>1. x \in Subscriptions /\ SameCatchUp(x, sub[r]) /\ x.live = "wait" /\ x.message = 0
      BY <1>2 DEF Subscriptions, SameCatchUp
    <3>2. sub' = [sub EXCEPT ![r] = x] /\ sub'[r] = x
      BY <1>1, <1>2, <1>4, <2>2 DEF Subscriptions
    <3> HIDE DEF x
    <3>3. QED BY <2>2, <3>1, <3>2
  <2>3. QED BY <2>1, <2>2
<1>8. PICK l \in [AllSubjects -> Nat] : last' = [last EXCEPT ![r] = l] /\ last'[r] = l
  BY <1>4, <1>5, <1>6, AcceptFacts
<1>9. /\ \A s \in AllSubjects :
           /\ last'[r][s] \in published \cup {0}
           /\ last'[r][s] # 0 => log[last'[r][s]].subject = s
           /\ last'[r][s] # last[r][s] => Accepts(r, g) /\ last'[r][s] = g
      /\ Accepts(r, g) => last'[r][log[g].subject] = g
      /\ Accepts(r, g) /\ Passed(r, g) => Twin(g)
      /\ Passed(r, g)'
      /\ \A i \in published : Passed(r, i) => Passed(r, i)'
  BY <1>4, <1>5, <1>6, AcceptFacts
<1>10. history'[r] = history[r] BY <1>4
<1>11. \A i : CatchUpHas(r, i)' <=> CatchUpHas(r, i) BY <1>7 DEF CatchUpHas, SameCatchUp
<1>12. \A i : LiveHas(r, i)' <=> i = g /\ Delivers(r, g) BY <1>7 DEF LiveHas
<1>13. \A i : ~LiveHas(r, i) BY <1>4 DEF LiveHas
<1>14. Published(r)'
  BY <1>2, <1>5, <1>6, <1>7, <1>9, <1>10 DEF ReaderInv, Published, Message, SameCatchUp
<1>15. Life(r)'
  <2>1. sub[r].state # "none" BY <1>2, <1>4 DEF ReaderInv, Life, NoSubscription
  <2>2. history[r].late = 0 BY <1>2, <1>4 DEF ReaderInv, Life
  <2>3. QED BY <1>2, <1>5, <1>6, <1>7, <1>10, <2>1, <2>2
        DEF ReaderInv, Life, SameCatchUp, Current
<1>16. Once(r)'
  <2>1. Once(r) /\ Published(r) BY <1>2 DEF ReaderInv
  <2>2. \A i : Twin(i)' <=> Twin(i) BY <1>5 DEF Twin, At
  <2>3. ASSUME NEW i \in published
        PROVE  /\ (i \in history[r].handled \/ LiveHas(r, i)' \/ CatchUpHas(r, i)')
                  => Passed(r, i)'
               /\ i \in history[r].handled /\ (LiveHas(r, i)' \/ CatchUpHas(r, i)') => Twin(i)
               /\ LiveHas(r, i)' /\ CatchUpHas(r, i)' => Twin(i)
    BY <1>9, <1>11, <1>12, <1>13, <2>1 DEF Once, Delivers
  <2>4. QED BY <1>5, <1>9, <1>10, <2>1, <2>2, <2>3 DEF Once
<1>17. Arriving(r)'
  <2>1. Routed(r)' = Routed(r) /\ Routed(r) \subseteq published
    BY <1>2, <1>5, <1>7, <1>10 DEF Routed, SameCatchUp, ReaderInv, Published
  <2>2. \A i : Waiting(r, i) => Waiting(r, i)' \/ i = g
    BY <1>3, <1>5 DEF Waiting, Queued
  <2>3. QED BY <1>2, <1>7, <1>9, <2>1, <2>2 DEF ReaderInv, Arriving, SameCatchUp
<1>18. Catching(r)'
  <2>1. \A s : ToRead(r, s)' <=> ToRead(r, s) BY <1>7 DEF ToRead, Current, SameCatchUp
  <2>2. \A i : Queued(Retain, i)' <=> Queued(Retain, i) BY <1>5 DEF Queued
  <2>3. Catching(r) /\ history[r].before \subseteq published BY <1>2 DEF ReaderInv, Published
  <2>4. QED BY <1>5, <1>7, <1>9, <1>10, <2>1, <2>2, <2>3 DEF Catching, SameCatchUp
<1>20. ReaderInv(r)' BY <1>14, <1>15, <1>16, <1>17, <1>18 DEF ReaderInv
<1>21. QueuesTyped' BY <1>1, <1>5, QueuesFrame DEF QueuesTyped, clientVars
<1>22. PICK h : h = history[r] OBVIOUS
<1>23. h \in Histories /\ history' = [history EXCEPT ![r] = h]
  BY <1>1, <1>4, <1>22
<1>24. QED BY <1>5, <1>7, <1>8, <1>20, <1>21, <1>23, Turn

LEMMA CatchUpHandlesReader ==
    ASSUME ReadersInv, NEW r \in Feeds, CatchUpHandles(r) PROVE ReadersInv'
<1>1. /\ last \in [Feeds -> [AllSubjects -> Nat]] /\ QueuesTyped
  BY DEF ReadersInv, ReadersTyped
<1>2. /\ history[r] \in Histories /\ sub[r] \in Subscriptions /\ ReaderInv(r)
  BY HeldFacts
<1>3. PICK g : g = sub[r].got OBVIOUS
<1>4. /\ sub[r].catchUp = "handle" /\ CallHandler(r, g) /\ UNCHANGED <<busVars, last>>
      /\ sub' = NextSubject(r)
  BY <1>3 DEF CatchUpHandles
<1>5. UNCHANGED <<clientVars, pending, interest, retained, answering, left, log, published>>
  BY <1>4 DEF busVars, clientVars
<1>6. g \in published /\ sub[r].todo # {} /\ sub[r].todo \subseteq sub[r].filter.subjects
  BY <1>2, <1>3, <1>4 DEF ReaderInv, Life, Published
<1>7. PICK x \in Subscriptions :
        /\ sub' = [sub EXCEPT ![r] = x] /\ sub'[r] = x /\ SameLive(x, sub[r])
        /\ x.todo = sub[r].todo \ {Current(r)} /\ x.got = 0
        /\ x.catchUp = IF x.todo = {} THEN "done" ELSE "next"
  BY <1>4, <1>6, NextFacts
<1>8. sub[r].state \notin {"none", "stopped", "drained"}
  BY <1>2, <1>4 DEF ReaderInv, Life, NoSubscription
<1>9. PICK h : h = history'[r] OBVIOUS
<1>26. history' = [history EXCEPT
            ![r].handled = @ \cup {g},
            ![r].repeated = IF g \in history[r].handled THEN @ \cup {g} ELSE @,
            ![r].late = IF sub[r].state = "stopped" THEN @ + 1 ELSE @]
  BY <1>4 DEF CallHandler
<1>29. /\ history'[r] \in Histories /\ history' = [history EXCEPT ![r] = history'[r]]
       /\ history'[r].before = history[r].before /\ history'[r].after = history[r].after
       /\ history'[r].gap = history[r].gap /\ history'[r].failed = history[r].failed
       /\ history'[r].handled = history[r].handled \cup {g}
       /\ history'[r].repeated = IF g \in history[r].handled
                                 THEN history[r].repeated \cup {g}
                                 ELSE history[r].repeated
       /\ history'[r].late = IF sub[r].state = "stopped" THEN history[r].late + 1
                             ELSE history[r].late
  BY <1>6, <1>26, CallFacts, Zenon
<1>28. /\ h \in Histories
       /\ history' = [history EXCEPT ![r] = h] /\ history'[r] = h
       /\ h.before = history[r].before /\ h.after = history[r].after
       /\ h.gap = history[r].gap /\ h.failed = history[r].failed
       /\ h.handled = history[r].handled \cup {g}
       /\ h.repeated = IF g \in history[r].handled THEN history[r].repeated \cup {g}
                       ELSE history[r].repeated
       /\ h.late = history[r].late
  BY <1>8, <1>9, <1>29
<1>10. \A i : CatchUpHas(r, i) <=> i = g BY <1>3, <1>4 DEF CatchUpHas
<1>11. \A i : ~CatchUpHas(r, i)' BY <1>7 DEF CatchUpHas
<1>12. \A i : LiveHas(r, i)' <=> LiveHas(r, i) BY <1>7 DEF LiveHas, SameLive
<1>14. \A i : /\ At(i)' = At(i) /\ (Passed(r, i)' <=> Passed(r, i)) /\ (Twin(i)' <=> Twin(i))
  BY <1>4, <1>5 DEF At, Passed, Twin
<1>15. Published(r)'
  <2>1. h.handled \subseteq published /\ h.repeated \subseteq published
    BY <1>2, <1>6, <1>28 DEF ReaderInv, Published
  <2>2. QED BY <1>2, <1>4, <1>5, <1>6, <1>7, <1>28, <2>1
        DEF ReaderInv, Published, Message, SameLive
<1>16. Life(r)'
  BY <1>2, <1>5, <1>7, <1>8, <1>28 DEF ReaderInv, Life, SameLive
<1>17. Once(r)'
  <2>1. Once(r) BY <1>2 DEF ReaderInv
  <2>2. Passed(r, g) /\ (g \in history[r].handled => Twin(g)) /\ (LiveHas(r, g) => Twin(g))
    BY <1>6, <1>10, <2>1 DEF Once
  <2>3. QED BY <1>4, <1>5, <1>28, <1>11, <1>12, <1>14, <2>1, <2>2 DEF Once
<1>18. Arriving(r)'
  <2>1. /\ Routed(r)' = Routed(r)
        /\ \A i : Waiting(r, i)' <=> Waiting(r, i)
    BY <1>5, <1>7, <1>28 DEF Routed, Waiting, Queued, SameLive
  <2>2. QED BY <1>2, <1>7, <1>14, <2>1 DEF ReaderInv, Arriving, SameLive
<1>19. Catching(r)'
  <2>1. \A s : ToRead(r, s)' <=> ToRead(r, s) BY <1>4, <1>7, NextToRead
  <2>2. \A i : Queued(Retain, i)' <=> Queued(Retain, i) BY <1>5 DEF Queued
  <2>3. sub'[r].state = sub[r].state /\ sub'[r].filter = sub[r].filter BY <1>7 DEF SameLive
  <2>4. Catching(r) BY <1>2 DEF ReaderInv
  <2>5. QED BY <1>4, <1>5, <1>28, <1>14, <2>1, <2>2, <2>3, <2>4 DEF Catching
<1>21. ReaderInv(r)' BY <1>15, <1>16, <1>17, <1>18, <1>19 DEF ReaderInv
<1>22. QueuesTyped' BY <1>1, <1>5, QueuesFrame DEF QueuesTyped, clientVars
<1>23. PICK l : l = last[r] OBVIOUS
<1>24. l \in [AllSubjects -> Nat] /\ last' = [last EXCEPT ![r] = l] BY <1>1, <1>4, <1>23
<1>25. QED BY <1>5, <1>7, <1>28, <1>21, <1>22, <1>24, Turn

LEMMA LiveHandlesReader ==
    ASSUME ReadersInv, NEW r \in Feeds, LiveHandles(r) PROVE ReadersInv'
<1> DEFINE x == [sub[r] EXCEPT !.live = "wait", !.message = 0]
<1>1. /\ last \in [Feeds -> [AllSubjects -> Nat]] /\ QueuesTyped
      /\ sub \in [Feeds -> Subscriptions]
  BY DEF ReadersInv, ReadersTyped
<1>2. /\ history[r] \in Histories /\ sub[r] \in Subscriptions /\ ReaderInv(r)
  BY HeldFacts
<1>3. PICK g : g = sub[r].message OBVIOUS
<1>4. /\ sub[r].live = "handle" /\ CallHandler(r, g) /\ UNCHANGED <<busVars, last>>
      /\ sub' = [sub EXCEPT ![r] = x] /\ sub'[r] = x
  BY <1>1, <1>2, <1>3 DEF LiveHandles, Subscriptions
<1>5. UNCHANGED <<clientVars, pending, interest, retained, answering, left, log, published>>
  BY <1>4 DEF busVars, clientVars
<1>6. g \in published /\ log[g].subject \in AllSubjects
  BY <1>2, <1>3, <1>4, HeldFacts DEF ReaderInv, Life
<1>7. x \in Subscriptions /\ SameCatchUp(x, sub[r]) /\ x.live = "wait" /\ x.message = 0
  BY <1>2 DEF Subscriptions, SameCatchUp
<1> HIDE DEF x
<1>8. sub[r].state # "none" /\ history[r].late = 0
  BY <1>2, <1>4 DEF ReaderInv, Life, NoSubscription
<1>9. PICK h : h = history'[r] OBVIOUS
<1>26. history' = [history EXCEPT
            ![r].handled = @ \cup {g},
            ![r].repeated = IF g \in history[r].handled THEN @ \cup {g} ELSE @,
            ![r].late = IF sub[r].state = "stopped" THEN @ + 1 ELSE @]
  BY <1>4 DEF CallHandler
<1>29. /\ history'[r] \in Histories /\ history' = [history EXCEPT ![r] = history'[r]]
       /\ history'[r].before = history[r].before /\ history'[r].after = history[r].after
       /\ history'[r].gap = history[r].gap /\ history'[r].failed = history[r].failed
       /\ history'[r].handled = history[r].handled \cup {g}
       /\ history'[r].repeated = IF g \in history[r].handled
                                 THEN history[r].repeated \cup {g}
                                 ELSE history[r].repeated
       /\ history'[r].late = IF sub[r].state = "stopped" THEN history[r].late + 1
                             ELSE history[r].late
  BY <1>6, <1>26, CallFacts, Zenon
<1>28. /\ h \in Histories
       /\ history' = [history EXCEPT ![r] = h] /\ history'[r] = h
       /\ h.before = history[r].before /\ h.after = history[r].after
       /\ h.gap = history[r].gap /\ h.failed = history[r].failed
       /\ h.handled = history[r].handled \cup {g}
       /\ h.repeated = IF g \in history[r].handled THEN history[r].repeated \cup {g}
                       ELSE history[r].repeated
       /\ h.late = IF sub[r].state = "stopped" THEN history[r].late + 1
                         ELSE history[r].late
  BY <1>8, <1>9, <1>29
<1>10. \A i : LiveHas(r, i) <=> i = g BY <1>3, <1>4 DEF LiveHas
<1>11. \A i : ~LiveHas(r, i)' BY <1>4, <1>7 DEF LiveHas
<1>12. \A i : CatchUpHas(r, i)' <=> CatchUpHas(r, i) BY <1>4, <1>7 DEF CatchUpHas, SameCatchUp
<1>14. \A i : /\ At(i)' = At(i) /\ (Passed(r, i)' <=> Passed(r, i)) /\ (Twin(i)' <=> Twin(i))
  BY <1>4, <1>5 DEF At, Passed, Twin
<1>15. Published(r)'
  <2>1. h.handled \subseteq published /\ h.repeated \subseteq published
    BY <1>2, <1>6, <1>28 DEF ReaderInv, Published
  <2>2. QED BY <1>2, <1>4, <1>5, <1>6, <1>7, <1>28, <2>1
        DEF ReaderInv, Published, Message, SameCatchUp
<1>16. Life(r)'
  BY <1>2, <1>4, <1>5, <1>7, <1>8, <1>28 DEF ReaderInv, Life, SameCatchUp, Current
<1>17. Once(r)'
  <2>1. Once(r) BY <1>2 DEF ReaderInv
  <2>2. Passed(r, g) /\ (g \in history[r].handled => Twin(g)) /\ (CatchUpHas(r, g) => Twin(g))
    BY <1>6, <1>10, <2>1 DEF Once
  <2>3. QED BY <1>4, <1>5, <1>28, <1>11, <1>12, <1>14, <2>1, <2>2 DEF Once
<1>18. Arriving(r)'
  <2>1. /\ Routed(r)' = Routed(r)
        /\ \A i : Waiting(r, i)' <=> Waiting(r, i)
    BY <1>4, <1>5, <1>7, <1>28 DEF Routed, Waiting, Queued, SameCatchUp
  <2>2. QED BY <1>2, <1>4, <1>7, <1>14, <2>1 DEF ReaderInv, Arriving, SameCatchUp
<1>19. Catching(r)'
  <2>1. \A s : ToRead(r, s)' <=> ToRead(r, s) BY <1>4, <1>7 DEF ToRead, Current, SameCatchUp
  <2>2. \A i : Queued(Retain, i)' <=> Queued(Retain, i) BY <1>5 DEF Queued
  <2>3. Catching(r) BY <1>2 DEF ReaderInv
  <2>4. QED BY <1>4, <1>5, <1>7, <1>28, <1>14, <2>1, <2>2, <2>3 DEF Catching, SameCatchUp
<1>21. ReaderInv(r)' BY <1>15, <1>16, <1>17, <1>18, <1>19 DEF ReaderInv
<1>22. QueuesTyped' BY <1>1, <1>5, QueuesFrame DEF QueuesTyped, clientVars
<1>23. PICK l : l = last[r] OBVIOUS
<1>24. l \in [AllSubjects -> Nat] /\ last' = [last EXCEPT ![r] = l] BY <1>1, <1>4, <1>23
<1>25. QED BY <1>4, <1>5, <1>7, <1>28, <1>21, <1>22, <1>24, Turn

LEMMA TakeReader ==
    ASSUME ReadersInv, NEW r \in Feeds, NEW c \in Clients, TakeMessage(r, c) PROVE ReadersInv'
<1>1. /\ sub \in [Feeds -> Subscriptions] /\ history \in [Feeds -> Histories] /\ QueuesTyped
      /\ pending \in [Receivers \cup {Retain} -> [Clients -> Seq(published)]]
  BY DEF ReadersInv, ReadersTyped, QueuesTyped
<1>2. /\ history[r] \in Histories /\ sub[r] \in Subscriptions /\ ReaderInv(r)
      /\ r \in Receivers /\ r # Retain /\ published \subseteq Nat
  BY HeldFacts
<1>3. PICK q, g : q = pending[r][c] /\ g = Head(q) OBVIOUS
<1> DEFINE x == [sub[r] EXCEPT !.live = "accept", !.message = g]
<1>4. /\ sub[r].live = "wait" /\ q # <<>> /\ pending' = [pending EXCEPT ![r][c] = Tail(q)]
      /\ UNCHANGED <<clientVars, interest, retained, answering, left, last, history>>
      /\ sub' = [sub EXCEPT ![r] = x]
  BY <1>1, <1>2, <1>3 DEF TakeMessage, Subscriptions
<1>5. UNCHANGED <<log, published, silent>> BY <1>4 DEF clientVars
<1>6. q \in Seq(published) BY <1>1, <1>2, <1>3
<1>7. /\ g \in published /\ Tail(q) \in Seq(published)
      /\ \A i : Contains(q, i) <=> (i = g \/ Contains(Tail(q), i))
  BY <1>3, <1>4, <1>6, QueueFacts
<1>8. x \in Subscriptions /\ SameCatchUp(x, sub[r]) /\ x.live = "accept" /\ x.message = g
  BY <1>2, <1>7 DEF Subscriptions, SameCatchUp
<1>9. sub'[r] = x BY <1>1, <1>4
<1> HIDE DEF x
<1>10. /\ \A d \in Clients : pending'[r][d] = IF d = c THEN Tail(q) ELSE pending[r][d]
       /\ \A p \in Receivers \cup {Retain} : p # r => pending'[p] = pending[p]
       /\ pending' \in [Receivers \cup {Retain} -> [Clients -> Seq(published)]]
  BY <1>1, <1>2, <1>4, <1>7
<1>11. sub[r].state \notin {"none", "stopping", "stopped"}
  BY <1>2, <1>3, <1>4 DEF ReaderInv, Life, NoMessages
<1>12. Published(r)'
  BY <1>2, <1>4, <1>5, <1>7, <1>8, <1>9 DEF ReaderInv, Published, Message, SameCatchUp
<1>13. Life(r)'
  BY <1>2, <1>4, <1>5, <1>7, <1>8, <1>9, <1>11 DEF ReaderInv, Life, SameCatchUp, Current
<1>14. Once(r)' /\ Arriving(r)'
  <2>1. \A i : (LiveHas(r, i)' <=> LiveHas(r, i)) /\ (CatchUpHas(r, i)' <=> CatchUpHas(r, i))
    BY <1>4, <1>8, <1>9 DEF LiveHas, CatchUpHas, SameCatchUp
  <2>2. Routed(r)' = Routed(r) BY <1>4, <1>5, <1>8, <1>9 DEF Routed, SameCatchUp
  <2>3. ASSUME NEW i, Waiting(r, i) PROVE Waiting(r, i)'
    <3>1. PICK d \in Clients : Contains(pending[r][d], i) BY <1>4, <2>3 DEF Waiting, Queued
    <3>2. i = g \/ Contains(pending'[r][d], i) BY <1>3, <1>7, <1>10, <3>1
    <3>3. QED BY <1>8, <1>9, <3>2 DEF Waiting, Queued
  <2>4. last'[r] = last[r] /\ history'[r] = history[r] BY <1>4
  <2>5. QED BY <1>5, <1>11, <2>1, <2>2, <2>3, <2>4, QuietReader
<1>15. Catching(r)'
  <2>1. \A s : ToRead(r, s)' <=> ToRead(r, s) BY <1>8, <1>9 DEF ToRead, Current, SameCatchUp
  <2>2. pending'[Retain] = pending[Retain] BY <1>2, <1>10
  <2>3. \A i : Queued(Retain, i)' <=> Queued(Retain, i) BY <2>2 DEF Queued
  <2>4. \A i : Passed(r, i)' <=> Passed(r, i) BY <1>4, <1>5 DEF Passed, At
  <2>5. Catching(r) BY <1>2 DEF ReaderInv
  <2>6. QED BY <1>4, <1>5, <1>8, <1>9, <2>1, <2>3, <2>4, <2>5 DEF Catching, SameCatchUp
<1>16. ReaderInv(r)' BY <1>12, <1>13, <1>14, <1>15 DEF ReaderInv
<1>17. QueuesTyped' BY <1>1, <1>4, <1>5, <1>10 DEF QueuesTyped
<1>18. PICK h : h = history[r] OBVIOUS
<1>19. h \in Histories /\ history' = [history EXCEPT ![r] = h] BY <1>1, <1>2, <1>4, <1>18
<1>20. QED BY <1>4, <1>8, <1>10, <1>16, <1>17, <1>19, QuietTurn

\* Both ends take the interest away and cancel the context.
LEMMA EndReader == ASSUME ReadersInv, NEW r \in Feeds, Stop(r) \/ Drain(r) PROVE ReadersInv'
<1>1. /\ sub \in [Feeds -> Subscriptions] /\ history \in [Feeds -> Histories] /\ QueuesTyped
      /\ pending \in [Receivers \cup {Retain} -> [Clients -> Seq(published)]]
      /\ interest \in [Receivers -> SUBSET AllSubjects]
  BY DEF ReadersInv, ReadersTyped, QueuesTyped
<1>2. /\ history[r] \in Histories /\ sub[r] \in Subscriptions /\ ReaderInv(r)
      /\ r \in Receivers /\ r # Retain /\ published \subseteq Nat
  BY HeldFacts
<1>3. PICK state \in {"stopping", "draining"} :
        /\ Ending(r, state)
        /\ state = "stopping" => pending' = [pending EXCEPT ![r] = NoMessages]
        /\ state = "draining" => UNCHANGED pending
  BY DEF Stop, Drain
<1> DEFINE x == [sub[r] EXCEPT !.state = state, !.cancelled = TRUE]
           h == [history[r] EXCEPT !.after = published]
<1>4. /\ sub[r].state = "open" /\ interest' = [interest EXCEPT ![r] = {}]
      /\ UNCHANGED <<clientVars, retained, answering, left, last>>
      /\ sub' = [sub EXCEPT ![r] = x] /\ history' = [history EXCEPT ![r] = h]
  BY <1>1, <1>2, <1>3 DEF Ending, Subscriptions, Histories
<1>5. UNCHANGED <<log, published, silent>> BY <1>4 DEF clientVars
<1>6. /\ x \in Subscriptions /\ x.state = state /\ x.filter = sub[r].filter
      /\ x.catchUp = sub[r].catchUp /\ x.todo = sub[r].todo /\ x.got = sub[r].got
      /\ x.live = sub[r].live /\ x.message = sub[r].message
  BY <1>2 DEF Subscriptions
<1>7. /\ h \in Histories /\ h.after = published /\ h.before = history[r].before
      /\ h.gap = history[r].gap /\ h.failed = history[r].failed
      /\ h.handled = history[r].handled
      /\ h.repeated = history[r].repeated /\ h.late = history[r].late
  BY <1>2 DEF Histories
<1>8. sub'[r] = x /\ history'[r] = h BY <1>1, <1>4
<1> HIDE DEF x, h
<1>9. /\ pending' \in [Receivers \cup {Retain} -> [Clients -> Seq(published)]]
      /\ \A q \in Receivers \cup {Retain} : q # r => pending'[q] = pending[q]
      /\ state = "stopping" => pending'[r] = NoMessages
      /\ state = "draining" => pending'[r] = pending[r]
  <2>1. NoMessages \in [Clients -> Seq(published)] BY DEF NoMessages
  <2>2. QED BY <1>1, <1>2, <1>3, <2>1
<1>10. /\ interest' \in [Receivers -> SUBSET AllSubjects] /\ interest'[r] = {}
       /\ \A q \in Receivers : q # r => interest'[q] = interest[q]
  BY <1>1, <1>2, <1>4
<1>11. Published(r)'
  BY <1>2, <1>4, <1>5, <1>6, <1>7, <1>8 DEF ReaderInv, Published, Message
<1>12. Life(r)'
  BY <1>2, <1>3, <1>4, <1>5, <1>6, <1>7, <1>8, <1>9, <1>10 DEF ReaderInv, Life, Current
<1>13. Once(r)' /\ Arriving(r)'
  <2>1. \A i : (LiveHas(r, i)' <=> LiveHas(r, i)) /\ (CatchUpHas(r, i)' <=> CatchUpHas(r, i))
    BY <1>6, <1>8 DEF LiveHas, CatchUpHas
  <2>2. Routed(r)' = Routed(r) BY <1>3, <1>4, <1>5, <1>6, <1>7, <1>8 DEF Routed
  <2>3. state = "draining" => \A i : Waiting(r, i) => Waiting(r, i)'
    BY <1>6, <1>8, <1>9 DEF Waiting, Queued
  <2>4. last'[r] = last[r] BY <1>4
  <2>5. QED BY <1>3, <1>4, <1>5, <1>6, <1>7, <1>8, <2>1, <2>2, <2>3, <2>4, QuietReader
<1>14. Catching(r)' BY <1>3, <1>6, <1>8 DEF Catching
<1>15. ReaderInv(r)' BY <1>11, <1>12, <1>13, <1>14 DEF ReaderInv
<1>16. QueuesTyped' BY <1>1, <1>4, <1>5, <1>9, <1>10 DEF QueuesTyped
<1>17. QED BY <1>4, <1>6, <1>7, <1>9, <1>10, <1>15, <1>16, QuietTurn

LEMMA ClosedReader == ASSUME ReadersInv, NEW r \in Feeds, Closed(r) PROVE ReadersInv'
<1>1. /\ sub \in [Feeds -> Subscriptions] /\ history \in [Feeds -> Histories] /\ QueuesTyped
  BY DEF ReadersInv, ReadersTyped
<1>2. /\ history[r] \in Histories /\ sub[r] \in Subscriptions /\ ReaderInv(r)
  BY HeldFacts
<1> DEFINE state == IF sub[r].state = "stopping" THEN "stopped" ELSE "drained"
           x == [sub[r] EXCEPT !.state = state]
<1>3. /\ sub[r].state \in {"stopping", "draining"} /\ sub[r].catchUp = "done"
      /\ UNCHANGED <<busVars, last, history>> /\ sub' = [sub EXCEPT ![r] = x]
  BY <1>1, <1>2 DEF Closed, Subscriptions
<1>4. UNCHANGED <<clientVars, pending, interest, retained, answering, left, log, published>>
  BY <1>3 DEF busVars, clientVars
<1>5. /\ x \in Subscriptions /\ x.state = state /\ x.filter = sub[r].filter
      /\ x.catchUp = sub[r].catchUp /\ x.todo = sub[r].todo /\ x.got = sub[r].got
      /\ x.live = sub[r].live /\ x.message = sub[r].message
  BY <1>2 DEF Subscriptions
<1>6. sub'[r] = x /\ history'[r] = history[r] BY <1>1, <1>3
<1> HIDE DEF x
<1>7. Published(r)' BY <1>2, <1>3, <1>4, <1>5, <1>6 DEF ReaderInv, Published, Message
<1>8. Life(r)' BY <1>2, <1>3, <1>4, <1>5, <1>6 DEF ReaderInv, Life
<1>9. Once(r)' /\ Arriving(r)'
  <2>1. \A i : (LiveHas(r, i)' <=> LiveHas(r, i)) /\ (CatchUpHas(r, i)' <=> CatchUpHas(r, i))
    BY <1>5, <1>6 DEF LiveHas, CatchUpHas
  <2>2. Routed(r)' = Routed(r) BY <1>3, <1>4, <1>5, <1>6 DEF Routed
  <2>3. \A i : Waiting(r, i) => Waiting(r, i)' BY <1>4, <1>5, <1>6 DEF Waiting, Queued
  <2>4. last'[r] = last[r] BY <1>3
  <2>5. QED BY <1>3, <1>4, <1>5, <1>6, <2>1, <2>2, <2>3, <2>4, QuietReader
<1>10. Catching(r)' BY <1>5, <1>6 DEF Catching
<1>11. ReaderInv(r)' BY <1>7, <1>8, <1>9, <1>10 DEF ReaderInv
<1>12. QueuesTyped' BY <1>1, <1>4, QueuesFrame DEF QueuesTyped, clientVars
<1>13. PICK h : h = history[r] OBVIOUS
<1>14. h \in Histories /\ history' = [history EXCEPT ![r] = h] BY <1>1, <1>2, <1>3, <1>13
<1>15. QED BY <1>3, <1>4, <1>5, <1>11, <1>12, <1>14, QuietTurn

-----------------------------------------------------------------------------
(* The theorems. *)

LEMMA InitReaders == Init => ReadersInv
<1> SUFFICES ASSUME Init PROVE ReadersInv OBVIOUS
<1>1. BusInv /\ QueuesTyped /\ WritersDiffer BY InitBus, InitBusTyped
<1>2. /\ sub = [r \in Feeds |-> NoSubscription] /\ history = [r \in Feeds |-> NoHistory]
      /\ last = [r \in Feeds |-> [s \in AllSubjects |-> 0]]
      /\ pending = [r \in Receivers \cup {Retain} |-> NoMessages]
      /\ interest = [r \in Receivers |-> {}]
  BY DEF Init, SubInit, BusInit
<1>3. NoSubscription \in Subscriptions /\ NoHistory \in Histories
  BY DEF NoSubscription, NoHistory, Subscriptions, Histories
<1>4. ReadersTyped BY <1>2, <1>3 DEF ReadersTyped
<1>5. ASSUME NEW r \in Feeds PROVE ReaderInv(r)
  <2>1. /\ sub[r] = NoSubscription /\ history[r] = NoHistory /\ r \in Receivers
        /\ pending[r] = NoMessages /\ interest[r] = {}
        /\ \A s \in AllSubjects : last[r][s] = 0
    BY <1>2, FeedAssumption
  <2>2. /\ sub[r].state = "none" /\ sub[r].catchUp = "done" /\ sub[r].live = "wait"
        /\ sub[r].got = 0 /\ sub[r].message = 0 /\ sub[r].todo = {}
    BY <2>1 DEF NoSubscription
  <2>3. /\ history[r].before = {} /\ history[r].after = {} /\ history[r].gap = {}
        /\ history[r].handled = {} /\ history[r].repeated = {} /\ history[r].late = 0
    BY <2>1 DEF NoHistory
  <2>4. Published(r) /\ Life(r)
    BY <2>1, <2>2, <2>3 DEF Published, Message, Life
  <2>5. Once(r) BY <2>1, <2>2, <2>3 DEF Once, LiveHas, CatchUpHas
  <2>6. Arriving(r) /\ Catching(r) BY <2>2 DEF Arriving, Catching
  <2>7. QED BY <2>4, <2>5, <2>6 DEF ReaderInv
<1>6. QED BY <1>1, <1>4, <1>5 DEF ReadersInv

LEMMA SubReaders == ASSUME ReadersInv, SubNext PROVE ReadersInv'
<1>1. PICK r \in Feeds :
        \/ \E filter \in Filters : Subscribe(r, filter)
        \/ CatchUp(r) \/ Live(r) \/ Stop(r) \/ Drain(r) \/ Closed(r)
  BY DEF SubNext
<1>2. CASE \E filter \in Filters : Subscribe(r, filter) BY <1>2, SubscribeReader
<1>3. CASE CatchUp(r)
  BY <1>3, ListReader, ListFailsReader, LoopReader, GetReader, GetFailsReader,
     CatchUpAcceptsReader, CatchUpHandlesReader DEF CatchUp
<1>4. CASE Live(r) BY <1>4, TakeReader, LiveAcceptsReader, LiveHandlesReader DEF Live
<1>5. CASE Stop(r) \/ Drain(r) \/ Closed(r) BY <1>5, EndReader, ClosedReader
<1>6. QED BY <1>1, <1>2, <1>3, <1>4, <1>5

LEMMA ReadersStep == ReadersInv /\ [Next]_vars => ReadersInv'
<1> SUFFICES ASSUME ReadersInv, [Next]_vars PROVE ReadersInv' OBVIOUS
<1>1. BusInv /\ [Next]_vars => BusInv' BY BusStep
<1>2. CASE BusNext /\ UNCHANGED <<subVars, exactVars>>
  <2>1. QueuesTyped' /\ WritersDiffer' BY <1>2, BusTyped DEF ReadersInv
  <2>2. \A r \in Feeds : ReaderInv(r)' BY <1>2, BusReaders
  <2>3. ReadersTyped' BY <1>2 DEF subVars, ReadersInv, ReadersTyped
  <2>4. QED BY <1>1, <2>1, <2>2, <2>3 DEF ReadersInv
<1>3. CASE SubNext BY <1>3, SubReaders
<1>4. CASE ExactNext /\ UNCHANGED subVars
  <2>1. ReadersTyped' BY <1>4 DEF subVars, ReadersInv, ReadersTyped
  <2>2. QED BY <1>1, <1>4, <2>1, ExactReaders DEF ReadersInv
<1>5. CASE UNCHANGED vars
  <2>1. UNCHANGED <<log, published, writer, silent, pending, interest, retained, answering,
                    left, sub, last, history>>
    BY <1>5 DEF vars, busVars, clientVars, subVars
  <2>2. \A r \in Feeds : ReaderInv(r)' BY <2>1, NoMessageMoves DEF subVars
  <2>3. QueuesTyped' /\ WritersDiffer' /\ ReadersTyped'
    BY <2>1 DEF ReadersInv, QueuesTyped, WritersDiffer, Apart, ReadersTyped
  <2>4. QED BY <1>1, <2>2, <2>3 DEF ReadersInv
<1>6. QED BY <1>2, <1>3, <1>4, <1>5 DEF Next

\* The inductive invariant of the readers, for every step of writers, retain
\* service and readers of both kinds.
THEOREM ReadersInvariance == Spec => []ReadersInv
BY ReadersStep, InitReaders, PTL DEF Spec

\* At most one call of the handler comes after Stop has returned.
OneLateCall == \A r \in Feeds : history[r].late <= 1

\* StopIsQuiet fails by one call and no more: when Stop has returned, the catch-up
\* goroutine has ended and Unsubscribe has dropped the queue, so that only the
\* callback NATS had begun can still reach the handler.
THEOREM StopLeavesOneCall == Spec => []OneLateCall
<1>1. ReadersInv => OneLateCall
  <2> SUFFICES ASSUME ReadersInv, NEW r \in Feeds PROVE history[r].late <= 1
    BY DEF OneLateCall
  <2>1. history[r].late \in Nat BY HeldFacts DEF Histories
  <2>2. QED BY <2>1, HeldFacts DEF ReaderInv, Life
<1>2. QED BY <1>1, ReadersInvariance, PTL

\* deliveryState.accept lets a message through a second time only when another
\* message of its subject has the same time of observation.
THEOREM HandlerOnce == Spec => []HandledOnce
<1>1. ReadersInv => HandledOnce
  BY HeldFacts DEF HandledOnce, ReaderInv, Once, Twin
<1>2. QED BY <1>1, ReadersInvariance, PTL

\* What NATS queued for an open or draining subscription passes through accept
\* or is superseded; Drain loses nothing.
THEOREM RoutedArrives == Spec => []NothingRoutedIsLost
<1>1. ReadersInv => NothingRoutedIsLost
  <2> SUFFICES ASSUME ReadersInv, NEW r \in Feeds,
                      sub[r].state \notin {"none", "stopping", "stopped"}, NothingQueued(r),
                      NEW id \in Routed(r)
               PROVE  Passed(r, id)
    BY DEF NothingRoutedIsLost, Passed
  <2>1. Passed(r, id) \/ Waiting(r, id) BY HeldFacts DEF ReaderInv, Arriving
  <2>2. ~Waiting(r, id) BY DEF NothingQueued, NoMessages, Waiting, Queued, Contains
  <2>3. QED BY <2>1, <2>2
<1>2. QED BY <1>1, ReadersInvariance, PTL

\* Reading the retained values after subscribing closes the window between the
\* two, up to messages that were on their way to the retain service meanwhile.
THEOREM CatchUpCatchesUp == Spec => []CaughtUp
<1>1. ReadersInv => CaughtUp
  <2> SUFFICES ASSUME ReadersInv, NEW r \in Feeds, sub[r].state = "open",
                      sub[r].catchUp = "done", NothingQueued(r),
                      NEW s \in sub[r].filter.subjects \ history[r].failed,
                      retained[s] \notin history[r].gap \cup {0}
               PROVE  last[r][s] # 0 /\ At(last[r][s]) >= At(retained[s])
    BY DEF CaughtUp
  <2>1. PICK id : id = retained[s] OBVIOUS
  <2>2. ReaderInv(r) /\ sub[r] \in Subscriptions BY HeldFacts
  <2>3. s \in AllSubjects BY <2>2 DEF Subscriptions
  <2>4. id \in published /\ log[id].subject = s
    BY <2>1, <2>3 DEF ReadersInv, BusInv, WritersTyped, KnownWritten
  <2>5. Passed(r, id)
    <3>1. CASE id \in history[r].before
      <4>1. ~ToRead(r, s) BY DEF ToRead
      <4>2. QED BY <2>1, <2>2, <2>4, <3>1, <4>1 DEF ReaderInv, Catching
    <3>2. CASE id \notin history[r].before
      <4>1. id \in Routed(r) BY <2>4, <3>2 DEF Routed
      <4>2. Passed(r, id) \/ Waiting(r, id) BY <2>2, <4>1 DEF ReaderInv, Arriving
      <4>3. ~Waiting(r, id) BY DEF NothingQueued, NoMessages, Waiting, Queued, Contains
      <4>4. QED BY <4>2, <4>3
    <3>3. QED BY <3>1, <3>2
  <2>6. QED BY <2>1, <2>4, <2>5 DEF Passed
<1>2. QED BY <1>1, ReadersInvariance, PTL
=============================================================================
