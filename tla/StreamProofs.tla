----------------------------- MODULE StreamProofs -----------------------------
(***************************************************************************)
(* No new subject stays out of the registry: for any clients, goroutines,  *)
(* subjects, readers, clocks and number of calls and faults.               *)
(***************************************************************************)
EXTENDS Stream, TLAPS

Jobs == [pc : {"idle", "create", "check", "stamp", "publish"},
         subject : AllSubjects, announce : BOOLEAN, about : AllSubjects, id : Nat]

\* The part of TypeOK the argument needs: of the queues only the retain service's.
WritersTyped ==
    /\ log \in Seq(Messages) /\ published \subseteq DOMAIN log
    /\ known \in [Clients -> SUBSET AllSubjects]
    /\ writer \in [Writers -> Jobs]
    /\ Retain \in DOMAIN pending /\ pending[Retain] \in [Clients -> Seq(published)]
    /\ retained \in [AllSubjects -> published \cup {0}]

\* What a client or the retain service knows was written.
KnownWritten ==
    /\ \A c \in Clients : \A s \in known[c] \cap Subjects : Written(s)
    /\ \A s \in AllSubjects : retained[s] # 0 => log[retained[s]].subject = s

\* What a writer has in hand, between its request and its publication.
JobSound(w) ==
    LET job == writer[w] IN
    /\ job.pc = "idle" => job = Idle
    /\ job.pc \in {"create", "check"} => job.subject \in Subjects
    /\ job.pc \in {"stamp", "publish"} /\ job.subject \in Subjects /\ ~job.announce
       => Written(job.subject) \/ job.subject \in silent
    /\ job.pc = "publish" => /\ job.id \in DOMAIN log
                             /\ log[job.id].subject = job.subject
                             /\ log[job.id].about = job.about

JobsSound == \A w \in Writers : JobSound(w)

BusInv == WritersTyped /\ KnownWritten /\ JobsSound /\ NewSubjectsAnnounced

-----------------------------------------------------------------------------
\* Idle is a job like any other.
LEMMA IdleJob == Idle \in Jobs /\ Created \in AllSubjects /\ Subjects \subseteq AllSubjects
BY DEF Idle, Jobs, AllSubjects

\* What was written before was announced, by StartAssumption.
LEMMA InitBus == Init => BusInv
<1> SUFFICES ASSUME BusInit PROVE BusInv BY DEF Init
<1>1. PICK start \in Starts :
        /\ log = start.log /\ published = DOMAIN start.log
        /\ known = [c \in Clients |-> {log[i].subject : i \in DOMAIN log}]
        /\ writer = [w \in Writers |-> Idle]
        /\ pending = [r \in Receivers \cup {Retain} |-> NoMessages]
        /\ retained \in [AllSubjects -> 0..Len(log)]
        /\ \A s \in AllSubjects : \A i \in DOMAIN log :
             i = retained[s] => log[i].subject = s
  BY DEF BusInit
<1>2. log \in Seq(Messages) BY <1>1, StartAssumption
<1>3. DOMAIN log = 1..Len(log) /\ Len(log) \in Nat BY <1>2
<1>4. ASSUME NEW i \in DOMAIN log PROVE log[i].subject \in AllSubjects
  <2>1. log[i] \in Messages BY <1>2
  <2>2. QED BY <2>1 DEF Messages
<1>5. WritersTyped
  <2>1. published = DOMAIN log BY <1>1
  <2>2. known \in [Clients -> SUBSET AllSubjects] BY <1>1, <1>4
  <2>3. writer \in [Writers -> Jobs] BY <1>1, IdleJob
  <2>4. Retain \in DOMAIN pending /\ pending[Retain] \in [Clients -> Seq(published)]
    BY <1>1 DEF NoMessages
  <2>5. retained \in [AllSubjects -> published \cup {0}] BY <1>1, <1>3, <2>1
  <2>6. QED BY <1>2, <2>1, <2>2, <2>3, <2>4, <2>5 DEF WritersTyped
<1>6. KnownWritten BY <1>1, <1>3 DEF KnownWritten, Written
<1>7. JobsSound BY <1>1 DEF JobsSound, JobSound, Idle
<1>8. NewSubjectsAnnounced
  BY <1>1, StartAssumption, NameAssumption DEF NewSubjectsAnnounced, Written, Announced
<1>9. QED BY <1>5, <1>6, <1>7, <1>8 DEF BusInv

\* Written and Announced only ever become true.
LEMMA Growing ==
    ASSUME BusInv, published \subseteq published',
           \A i \in published : log'[i] = log[i]
    PROVE  \A s : (Written(s) => Written(s)') /\ (Announced(s) => Announced(s)')
BY DEF Written, Announced

\* A step that leaves the writers and the retain service alone.
LEMMA Frame ==
    ASSUME BusInv, UNCHANGED <<clientVars, retained>>, Retain \in DOMAIN pending',
           pending'[Retain] = pending[Retain]
    PROVE  BusInv'
<1>1. UNCHANGED <<log, published, known, writer, silent, retained>> BY DEF clientVars
<1>2. WritersTyped' BY <1>1 DEF BusInv, WritersTyped
<1>3. KnownWritten' BY <1>1 DEF BusInv, KnownWritten, Written
<1>4. JobsSound' BY <1>1 DEF BusInv, JobsSound, JobSound, Written
<1>5. NewSubjectsAnnounced'
  BY <1>1 DEF BusInv, NewSubjectsAnnounced, Written, Announced
<1>6. QED BY <1>2, <1>3, <1>4, <1>5 DEF BusInv

\* Readers have queues of their own.
LEMMA SubFrame == ASSUME BusInv, SubNext PROVE BusInv'
<1>1. PICK r \in Feeds :
        \/ \E filter \in Filters : Subscribe(r, filter)
        \/ CatchUp(r) \/ Live(r) \/ Stop(r) \/ Drain(r) \/ Closed(r)
  BY DEF SubNext
<1>2. r # Retain BY FeedAssumption, NameAssumption
<1>3. Retain \in DOMAIN pending BY DEF BusInv, WritersTyped
<1>4. /\ UNCHANGED <<clientVars, retained>>
      /\ \/ UNCHANGED pending
         \/ pending' = [pending EXCEPT ![r] = NoMessages]
         \/ \E c \in Clients : pending' = [pending EXCEPT ![r][c] = Tail(@)]
  <2>1. CASE \E filter \in Filters : Subscribe(r, filter) BY <2>1 DEF Subscribe
  <2>2. CASE CatchUp(r)
    BY <2>2 DEF CatchUp, ListSubjects, ListFails, LoopChecksContext, GetPayload, GetFails,
                CatchUpAccepts, CatchUpHandles, busVars
  <2>3. CASE Live(r)
    BY <2>3 DEF Live, TakeMessage, LiveAccepts, LiveHandles, busVars
  <2>4. CASE Stop(r) \/ Drain(r) \/ Closed(r)
    BY <2>4 DEF Stop, Drain, Closed, Ending, busVars
  <2>5. QED BY <1>1, <2>1, <2>2, <2>3, <2>4
<1>5. Retain \in DOMAIN pending' /\ pending'[Retain] = pending[Retain]
  BY <1>2, <1>3, <1>4
<1>6. QED BY <1>4, <1>5, Frame

LEMMA ExactFrame == ASSUME BusInv, ExactNext PROVE BusInv'
<1>1. \A s \in Watchable : WatchOf[s] # Retain BY WatchAssumption, NameAssumption
<1>2. Retain \in DOMAIN pending BY DEF BusInv, WritersTyped
<1>3. ASSUME NEW subjects \in SUBSET Watchable, Unwatch(subjects)
      PROVE  Retain \in DOMAIN pending' /\ pending'[Retain] = pending[Retain]
  BY <1>1, <1>2, <1>3 DEF Unwatch
<1>4. /\ UNCHANGED <<clientVars, retained>>
      /\ Retain \in DOMAIN pending' /\ pending'[Retain] = pending[Retain]
  <2>1. CASE SubscribeExact BY <2>1, <1>2 DEF SubscribeExact
  <2>2. CASE \E s \in Watchable, catchUp \in BOOLEAN : Ensure(s, catchUp)
    BY <2>2, <1>2 DEF Ensure
  <2>3. CASE \E s \in Watchable : RemoveWatch(s) BY <2>3, <1>3 DEF RemoveWatch
  <2>4. CASE \E s \in Watchable, c \in Clients : TakeWatched(s, c)
    BY <2>4, <1>1, <1>2 DEF TakeWatched
  <2>5. CASE AddReads \/ AddFails \/ AddHandles
    BY <2>5, <1>2 DEF AddReads, AddFails, AddHandles, busVars
  <2>6. CASE Dispatch
    BY <2>6, <1>2 DEF Dispatch, Enqueue, GiveUp, SendPanics, Leaves, busVars
  <2>7. CASE \E k \in Workers : Work(k)
    BY <2>7, <1>2 DEF Work, WorkerTakes, WorkerHandles, busVars
  <2>8. CASE StopCancels \/ StopExact
    BY <2>8, <1>2, <1>3
       DEF StopCancels, StopExact, StopUnsubscribes, StopClosesWorkers, StopEnds, busVars
  <2>9. QED BY <2>1, <2>2, <2>3, <2>4, <2>5, <2>6, <2>7, <2>8 DEF ExactNext
<1>5. QED BY <1>4, Frame

-----------------------------------------------------------------------------
(* The steps of a writer. *)

\* A step that publishes nothing: the writer gives up no announcement it owes
\* unless a fault excuses it, and the client learns of no subject unwritten.
LEMMA QuietStep ==
    ASSUME BusInv, NEW w \in Writers, NEW job \in Jobs,
           writer' = [writer EXCEPT ![w] = job],
           UNCHANGED <<log, published, pending, retained>>, silent \subseteq silent',
           known' \in [Clients -> SUBSET AllSubjects],
           \A c \in Clients : \A s \in known'[c] : s \in known[c] \/ Written(s),
           JobSound(w)',
           writer[w].subject = Created /\ writer[w].about \in Subjects
             => writer[w].about \in silent'
    PROVE  BusInv'
<1>1. writer \in [Writers -> Jobs] BY DEF BusInv, WritersTyped
<1>2. WritersTyped' BY <1>1 DEF BusInv, WritersTyped
<1>3. KnownWritten' BY DEF BusInv, KnownWritten, Written
<1>4. JobsSound'
  <2> SUFFICES ASSUME NEW v \in Writers PROVE JobSound(v)' BY DEF JobsSound
  <2>1. CASE v = w BY <2>1
  <2>2. CASE v # w
    <3>1. writer'[v] = writer[v] BY <1>1, <2>2
    <3>2. JobSound(v) BY DEF BusInv, JobsSound
    <3>3. QED BY <3>1, <3>2 DEF JobSound, Written
  <2>3. QED BY <2>1, <2>2
<1>5. NewSubjectsAnnounced'
  <2> SUFFICES ASSUME NEW s \in Subjects \ silent', Written(s)', ~Announced(s)'
               PROVE  \E v \in Writers : writer'[v].subject = Created /\ writer'[v].about = s
    BY DEF NewSubjectsAnnounced
  <2>1. Written(s) /\ ~Announced(s) /\ s \in Subjects \ silent BY DEF Written, Announced
  <2>2. PICK v \in Writers : writer[v].subject = Created /\ writer[v].about = s
    BY <2>1 DEF BusInv, NewSubjectsAnnounced
  <2>3. v # w BY <2>2
  <2>4. QED BY <1>1, <2>2, <2>3
<1>6. QED BY <1>2, <1>3, <1>4, <1>5 DEF BusInv

\* The facts about a writer's job that every step starts from.
LEMMA JobFacts ==
    ASSUME BusInv, NEW w \in Writers
    PROVE  /\ writer \in [Writers -> Jobs] /\ writer[w] \in Jobs /\ JobSound(w)
           /\ writer[w].subject \in AllSubjects /\ writer[w].about \in AllSubjects
           /\ ClientOf[w] \in Clients
           /\ writer[w].pc = "idle" => writer[w].about = Created
           /\ writer[w].pc \in {"create", "check"} => writer[w].subject \in Subjects
<1>1. writer \in [Writers -> Jobs] /\ JobSound(w)
  BY DEF BusInv, WritersTyped, JobsSound
<1>2. writer[w] \in Jobs BY <1>1
<1>3. QED BY <1>1, <1>2, ClientAssumption DEF Jobs, JobSound, Idle

\* A job whose subject is not Created owes no announcement.
LEMMA SetBeginsInv ==
    ASSUME BusInv, NEW w \in Writers, NEW s \in Subjects, SetBegins(w, s),
           writer[w].subject # Created \/ writer[w].about = Created,
           UNCHANGED <<log, published, pending, retained, silent, known>>
    PROVE  BusInv'
<1> DEFINE pc == IF s \in known[ClientOf[w]] THEN "stamp" ELSE "check"
           job == [Idle EXCEPT !.pc = pc, !.subject = s, !.about = s]
<1>1. job \in Jobs /\ job.subject = s /\ job.pc = pc
  BY IdleJob DEF Jobs
<1>2. writer' = [writer EXCEPT ![w] = job] BY DEF SetBegins
<1>3. job \in Jobs BY <1>1
<1>4. writer'[w] = job BY <1>2, JobFacts
<1>5. JobSound(w)'
  <2>1. s \in known[ClientOf[w]] => Written(s)'
    BY JobFacts DEF BusInv, KnownWritten, Written
  <2>2. QED BY <1>1, <1>4, <2>1 DEF JobSound
<1>6. known' \in [Clients -> SUBSET AllSubjects] BY DEF BusInv, WritersTyped
<1>7. QED BY <1>2, <1>3, <1>5, <1>6, NameAssumption, QuietStep

LEMMA SetInv == ASSUME BusInv, NEW w \in Writers, NEW s \in Subjects, Set(w, s) PROVE BusInv'
BY SetBeginsInv, JobFacts DEF Set, Call

LEMMA CreateInv ==
    ASSUME BusInv, NEW w \in Writers, NEW s \in Subjects, Create(w, s) PROVE BusInv'
<1> DEFINE job == [Idle EXCEPT !.pc = "create", !.subject = s, !.about = s]
<1>1. job \in Jobs /\ job.subject = s /\ job.pc = "create" BY IdleJob DEF Jobs
<1>2. /\ writer' = [writer EXCEPT ![w] = job] /\ writer[w].pc = "idle"
      /\ UNCHANGED <<log, published, known, silent, pending, retained>>
  BY DEF Create, Call
<1>3. job \in Jobs BY <1>1
<1>4. writer'[w] = job BY <1>2, JobFacts
<1>5. JobSound(w)' BY <1>1, <1>4 DEF JobSound
<1>6. known' \in [Clients -> SUBSET AllSubjects] BY <1>2 DEF BusInv, WritersTyped
<1>7. QED BY <1>2, <1>3, <1>5, <1>6, JobFacts, NameAssumption, QuietStep

\* A writer that gives up before the publication.
LEMMA BackToIdle ==
    ASSUME BusInv, NEW w \in Writers, writer' = [writer EXCEPT ![w] = Idle],
           UNCHANGED <<log, published, pending, retained>>, silent \subseteq silent',
           known' \in [Clients -> SUBSET AllSubjects],
           \A c \in Clients : \A s \in known'[c] : s \in known[c] \/ Written(s),
           writer[w].subject = Created /\ writer[w].about \in Subjects
             => writer[w].about \in silent'
    PROVE  BusInv'
<1>1. writer'[w] = Idle BY JobFacts
<1>2. JobSound(w)' BY <1>1 DEF JobSound, Idle
<1>3. QED BY <1>2, IdleJob, QuietStep

LEMMA CreateLooksInv == ASSUME BusInv, NEW w \in Writers, CreateLooks(w) PROVE BusInv'
<1> DEFINE s == writer[w].subject
<1>1. /\ writer[w].pc = "create" /\ s \in Subjects
      /\ UNCHANGED <<log, published, pending, retained, silent>>
  BY JobFacts DEF CreateLooks
<1>2. CASE retained[s] = 0
  BY <1>1, <1>2, NameAssumption, SetBeginsInv DEF CreateLooks
<1>3. CASE retained[s] # 0
  <2>1. Written(s)
    BY <1>1, <1>3, IdleJob DEF BusInv, WritersTyped, KnownWritten, Written
  <2>2. known \in [Clients -> SUBSET AllSubjects] BY DEF BusInv, WritersTyped
  <2>3. /\ known' \in [Clients -> SUBSET AllSubjects]
        /\ \A c \in Clients : \A t \in known'[c] : t \in known[c] \/ Written(t)
    BY <1>1, <1>3, <2>1, <2>2, JobFacts DEF CreateLooks, MarkKnown
  <2>4. writer' = [writer EXCEPT ![w] = Idle] BY <1>3 DEF CreateLooks
  <2>5. QED BY <1>1, <2>3, <2>4, NameAssumption, BackToIdle
<1>4. QED BY <1>2, <1>3

LEMMA CreateFailsInv == ASSUME BusInv, NEW w \in Writers, CreateFails(w) PROVE BusInv'
<1>1. known' \in [Clients -> SUBSET AllSubjects]
  BY DEF CreateFails, BusInv, WritersTyped
<1>2. QED BY <1>1, JobFacts, NameAssumption, BackToIdle DEF CreateFails

LEMMA PublishFailsInv == ASSUME BusInv, NEW w \in Writers, PublishFails(w) PROVE BusInv'
<1>1. known' \in [Clients -> SUBSET AllSubjects]
  BY DEF PublishFails, BusInv, WritersTyped
<1>2. QED BY <1>1, BackToIdle DEF PublishFails

\* The answer of the retain service, or the fault that replaces it.
LEMMA AnnounceInv ==
    ASSUME BusInv, NEW w \in Writers, ShouldAnnounce(w) \/ ShouldAnnounceFails(w)
    PROVE  BusInv'
<1> DEFINE s == writer[w].subject
           announce == IF ShouldAnnounce(w) THEN retained[s] = 0 ELSE writer[w].announce
           job == [writer[w] EXCEPT !.pc = "stamp", !.announce = announce]
<1>1. /\ writer[w].pc = "check" /\ s \in Subjects /\ writer[w] \in Jobs
      /\ UNCHANGED <<log, published, pending, retained, known>>
  BY JobFacts DEF ShouldAnnounce, ShouldAnnounceFails
<1>2. announce \in BOOLEAN BY <1>1 DEF Jobs
<1>3. job \in Jobs /\ job.subject = s /\ job.pc = "stamp" /\ job.announce = announce
  BY <1>1, <1>2 DEF Jobs
<1>4. writer' = [writer EXCEPT ![w] = job]
  BY <1>1, JobFacts DEF ShouldAnnounce, ShouldAnnounceFails, Jobs
<1>5. silent \subseteq silent' BY DEF ShouldAnnounce, ShouldAnnounceFails
<1>6. announce \/ Written(s) \/ s \in silent'
  BY <1>1, IdleJob
     DEF ShouldAnnounce, ShouldAnnounceFails, BusInv, WritersTyped, KnownWritten, Written
<1>7. JobSound(w)'
  <2>1. writer'[w] = job BY <1>4, JobFacts
  <2>2. \A t : Written(t) => Written(t)' BY <1>1 DEF Written
  <2>3. QED BY <1>3, <1>6, <2>1, <2>2 DEF JobSound
<1>8. known' \in [Clients -> SUBSET AllSubjects] BY <1>1 DEF BusInv, WritersTyped
<1>9. QED BY <1>1, <1>3, <1>4, <1>5, <1>7, <1>8, NameAssumption, QuietStep

LEMMA NewMessageInv == ASSUME BusInv, NEW w \in Writers, NewMessage(w) PROVE BusInv'
<1>1. PICK typed \in BOOLEAN :
        log' = Append(log, [subject |-> writer[w].subject, about |-> writer[w].about,
                            at |-> Len(log) + 1 + Skew[ClientOf[w]], typed |-> typed])
  BY DEF NewMessage
<1>2. /\ writer[w].pc = "stamp"
      /\ writer' = [writer EXCEPT ![w].pc = "publish", ![w].id = Len(log) + 1]
      /\ UNCHANGED <<published, known, silent, pending, retained>>
  BY DEF NewMessage
<1>3. /\ log \in Seq(Messages) /\ published \subseteq DOMAIN log /\ Len(log) \in Nat
      /\ DOMAIN log = 1..Len(log)
  BY DEF BusInv, WritersTyped
<1>4. [subject |-> writer[w].subject, about |-> writer[w].about,
       at |-> Len(log) + 1 + Skew[ClientOf[w]], typed |-> typed] \in Messages
  BY <1>3, JobFacts, ClientAssumption DEF Messages
<1>5. /\ log' \in Seq(Messages) /\ DOMAIN log' = DOMAIN log \cup {Len(log) + 1}
      /\ \A i \in DOMAIN log : log'[i] = log[i]
      /\ log'[Len(log) + 1].subject = writer[w].subject
      /\ log'[Len(log) + 1].about = writer[w].about
  BY <1>1, <1>3, <1>4
<1>6. /\ writer' \in [Writers -> Jobs]
      /\ \A v \in Writers : /\ writer'[v].subject = writer[v].subject
                            /\ writer'[v].about = writer[v].about
                            /\ writer'[v].announce = writer[v].announce
      /\ writer'[w].pc = "publish" /\ writer'[w].id = Len(log) + 1
      /\ \A v \in Writers : v # w => writer'[v] = writer[v]
  BY <1>2, <1>3, JobFacts DEF Jobs
<1>7. \A s : (Written(s) <=> Written(s)') /\ (Announced(s) <=> Announced(s)')
  BY <1>2, <1>3, <1>5 DEF Written, Announced
<1>8. WritersTyped' BY <1>2, <1>3, <1>5, <1>6 DEF BusInv, WritersTyped
<1>9. KnownWritten'
  BY <1>2, <1>3, <1>5, <1>7 DEF BusInv, WritersTyped, KnownWritten
<1>10. JobsSound'
  <2> SUFFICES ASSUME NEW v \in Writers PROVE JobSound(v)' BY DEF JobsSound
  <2>1. JobSound(v) BY JobFacts
  <2>2. CASE v = w BY <2>1, <2>2, <1>2, <1>5, <1>6, <1>7 DEF JobSound
  <2>3. CASE v # w BY <2>1, <2>3, <1>2, <1>5, <1>6, <1>7 DEF JobSound
  <2>4. QED BY <2>2, <2>3
<1>11. NewSubjectsAnnounced'
  BY <1>2, <1>6, <1>7 DEF BusInv, NewSubjectsAnnounced
<1>12. QED BY <1>8, <1>9, <1>10, <1>11 DEF BusInv

LEMMA PublishInv == ASSUME BusInv, NEW w \in Writers, Publish(w) PROVE BusInv'
<1> DEFINE job == writer[w]
           next == IF job.announce THEN [Idle EXCEPT !.pc = "stamp", !.about = job.subject]
                   ELSE Idle
<1>1. /\ job.pc = "publish" /\ published' = published \cup {job.id}
      /\ known' = [known EXCEPT ![ClientOf[w]] = @ \cup {job.subject}]
      /\ writer' = [writer EXCEPT ![w] = next]
      /\ UNCHANGED <<log, silent, retained>>
  BY DEF Publish, MarkKnown, AnnounceCreated
<1>2. /\ Retain \in DOMAIN pending'
      /\ pending'[Retain] = [pending[Retain] EXCEPT ![ClientOf[w]] = Append(@, job.id)]
  BY DEF Publish, Audience, BusInv, WritersTyped
<1>3. /\ job \in Jobs /\ job.subject \in AllSubjects /\ job.about \in AllSubjects
      /\ job.id \in DOMAIN log /\ log[job.id].subject = job.subject
      /\ log[job.id].about = job.about
      /\ job.subject \in Subjects /\ ~job.announce
         => Written(job.subject) \/ job.subject \in silent
  BY <1>1, JobFacts DEF JobSound
<1>4. /\ next \in Jobs /\ next.subject = Created
      /\ job.announce => next.pc = "stamp" /\ next.about = job.subject
      /\ ~job.announce => next = Idle
  BY <1>3, IdleJob DEF Jobs, Idle
<1>5. \A s : (Written(s) => Written(s)') /\ (Announced(s) => Announced(s)')
  BY <1>1, Growing
<1>6. \A s : Written(s)' => Written(s) \/ s = job.subject
  BY <1>1, <1>3 DEF Written
<1>7. WritersTyped'
  <2>1. \A q \in Seq(published) : q \in Seq(published') /\ Append(q, job.id) \in Seq(published')
    BY <1>1
  <2>2. pending'[Retain] \in [Clients -> Seq(published')]
    BY <1>2, <2>1 DEF BusInv, WritersTyped
  <2>3. writer' \in [Writers -> Jobs] BY <1>1, <1>4, JobFacts
  <2>4. known' \in [Clients -> SUBSET AllSubjects]
    BY <1>1, <1>3 DEF BusInv, WritersTyped
  <2>5. QED BY <1>1, <1>2, <1>3, <2>2, <2>3, <2>4 DEF BusInv, WritersTyped
<1>8. KnownWritten'
  <2>1. ASSUME NEW c \in Clients, NEW s \in known'[c] \cap Subjects PROVE Written(s)'
    <3>1. s \in known[c] \/ s = job.subject BY <1>1 DEF BusInv, WritersTyped
    <3>2. CASE s \in known[c] BY <3>2, <1>5 DEF BusInv, KnownWritten
    <3>3. CASE s = job.subject BY <3>3, <1>1, <1>3 DEF Written
    <3>4. QED BY <3>1, <3>2, <3>3
  <2>2. QED BY <2>1, <1>1 DEF BusInv, KnownWritten
<1>9. JobsSound'
  <2> SUFFICES ASSUME NEW v \in Writers PROVE JobSound(v)' BY DEF JobsSound
  <2>1. JobSound(v) /\ writer'[w] = next BY <1>1, JobFacts
  <2>2. CASE v = w
    <3>1. next.pc = "stamp" \/ next = Idle BY <1>4
    <3>2. writer'[v].subject \notin Subjects BY <2>1, <2>2, <1>4, NameAssumption
    <3>3. Idle.pc = "idle" BY DEF Idle
    <3>4. writer'[v].pc = "stamp" \/ (writer'[v] = Idle /\ writer'[v].pc = "idle")
      BY <2>1, <2>2, <3>1, <3>3
    <3>5. QED BY <3>2, <3>4 DEF JobSound
  <2>3. CASE v # w
    <3>1. writer'[v] = writer[v] BY <1>1, <2>3, JobFacts
    <3>2. QED BY <3>1, <2>1, <1>1, <1>5 DEF JobSound
  <2>4. QED BY <2>2, <2>3
<1>10. NewSubjectsAnnounced'
  <2> SUFFICES ASSUME NEW s \in Subjects \ silent', Written(s)', ~Announced(s)'
               PROVE  \E v \in Writers : writer'[v].subject = Created /\ writer'[v].about = s
    BY DEF NewSubjectsAnnounced
  <2>1. s \in Subjects \ silent /\ ~Announced(s) BY <1>1, <1>5
  <2>2. CASE Written(s)
    <3>1. PICK v \in Writers : writer[v].subject = Created /\ writer[v].about = s
      BY <2>1, <2>2 DEF BusInv, NewSubjectsAnnounced
    <3>2. v # w BY <3>1, <1>1, <1>3 DEF Announced
    <3>3. writer'[v] = writer[v] BY <1>1, <3>2, JobFacts
    <3>4. QED BY <3>1, <3>3
  <2>3. CASE ~Written(s)
    <3>1. s = job.subject BY <2>3, <1>6
    <3>2. job.announce BY <3>1, <2>1, <2>3, <1>3
    <3>3. writer'[w] = next BY <1>1, JobFacts
    <3>4. QED BY <3>1, <3>2, <3>3, <1>4
  <2>4. QED BY <2>2, <2>3
<1>11. QED BY <1>7, <1>8, <1>9, <1>10 DEF BusInv

LEMMA IngestInv == ASSUME BusInv, NEW c \in Clients, HandleIngest(c) PROVE BusInv'
<1> DEFINE id == Head(pending[Retain][c])
<1>1. /\ pending[Retain][c] # <<>> /\ UNCHANGED <<log, published, known, writer, silent>>
      /\ retained' = [retained EXCEPT ![log[id].subject] = id]
      /\ pending' = [pending EXCEPT ![Retain][c] = Tail(@)]
  BY DEF HandleIngest, clientVars
<1>2. pending[Retain][c] \in Seq(published) BY DEF BusInv, WritersTyped
<1>3. id \in published /\ Tail(pending[Retain][c]) \in Seq(published)
  BY <1>1, <1>2
<1>4. log[id] \in Messages BY <1>3 DEF BusInv, WritersTyped
<1>5. log[id].subject \in AllSubjects BY <1>4 DEF Messages
<1>6. WritersTyped' BY <1>1, <1>3, <1>5 DEF BusInv, WritersTyped
<1>7. KnownWritten' BY <1>1, <1>5 DEF BusInv, WritersTyped, KnownWritten, Written
<1>8. JobsSound' BY <1>1 DEF BusInv, JobsSound, JobSound, Written
<1>9. NewSubjectsAnnounced'
  BY <1>1 DEF BusInv, NewSubjectsAnnounced, Written, Announced
<1>10. QED BY <1>6, <1>7, <1>8, <1>9 DEF BusInv

\* Every step of writers, retain service and readers keeps the invariant.
LEMMA BusStep == BusInv /\ [Next]_vars => BusInv'
<1> SUFFICES ASSUME BusInv, [Next]_vars PROVE BusInv' OBVIOUS
<1>1. CASE BusNext
  <2>1. ASSUME NEW w \in Writers, NEW s \in Subjects, Set(w, s) \/ Create(w, s)
        PROVE  BusInv'
    BY <2>1, SetInv, CreateInv
  <2>2. ASSUME NEW w \in Writers, WriterStep(w) PROVE BusInv'
    BY <2>2, CreateLooksInv, CreateFailsInv, AnnounceInv, NewMessageInv, PublishInv,
       PublishFailsInv DEF WriterStep
  <2>3. CASE RetainStalls
    BY <2>3, Frame DEF RetainStalls, BusInv, WritersTyped
  <2>4. QED BY <1>1, <2>1, <2>2, <2>3, IngestInv DEF BusNext
<1>2. CASE SubNext BY <1>2, SubFrame
<1>3. CASE ExactNext BY <1>3, ExactFrame
<1>4. CASE UNCHANGED vars
  BY <1>4, Frame DEF vars, busVars, clientVars, BusInv, WritersTyped
<1>5. QED BY <1>1, <1>2, <1>3, <1>4 DEF Next

\* The inductive invariant of the bus.
THEOREM BusInvariance == Spec => []BusInv
BY BusStep, InitBus, PTL DEF Spec

\* Whatever the interleaving of clients, goroutines and readers, shouldAnnounce,
\* markKnown and announceCreated leave no new subject unannounced, except by a
\* request or a publication that failed.
THEOREM SubjectsAnnounced == Spec => []NewSubjectsAnnounced
<1>1. BusInv => NewSubjectsAnnounced BY DEF BusInv
<1>2. QED BY <1>1, BusInvariance, PTL
=============================================================================
