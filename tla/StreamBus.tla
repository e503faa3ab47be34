------------------------------ MODULE StreamBus ------------------------------
(***************************************************************************)
(* The shared bus: the writing half of stream/client.go with the registry  *)
(* of new subjects, NATS, and the part of the retain service that other    *)
(* programs see (handleIngest and handleGet of retain/server.go).          *)
(*                                                                         *)
(* A message is known by its number, its place in `log`; 0 is no message.  *)
(* NATS keeps the order of the messages of one connection only, so a       *)
(* receiver has one queue per client and takes the head of any of them.    *)
(***************************************************************************)
EXTENDS Naturals, Sequences

CONSTANTS
    Clients,        \* stream.Client values: one NATS connection each
    Writers,        \* goroutines that call Set or Create
    ClientOf,       \* the client of each writer
    Skew,           \* how far the clock of a client's host is ahead
    Subjects,       \* telemetry and configuration subjects
    Created,        \* registry.subject.created
    Receivers,      \* NATS subscriptions of readers
    Retain,         \* the ingest subscription of the retain service
    Starts          \* what was written before, and the bounds of what follows:
                    \* calls of Set and Create, requests and publications that
                    \* fail, values of a type no reader asks for, subscriptions,
                    \* and calls of SubscribeExact, Add, Watch and Remove

ASSUME ClientAssumption ==
    ClientOf \in [Writers -> Clients] /\ Skew \in [Clients -> Nat]
ASSUME NameAssumption == Created \notin Subjects /\ Retain \notin Receivers

AllSubjects == Subjects \cup {Created}

\* A message of the registry is about the subject that appeared. typed: it has
\* the type its readers ask for.
Messages == [subject : AllSubjects, about : AllSubjects, at : Nat, typed : BOOLEAN]
Budgets == [calls : Nat, faults : Nat, mistyped : Nat, subscriptions : Nat,
            watches : Nat]

ASSUME StartAssumption ==
    \A start \in Starts :
        /\ start.log \in Seq(Messages) /\ start.left \in Budgets
        /\ \A i \in DOMAIN start.log :
             start.log[i].subject = Created
             \/ \E j \in DOMAIN start.log : start.log[j].subject = Created
                                            /\ start.log[j].about = start.log[i].subject

VARIABLES
    log,            \* messages built by newMessage
    published,      \* the numbers of those that Publish accepted
    known,          \* Client.known
    writer,         \* where each writer is inside Set or Create
    pending,        \* what NATS holds for each receiver, by client
    interest,       \* subjects each receiver is subscribed to
    retained,       \* Store.values of the retain service
    answering,      \* whether the retain service still answers
    left,           \* what is left of the bounds
    silent          \* subjects whose announcement a fault suppressed

clientVars == <<log, published, known, writer, silent>>
busVars == <<clientVars, pending, interest, retained, answering, left>>

Idle == [pc |-> "idle", subject |-> Created, announce |-> FALSE,
         about |-> Created, id |-> 0]
NoMessages == [c \in Clients |-> <<>>]

BusTypeOK ==
    /\ log \in Seq(Messages)
    /\ published \subseteq DOMAIN log
    /\ known \in [Clients -> SUBSET AllSubjects]
    /\ writer \in [Writers -> [pc : {"idle", "create", "check", "stamp", "publish"},
                               subject : AllSubjects, announce : BOOLEAN,
                               about : AllSubjects, id : Nat]]
    /\ pending \in [Receivers \cup {Retain} -> [Clients -> Seq(published)]]
    /\ interest \in [Receivers -> SUBSET AllSubjects]
    /\ retained \in [AllSubjects -> published \cup {0}]
    /\ answering \in BOOLEAN
    /\ left \in Budgets
    /\ silent \in SUBSET Subjects

\* A bus on which the messages of start.log were published by the clients and
\* ingested.
BusInit ==
    \E start \in Starts :
        /\ log = start.log /\ published = DOMAIN start.log
        /\ known = [c \in Clients |-> {log[i].subject : i \in DOMAIN log}]
        /\ writer = [w \in Writers |-> Idle]
        /\ pending = [r \in Receivers \cup {Retain} |-> NoMessages]
        /\ interest = [r \in Receivers |-> {}]
        /\ retained \in [AllSubjects -> 0..Len(log)]
        /\ \A s \in AllSubjects : \A i \in DOMAIN log :
             /\ log[i].subject = s => i <= retained[s]
             /\ i = retained[s] => log[i].subject = s
        /\ answering = TRUE
        /\ left = start.left
        /\ silent = {}

-----------------------------------------------------------------------------
(* Requests to the retain service. *)

Fault == left.faults > 0 /\ left' = [left EXCEPT !.faults = @ - 1]

\* A request that is not answered: the service stalls, or an error such as a
\* missing responder comes back at once.
Unanswered ==
    \/ ~answering /\ UNCHANGED left
    \/ answering /\ Fault

\* The retain service stops answering and ingesting, for good.
RetainStalls ==
    /\ answering /\ answering' = FALSE
    /\ UNCHANGED <<clientVars, pending, interest, retained, left>>

\* Server.handleIngest and Store.Put.
HandleIngest(c) ==
    /\ answering
    /\ pending[Retain][c] # <<>>
    /\ LET id == Head(pending[Retain][c])
       IN  retained' = [retained EXCEPT ![log[id].subject] = id]
    /\ pending' = [pending EXCEPT ![Retain][c] = Tail(@)]
    /\ UNCHANGED <<clientVars, interest, answering, left>>

-----------------------------------------------------------------------------
(* Set and Create, a step for each request, clock reading and publication. *)

\* The part of Set before the request of shouldAnnounce: only a subject the
\* client does not know is asked for.
SetBegins(w, s) ==
    writer' = [writer EXCEPT ![w] =
        [Idle EXCEPT !.pc = IF s \in known[ClientOf[w]] THEN "stamp" ELSE "check",
                     !.subject = s, !.about = s]]

Call(w) ==
    /\ writer[w].pc = "idle"
    /\ left.calls > 0 /\ left' = [left EXCEPT !.calls = @ - 1]

Set(w, s) ==
    /\ Call(w)
    /\ SetBegins(w, s)
    /\ UNCHANGED <<log, published, known, silent, pending, interest, retained,
                   answering>>

Create(w, s) ==
    /\ Call(w)
    /\ writer' = [writer EXCEPT ![w] = [Idle EXCEPT !.pc = "create",
                                                    !.subject = s, !.about = s]]
    /\ UNCHANGED <<log, published, known, silent, pending, interest, retained,
                   answering>>

MarkKnown(w) == [known EXCEPT ![ClientOf[w]] = @ \cup {writer[w].subject}]

\* Create got an answer: a value of the type asked for, a value of another
\* type (an error for the caller), or none, and then it sets the zero value.
CreateLooks(w) ==
    LET s == writer[w].subject IN
    /\ writer[w].pc = "create" /\ answering
    /\ IF retained[s] = 0
       THEN SetBegins(w, s) /\ UNCHANGED known
       ELSE /\ writer' = [writer EXCEPT ![w] = Idle]
            /\ known' = IF log[retained[s]].typed THEN MarkKnown(w) ELSE known
    /\ UNCHANGED <<log, published, silent, pending, interest, retained, answering,
                   left>>

CreateFails(w) ==
    /\ writer[w].pc = "create" /\ Unanswered
    /\ writer' = [writer EXCEPT ![w] = Idle]
    /\ UNCHANGED <<log, published, known, silent, pending, interest, retained,
                   answering>>

\* The request of shouldAnnounce.
ShouldAnnounce(w) ==
    /\ writer[w].pc = "check" /\ answering
    /\ writer' = [writer EXCEPT ![w].pc = "stamp",
                                ![w].announce = (retained[writer[w].subject] = 0)]
    /\ UNCHANGED <<log, published, known, silent, pending, interest, retained,
                   answering, left>>

\* A failed request counts as "exists": the write goes on unannounced.
ShouldAnnounceFails(w) ==
    /\ writer[w].pc = "check" /\ Unanswered
    /\ writer' = [writer EXCEPT ![w].pc = "stamp"]
    /\ silent' = silent \cup {writer[w].subject}
    /\ UNCHANGED <<log, published, known, pending, interest, retained, answering>>

\* newMessage: the clock is read before the message is published, and other
\* writers may run in between.
NewMessage(w) ==
    /\ writer[w].pc = "stamp"
    /\ \E typed \in BOOLEAN :
         /\ typed \/ (left.mistyped > 0 /\ writer[w].subject # Created)
         /\ left' = IF typed THEN left ELSE [left EXCEPT !.mistyped = @ - 1]
         /\ log' = Append(log, [subject |-> writer[w].subject,
                                about |-> writer[w].about,
                                at |-> Len(log) + 1 + Skew[ClientOf[w]],
                                typed |-> typed])
    /\ writer' = [writer EXCEPT ![w].pc = "publish", ![w].id = Len(log) + 1]
    /\ UNCHANGED <<published, known, silent, pending, interest, retained, answering>>

\* The receivers of a subject.
Audience(s) == {r \in Receivers : s \in interest[r]} \cup {Retain}

\* The Set of announceCreated, which asks for nothing.
AnnounceCreated(w) == [Idle EXCEPT !.pc = "stamp", !.about = writer[w].subject]

\* Connection.Publish, markKnown and, for a new subject, announceCreated.
Publish(w) ==
    LET job == writer[w]
        c == ClientOf[w]
    IN
    /\ job.pc = "publish"
    /\ published' = published \cup {job.id}
    /\ pending' = [r \in DOMAIN pending |->
         IF r \in Audience(job.subject)
         THEN [pending[r] EXCEPT ![c] = Append(@, job.id)] ELSE pending[r]]
    /\ known' = MarkKnown(w)
    /\ writer' = [writer EXCEPT ![w] = IF job.announce THEN AnnounceCreated(w) ELSE Idle]
    /\ UNCHANGED <<log, silent, interest, retained, answering, left>>

\* Mutant of PublishFails: marks the subject known all the same.
PublishFailsKnown(w) ==
    LET job == writer[w] IN
    /\ job.pc = "publish"
    /\ Fault
    /\ writer' = [writer EXCEPT ![w] = Idle]
    /\ known' = [known EXCEPT ![ClientOf[w]] = @ \cup {job.subject}]
    /\ silent' = IF job.subject = Created THEN silent \cup {job.about} ELSE silent
    /\ UNCHANGED <<log, published, pending, interest, retained, answering>>

PublishFails(w) ==
    LET job == writer[w] IN
    /\ job.pc = "publish"
    /\ Fault
    /\ writer' = [writer EXCEPT ![w] = Idle]
    /\ silent' = IF job.subject = Created THEN silent \cup {job.about} ELSE silent
    /\ UNCHANGED <<log, published, known, pending, interest, retained, answering>>

WriterStep(w) ==
    \/ CreateLooks(w) \/ CreateFails(w)
    \/ ShouldAnnounce(w) \/ ShouldAnnounceFails(w)
    \/ NewMessage(w) \/ Publish(w) \/ PublishFails(w)

BusNext ==
    \/ \E w \in Writers :
         \/ \E s \in Subjects : Set(w, s) \/ Create(w, s)
         \/ WriterStep(w)
    \/ \E c \in Clients : HandleIngest(c)
    \/ RetainStalls

-----------------------------------------------------------------------------
At(id) == log[id].at

Written(s) == \E id \in published : log[id].subject = s
Announced(s) ==
    \E id \in published : log[id].subject = Created /\ log[id].about = s

\* A subject that was written has been announced in the registry, or the writer
\* that wrote it first is about to announce it, whatever other clients and
\* goroutines do meanwhile (registry.go: "published once when a subject first
\* appears"). Only a failed request or publication of the announcement excuses
\* a subject.
NewSubjectsAnnounced ==
    \A s \in Subjects \ silent :
        Written(s) => \/ Announced(s)
                      \/ \E w \in Writers : /\ writer[w].subject = Created
                                            /\ writer[w].about = s
=============================================================================
