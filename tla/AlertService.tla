----------------------------- MODULE AlertService -----------------------------
(***************************************************************************)
(* alert/service.go: the alert service between the NATS bus and the        *)
(* evaluator.                                                              *)
(*                                                                         *)
(* Every handler runs under reconcileMu.  A handler is one action up to    *)
(* its call of evaluateAncestorsLocked; the iterations of that loop follow *)
(* as actions of their own, and no other handler runs until the queue is   *)
(* empty (Unlocked).  The process may die between two of them.             *)
(*                                                                         *)
(* The bus keeps the last value of every subject (the retain service) and  *)
(* delivers live messages to the watches of the service, in order for each *)
(* subject and in any order between subjects (ExactSubscription).  The     *)
(* service watches the subjects it publishes, so its own publications come *)
(* back to it.                                                             *)
(***************************************************************************)
EXTENDS AlertEvaluator, FiniteSets

CONSTANTS
    Garbage,           \* a string that does not parse
    Mistyped,          \* a value that is no string, or bytes that do not decode
    Unreliable,        \* subjects (alerts, property names) that requests and
                       \* watches may fail for
    Order,             \* Alerts in the order of sort.Strings
    InitialConfig,     \* alert -> config retained at the start, or Nil
    InitialProperty,   \* property name -> properties retained at the start
    InitialState,      \* alert -> state retained at the start, or Nil
    InitialInput,      \* alert -> last value of its source at the start
    ConfigChoices,     \* alert -> payloads somebody may publish as its config
    PropertyChoices,   \* property name -> payloads somebody may publish
    InputChoices,      \* alert -> values its source may take
    ForeignStates,     \* alert -> payloads others may publish on its .alert
    Acknowledgers,     \* alerts that operators acknowledge
    Registered,        \* <<alert, suffix>>: subjects the registry may have
                       \* announced last when the service subscribes to it
    MaxOps,            \* bound on the publications of the environment
    MaxFailures,       \* bound on the publications of the service that fail
    MaxCrashes         \* bound on the deaths of the service

ASSUME OrderAssumption ==
    /\ Order \in Seq(Alerts)
    /\ \A a \in Alerts : \E i \in DOMAIN Order : Order[i] = a
ASSUME PayloadsAssumption ==
    /\ InitialConfig \in [Alerts -> Config \cup {Garbage, Mistyped, Nil}]
    /\ InitialProperty \in
           [PropertyNames -> Properties \cup {Garbage, Mistyped, Nil}]
    /\ InitialState \in [Alerts -> State \cup {Garbage, Mistyped, Nil}]
    /\ ConfigChoices \in [Alerts -> SUBSET (Config \cup {Garbage, Mistyped})]
    /\ PropertyChoices \in
           [PropertyNames -> SUBSET (Properties \cup {Garbage, Mistyped})]
    /\ ForeignStates \in [Alerts -> SUBSET (State \cup {Garbage, Mistyped})]
    /\ Acknowledgers \subseteq Alerts
ASSUME GarbageAssumption ==
    /\ Garbage # Nil /\ Mistyped # Nil /\ Garbage # Mistyped
    /\ Nil \notin Config /\ Nil \notin Properties
    /\ Garbage \notin State /\ Garbage \notin Config /\ Garbage \notin Properties
    /\ Mistyped \notin State /\ Mistyped \notin Config /\ Mistyped \notin Properties
ASSUME BoundsAssumption ==
    MaxOps \in Nat /\ MaxFailures \in Nat /\ MaxCrashes \in Nat

VARIABLES
    phase,        \* progress of Run
    loaded,       \* number of configs loadInitial has read
    properties,   \* Service.properties
    definitions,  \* Service.definitions and byOutput: a config or Nil
    inputs,       \* alertDefinition.input
    parents,      \* Service.parents
    states,       \* Service.states
    dirty,        \* Service.dirty
    watched,      \* subjects of statesWatch
    queue,        \* queue of evaluateAncestorsLocked
    seen,         \* its seen set
    refresh,      \* definitions reconcilePropertyLocked has still to visit
    sweep,        \* the pass of evaluateAllSummariesLocked
    retained,     \* last message on every .alert subject
    retainedConfig, retainedProperty, retainedInput,
    inbox,        \* undelivered messages of every .alert subject: live ones
                  \* of the watch, and the one Add reads after an announcement
    configQ, propertyQ, inputQ,  \* undelivered messages by subject
    configAdded,  \* config that Add has read and not handed over, or Nil
    draft,        \* acknowledgement an operator has prepared but not sent
    missed,       \* subjects whose last message was neither taken nor answered
    older,        \* alerts that took a state which was not the last on the bus
    episodes,     \* number of episode ids given out, by alert
    ops, failures, crashes

graph == <<definitions, inputs, parents>>
loading == <<phase, loaded>>
handler == <<queue, seen, refresh, sweep>>
bus == <<retained, inbox, dirty, failures, missed, older>>
others == <<retainedConfig, retainedProperty, retainedInput>>
feeds == <<configQ, configAdded, propertyQ, inputQ>>
environment == <<draft, ops, crashes>>
vars == <<loading, graph, properties, states, watched, handler, bus, others,
          feeds, environment, episodes>>

NoInput == [type |-> "nil", v |-> 0]
NoSweep == [left |-> {}, changed |-> FALSE, pass |-> 0]

\* reconcileMu is free.
Unlocked == queue = <<>> /\ refresh = {} /\ sweep.left = {}

IsSummary(c) == c # Nil /\ c.type = "summary"
IsLeaf(c) == c # Nil /\ c.type # "summary"
Summaries == {a \in Alerts : IsSummary(definitions[a])}
Decoded(payload) == payload \notin {Nil, Garbage, Mistyped}

\* Mutant: a decoded state is not validated.
UsableDecoded(payload) == Decoded(payload)

\* ParseState.
Usable(payload) == Decoded(payload) /\ Validate(payload)

Message(state, by) == [state |-> state, by |-> by]
Messages == [state : State \cup {Garbage, Mistyped}, by : {"service", "operator", "other"}]

\* The registry has announced a subject; Add has not read its value yet.
Announcement == Message(Nil, "registry")

\* Nil, the absence of a message, is no message.
ASSUME MessageAssumption == Nil \notin Messages /\ Nil # Announcement

Inboxes ==
    [Alerts -> [live : Seq(Messages), added : Messages \cup {Nil, Announcement}]]

NoMessages == [live |-> <<>>, added |-> Nil]

\* The inbox of alert a after m was published on its subject; the first
\* write of a subject is also announced.
Delivered(a, m, box, W) ==
    [live |-> IF a \in W THEN Append(box.live, m) ELSE box.live,
     added |-> IF retained[a] = Nil /\ phase = "running"
               THEN Announcement ELSE box.added]

-----------------------------------------------------------------------------
(* Publishing.                                                             *)

\* Publish st[a] for every a in P; the publications in F fail and leave their
\* subject dirty.  Q are the inboxes before, W the watched subjects.
PublishSome(P, F, st, W, Q) ==
    /\ failures' = failures + Cardinality(F)
    /\ dirty' = (dirty \ P) \cup F
    /\ missed' = missed \ (P \ F)
    /\ UNCHANGED older
    /\ retained' = [a \in Alerts |-> IF a \in P \ F
                                     THEN Message(st[a], "service")
                                     ELSE retained[a]]
    /\ inbox' = [a \in Alerts |->
                    IF a \in P \ F
                    THEN Delivered(a, Message(st[a], "service"), Q[a], W)
                    ELSE Q[a]]

Publish(P, st, W, Q) ==
    \E F \in SUBSET P :
        /\ failures + Cardinality(F) <= MaxFailures
        /\ PublishSome(P, F, st, W, Q)

\* storeAndPublishLocked publishes a changed state, or one whose last
\* publication failed.
Unpublished(a, next, base) ==
    IF next # base[a] \/ a \in dirty THEN {a} ELSE {}

\* applyLocked: apply evaluation e to alert a on top of the states base.
Apply(a, e, base, W, Q) ==
    \E next \in {ApplyEvaluation(base[a], e, episodes[a] + 1)} :
        IF next = Nil
        THEN /\ states' = base
             /\ inbox' = Q
             /\ UNCHANGED <<episodes, retained, dirty, failures, missed, older>>
        ELSE LET st == [base EXCEPT ![a] = next]
             IN  /\ states' = st
                 /\ Publish(Unpublished(a, next, base), st, W, Q)
                 /\ episodes' = IF next.episode = episodes[a] + 1
                                THEN [episodes EXCEPT ![a] = @ + 1]
                                ELSE episodes

\* evaluateDefinitionLocked returns without a result for these inputs.
Unevaluable(c, input) ==
    \/ c.type = "binary" /\ input.type # "bool"
    \/ c.type = "value" /\ input = NoInput

Evaluate(c, input, props, st) ==
    CASE c.type = "binary" -> EvaluateBinary(c, input, props)
      [] c.type = "value" -> EvaluateValue(c, input, props)
      [] OTHER -> EvaluateSummary(c, st)

\* evaluateDefinitionLocked: an evaluation error makes the alert inactive.
EvaluateDefinition(a, c, input, base, props, W, Q) ==
    IF Unevaluable(c, input)
    THEN /\ states' = base
         /\ inbox' = Q
         /\ UNCHANGED <<episodes, retained, dirty, failures, missed, older>>
    ELSE \E e \in {Evaluate(c, input, props, base)} :
            Apply(a, IF e = Nil THEN Inactive ELSE e, base, W, Q)

\* The handler ends, or goes on with evaluateAncestorsLocked(a, nil).
Ancestors(q) ==
    /\ queue' = q
    /\ seen' = {}
    /\ UNCHANGED <<refresh, sweep>>

\* Mutant: only the parents are evaluated, not the ancestors above them.
RemainingParents(fresh) == Tail(queue)

\* The queue after its head: an evaluated summary adds its parents.
Remaining(fresh) ==
    IF fresh THEN Tail(queue) \o parents[Head(queue)] ELSE Tail(queue)

\* One iteration of the loop of evaluateAncestorsLocked.
EvaluateAncestor ==
    /\ queue # <<>>
    /\ LET s == Head(queue)
           fresh == s \notin seen /\ definitions[s] # Nil
           rest == Remaining(fresh)
       IN  /\ queue' = rest
           /\ seen' = IF rest = <<>> /\ refresh = {} THEN {} ELSE seen \cup {s}
           /\ IF fresh
              THEN EvaluateDefinition(s, definitions[s], NoInput, states,
                                      properties, watched, inbox)
              ELSE UNCHANGED <<states, bus, episodes>>
    /\ UNCHANGED <<loading, graph, properties, watched, refresh, sweep, others,
                   feeds, environment>>

-----------------------------------------------------------------------------
(* Configurations.                                                         *)

\* removeString: result[i] is what its loop has kept of the first i values.
Without(values, target) ==
    LET result[i \in 0..Len(values)] ==
            IF i = 0 THEN <<>>
            ELSE IF values[i] # target THEN Append(result[i - 1], values[i])
            ELSE result[i - 1]
    IN  result[Len(values)]

\* summaryCycleLocked: from start there is a walk through summary members
\* that never ends.
SummaryCycle(defs, start) ==
    \E C \in SUBSET Alerts :
        /\ start \in C
        /\ \A x \in C : IsSummary(defs[x]) /\ MemberSet(defs[x]) \cap C # {}

\* Mutant: a removed summary stays hooked to its members.
UnhookedNever(a) == parents

\* unhookParentsLocked.
Unhooked(a) == [m \in Alerts |-> Without(parents[m], a)]

\* hookParentsLocked.
Hooked(a, c) ==
    [m \in Alerts |-> IF m \in MemberSet(c)
                      THEN Append(Unhooked(a)[m], a)
                      ELSE Unhooked(a)[m]]

Enabled(raw, a) == raw # Garbage /\ ValidConfig(raw, a) /\ raw.enabled

\* Mutant: no cycle check.
AcceptedCyclic(raw, a) == Enabled(raw, a)

\* A config that becomes a definition.
Accepted(raw, a) ==
    /\ Enabled(raw, a)
    /\ ~SummaryCycle([definitions EXCEPT ![a] = raw], a)

\* catchUpStateLocked for the members of an accepted summary; the reads of
\* those in F fail.
CaughtUp(c, F) ==
    [x \in Alerts |->
        IF /\ IsSummary(c) /\ x \in MemberSet(c) \ F
           /\ states[x] = Nil /\ retained[x] # Nil /\ Usable(retained[x].state)
        THEN retained[x].state
        ELSE states[x]]

\* Remove unsubscribes the source: messages the worker has not got yet are
\* dropped.
DropInputs(a) ==
    IF IsLeaf(definitions[a])
    THEN \E k \in 0..Len(inputQ[a]) :
            inputQ' = [inputQ EXCEPT ![a] = SubSeq(@, 1, k)]
    ELSE UNCHANGED inputQ

\* reconcileConfigLocked for an invalid, disabled or cyclic config, or one
\* whose source cannot be watched.
RejectConfig(a, raw) ==
    LET W == IF Enabled(raw, a) THEN watched \cup {a} ELSE watched
    IN  /\ Accepted(raw, a) => IsLeaf(raw) /\ a \in Unreliable
        /\ definitions' = [definitions EXCEPT ![a] = Nil]
        /\ inputs' = [inputs EXCEPT ![a] = NoInput]
        /\ parents' = Unhooked(a)
        /\ watched' = W
        /\ Apply(a, Inactive, states, W, inbox)
        /\ Ancestors(Unhooked(a)[a])

\* reconcileConfigLocked for a summary.
AcceptSummary(a, raw) ==
    LET W == watched \cup {a} \cup MemberSet(raw)
    IN  /\ Accepted(raw, a) /\ IsSummary(raw)
        /\ definitions' = [definitions EXCEPT ![a] = raw]
        /\ inputs' = [inputs EXCEPT ![a] = NoInput]
        /\ parents' = Hooked(a, raw)
        /\ watched' = W
        /\ \E F \in SUBSET Unreliable :
            EvaluateDefinition(a, raw, NoInput, CaughtUp(raw, F), properties, W, inbox)
        /\ Ancestors(Hooked(a, raw)[a])

\* reconcileConfigLocked for a binary or value alert: watch the source, then
\* read its last value, if that succeeds.
AcceptLeaf(a, raw) ==
    LET W == watched \cup {a}
    IN  /\ Accepted(raw, a) /\ IsLeaf(raw)
        /\ definitions' = [definitions EXCEPT ![a] = raw]
        /\ parents' = Unhooked(a)
        /\ watched' = W
        /\ \E input \in {retainedInput[a]} \cup {NoInput : u \in {a} \cap Unreliable} :
            /\ inputs' = [inputs EXCEPT ![a] = input]
            /\ EvaluateDefinition(a, raw, input, states, properties, W, inbox)
            /\ Ancestors(IF input = NoInput THEN <<>> ELSE Unhooked(a)[a])

ReconcileConfig(a, raw) ==
    /\ DropInputs(a)
    /\ RejectConfig(a, raw) \/ AcceptSummary(a, raw) \/ AcceptLeaf(a, raw)

\* The handler of the configs watch: a value that is no string is only logged.
ConfigArrives(a, raw) ==
    IF raw = Mistyped
    THEN UNCHANGED <<graph, states, watched, handler, bus, inputQ, episodes>>
    ELSE ReconcileConfig(a, raw)

\* It takes the next message of the watch, or the value that Add has read: two
\* goroutines, in either order.
HandleConfig(a) ==
    /\ Unlocked /\ phase = "running"
    /\ \/ /\ configQ[a] # <<>>
          /\ ConfigArrives(a, Head(configQ[a]))
          /\ configQ' = [configQ EXCEPT ![a] = Tail(@)]
          /\ UNCHANGED configAdded
       \/ /\ configAdded[a] # Nil
          /\ ConfigArrives(a, configAdded[a])
          /\ configAdded' = [configAdded EXCEPT ![a] = Nil]
          /\ UNCHANGED configQ
    /\ UNCHANGED <<loading, properties, others, propertyQ, environment>>
-----------------------------------------------------------------------------
(* Properties and inputs.                                                  *)

\* Mutant: nothing is evaluated again.
ReconcilePropertyStores(p, raw) ==
    /\ properties' = [properties EXCEPT ![p] = IF Decoded(raw) THEN raw ELSE Nil]
    /\ refresh' = {}

\* reconcilePropertyLocked up to its loop over the definitions.
ReconcileProperty(p, raw) ==
    /\ properties' = [properties EXCEPT ![p] = IF Decoded(raw) THEN raw ELSE Nil]
    /\ refresh' = {a \in Alerts : /\ IsLeaf(definitions[a])
                                  /\ References(definitions[a], p)
                                  /\ inputs[a] # NoInput}

\* SubscribePrefixString hands on strings only.
HandleProperty(p) ==
    /\ Unlocked /\ phase = "running" /\ propertyQ[p] # <<>>
    /\ IF Head(propertyQ[p]) = Mistyped
       THEN UNCHANGED <<properties, refresh>>
       ELSE ReconcileProperty(p, Head(propertyQ[p]))
    /\ propertyQ' = [propertyQ EXCEPT ![p] = Tail(@)]
    /\ UNCHANGED <<loading, graph, states, watched, queue, seen, sweep, bus,
                   others, configQ, configAdded, inputQ, environment, episodes>>

\* One iteration of that loop, in Go's unspecified map order: evaluate the
\* definition, then its ancestors with the seen set of the whole loop.
RefreshDefinition(a) ==
    /\ queue = <<>> /\ a \in refresh
    /\ EvaluateDefinition(a, definitions[a], inputs[a], states, properties,
                          watched, inbox)
    /\ refresh' = refresh \ {a}
    /\ queue' = parents[a]
    /\ seen' = IF refresh' = {} /\ queue' = <<>> THEN {} ELSE seen
    /\ UNCHANGED <<loading, graph, properties, watched, sweep, others, feeds,
                   environment>>

\* acceptSourceLocked and acceptInputLocked.
AcceptInput(a, value) ==
    IF IsLeaf(definitions[a])
    THEN /\ inputs' = [inputs EXCEPT ![a] = value]
         /\ EvaluateDefinition(a, definitions[a], value, states, properties,
                               watched, inbox)
         /\ Ancestors(parents[a])
    ELSE UNCHANGED <<inputs, states, bus, episodes, handler>>

HandleInput(a) ==
    /\ Unlocked /\ phase # "down" /\ inputQ[a] # <<>>
    /\ AcceptInput(a, Head(inputQ[a]))
    /\ inputQ' = [inputQ EXCEPT ![a] = Tail(@)]
    /\ UNCHANGED <<loading, definitions, parents, properties, watched, others,
                   configQ, configAdded, propertyQ, environment>>

-----------------------------------------------------------------------------
(* State messages: acknowledgements, foreign states and echoes.            *)

\* Mutant: the members of a summary are left alone.
AckTreeRoot(root) == {root}

\* The subjects acknowledgeTreeLocked(root) visits: members of summaries that
\* are active or pending.
AckTree(root) ==
    LET Closed(C) == \A x \in C : IsSummary(definitions[x]) =>
                        \A m \in MemberSet(definitions[x]) :
                            states[m] # Nil /\ Raising(states[m]) => m \in C
    IN  {x \in Alerts : \A C \in SUBSET Alerts : root \in C /\ Closed(C) => x \in C}

\* Mutant: an acknowledgement of another episode is accepted.
AcknowledgedNoEpisode(incoming, canonical) ==
    incoming.acknowledged /\ canonical.pending

\* The condition under which a state message is an acknowledgement.
Acknowledges(incoming, canonical) ==
    /\ incoming.acknowledged
    /\ canonical.pending
    /\ incoming.episode = canonical.episode

\* acknowledgeTreeLocked or acknowledgeOneLocked, then the ancestors.
AcknowledgeTree(a, Q) ==
    LET done == {x \in AckTree(a) : states[x] # Nil /\ Acknowledgeable(states[x])}
        st == [x \in Alerts |-> IF x \in done THEN Acknowledge(states[x])
                                             ELSE states[x]]
    IN  /\ states' = st
        /\ Publish(done, st, watched, Q)
        /\ Ancestors(parents[a])

\* republishCanonicalLocked.
Republish(a, Q) ==
    /\ Publish({a}, states, watched, Q)
    /\ UNCHANGED <<states, handler>>

Ignore(Q) ==
    /\ inbox' = Q
    /\ UNCHANGED <<states, handler, retained, dirty, failures, missed, older>>

\* A message the service neither takes nor answers.
Discard(a, Q) ==
    /\ inbox' = Q
    /\ missed' = missed \cup {a}
    /\ UNCHANGED <<states, handler, retained, dirty, failures, older>>

\* An alert that has no definition, or no state yet, takes the state it is
\* sent, be it the last one on the bus or not.
AdoptState(a, incoming, Q) ==
    IF Usable(incoming)
    THEN /\ states' = [states EXCEPT ![a] = incoming]
         /\ inbox' = Q
         /\ missed' = IF retained[a].state = incoming THEN missed \ {a}
                                                      ELSE missed \cup {a}
         /\ older' = IF retained[a].state = incoming THEN older ELSE older \cup {a}
         /\ UNCHANGED <<retained, dirty, failures>>
         /\ Ancestors(parents[a])
    ELSE Discard(a, Q)

\* Mutant: an echo is answered like any other message.
ReconcileStateAnswersEcho(a, incoming, Q) ==
    LET owned == definitions[a] # Nil
        canonical == states[a]
    IN  IF incoming = Garbage
        THEN IF owned /\ canonical # Nil THEN Republish(a, Q) ELSE Discard(a, Q)
        ELSE IF ~owned \/ canonical = Nil THEN AdoptState(a, incoming, Q)
        ELSE IF Acknowledges(incoming, canonical) THEN AcknowledgeTree(a, Q)
        ELSE Republish(a, Q)

\* Mutant: a message that is no acknowledgement is only dropped.
ReconcileStateNoRepublish(a, incoming, Q) ==
    LET owned == definitions[a] # Nil
        canonical == states[a]
    IN  IF incoming = Garbage
        THEN Ignore(Q)
        ELSE IF ~owned \/ canonical = Nil THEN AdoptState(a, incoming, Q)
        ELSE IF Acknowledges(incoming, canonical) THEN AcknowledgeTree(a, Q)
        ELSE Ignore(Q)

ReconcileState(a, incoming, Q) ==
    LET owned == definitions[a] # Nil
        canonical == states[a]
    IN  IF incoming = Garbage
        THEN IF owned /\ canonical # Nil THEN Republish(a, Q) ELSE Discard(a, Q)
        ELSE IF ~owned \/ canonical = Nil THEN AdoptState(a, incoming, Q)
        ELSE IF incoming = canonical THEN Ignore(Q)
        ELSE IF Acknowledges(incoming, canonical) THEN AcknowledgeTree(a, Q)
        ELSE Republish(a, Q)

\* The handler of the states watch: a value that is no string is only logged,
\* and bytes that do not decode never reach it.
StateArrives(a, payload, Q) ==
    IF payload = Mistyped THEN Ignore(Q) ELSE ReconcileState(a, payload, Q)

HandleState(a) ==
    /\ Unlocked /\ phase # "down" /\ inbox[a].live # <<>>
    /\ StateArrives(a, Head(inbox[a].live).state,
                    [inbox EXCEPT ![a].live = Tail(@)])
    /\ UNCHANGED <<loading, graph, properties, watched, others, feeds,
                   environment, episodes>>

\* handleCreated for an .alert subject: Add watches it and reads its last
\* value ...
HandleCreated(a) ==
    /\ inbox[a].added = Announcement
    /\ watched' = watched \cup {a}
    /\ inbox' = [inbox EXCEPT ![a].added = retained[a]]
    /\ UNCHANGED <<loading, graph, properties, states, handler, retained, dirty,
                   failures, missed, older, others, feeds, environment, episodes>>

\* ... and hands it to the state handler, past the messages of the watch.
HandleAdded(a) ==
    /\ Unlocked /\ inbox[a].added \notin {Nil, Announcement}
    /\ StateArrives(a, inbox[a].added.state, [inbox EXCEPT ![a].added = Nil])
    /\ UNCHANGED <<loading, graph, properties, watched, others, feeds,
                   environment, episodes>>

-----------------------------------------------------------------------------
(* Run: loadInitial and subscribeGlobals.  load skips what it cannot read. *)

\* Mutant: what does not decode is kept.
LoadStatesRaw ==
    /\ phase = "down"
    /\ phase' = "properties"
    /\ states' = [a \in Alerts |->
                    IF retained[a] # Nil THEN retained[a].state ELSE Nil]
    /\ UNCHANGED <<loaded, graph, properties, watched, handler, bus, others,
                   feeds, environment, episodes>>

LoadStates ==
    /\ phase = "down"
    /\ phase' = "properties"
    /\ \E F \in SUBSET Unreliable :
        states' = [a \in Alerts |->
                    IF a \notin F /\ retained[a] # Nil /\ Usable(retained[a].state)
                    THEN retained[a].state ELSE Nil]
    /\ UNCHANGED <<loaded, graph, properties, watched, handler, bus, others,
                   feeds, environment, episodes>>

LoadProperties ==
    /\ phase = "properties"
    /\ phase' = "configs"
    /\ \E F \in SUBSET Unreliable :
        properties' = [p \in PropertyNames |->
                        IF p \notin F /\ Decoded(retainedProperty[p])
                        THEN retainedProperty[p] ELSE Nil]
    /\ UNCHANGED <<loaded, graph, states, watched, handler, bus, others, feeds,
                   environment, episodes>>

LoadConfig ==
    /\ Unlocked /\ phase = "configs" /\ loaded < Len(Order)
    /\ loaded' = loaded + 1
    /\ LET a == Order[loaded + 1]
       IN  \E raw \in {retainedConfig[a]} \cup {Nil : u \in {a} \cap Unreliable} :
            IF raw \in {Nil, Mistyped}
            THEN UNCHANGED <<graph, states, watched, handler, bus, inputQ, episodes>>
            ELSE ReconcileConfig(a, raw)
    /\ UNCHANGED <<phase, properties, others, configQ, configAdded, propertyQ,
                   environment>>

\* evaluateAllSummariesLocked begins a pass over all summaries.
BeginSweep ==
    /\ Unlocked /\ phase = "configs" /\ loaded = Len(Order)
    /\ phase' = "sweep"
    /\ sweep' = [left |-> Summaries, changed |-> FALSE, pass |-> 0]
    /\ UNCHANGED <<loaded, graph, properties, states, watched, queue, seen,
                   refresh, bus, others, feeds, environment, episodes>>

\* One summary of the pass; a pass that changed something is repeated.
SweepSummary(a) ==
    /\ a \in sweep.left
    /\ EvaluateDefinition(a, definitions[a], NoInput, states, properties,
                          watched, inbox)
    /\ LET changed == sweep.changed \/ states'[a] # states[a]
           more == sweep.left # {a}
           again == ~more /\ changed
                    /\ sweep.pass < Cardinality({x \in Alerts : definitions[x] # Nil})
       IN  sweep' = IF more THEN [sweep EXCEPT !.left = @ \ {a}, !.changed = changed]
                    ELSE IF again
                    THEN [left |-> Summaries, changed |-> FALSE,
                          pass |-> sweep.pass + 1]
                    ELSE NoSweep
    /\ UNCHANGED <<loading, graph, properties, watched, queue, seen, refresh,
                   others, feeds, environment>>

\* SubscribeCreated first delivers the last announcement of the registry, if
\* there is one: of an .alert subject, a .config subject or some other.  Add
\* then reads what load has read before.
LastAnnounced ==
    \/ UNCHANGED <<inbox, configAdded>>
    \/ \E a \in Alerts :
        /\ <<a, "alert">> \in Registered /\ retained[a] # Nil
        /\ inbox' = [inbox EXCEPT ![a].added = Announcement]
        /\ UNCHANGED configAdded
    \/ \E a \in Alerts :
        /\ <<a, "config">> \in Registered /\ retainedConfig[a] # Nil
        /\ configAdded' = [configAdded EXCEPT ![a] = retainedConfig[a]]
        /\ UNCHANGED inbox

\* subscribeGlobals: SubscribePrefix first delivers the last properties, and
\* watchKnown watches every known subject without reading it again.
SubscribeGlobals ==
    /\ phase = "sweep" /\ sweep.left = {}
    /\ phase' = "running"
    /\ propertyQ' = [p \in PropertyNames |->
                        IF retainedProperty[p] = Nil THEN <<>>
                        ELSE <<retainedProperty[p]>>]
    /\ LastAnnounced
    /\ watched' = watched \cup {a \in Alerts : retained[a] # Nil}
    /\ UNCHANGED <<loaded, graph, properties, states, handler, retained, dirty,
                   failures, missed, older, others, configQ, inputQ, environment,
                   episodes>>

\* The process dies and loses its memory and its subscriptions.
Crash ==
    /\ phase # "down" /\ crashes < MaxCrashes
    /\ crashes' = crashes + 1
    /\ phase' = "down" /\ loaded' = 0
    /\ properties' = [p \in PropertyNames |-> Nil]
    /\ definitions' = [a \in Alerts |-> Nil]
    /\ inputs' = [a \in Alerts |-> NoInput]
    /\ parents' = [a \in Alerts |-> <<>>]
    /\ states' = [a \in Alerts |-> Nil]
    /\ dirty' = {} /\ watched' = {} /\ missed' = {} /\ older' = {}
    /\ queue' = <<>> /\ seen' = {} /\ refresh' = {} /\ sweep' = NoSweep
    /\ inbox' = [a \in Alerts |-> NoMessages]
    /\ configQ' = [a \in Alerts |-> <<>>]
    /\ configAdded' = [a \in Alerts |-> Nil]
    /\ inputQ' = [a \in Alerts |-> <<>>]
    /\ propertyQ' = [p \in PropertyNames |-> <<>>]
    /\ UNCHANGED <<retained, failures, others, draft, ops, episodes>>
-----------------------------------------------------------------------------
(* Everybody else on the bus.                                              *)

Operation == ops < MaxOps /\ ops' = ops + 1

\* A last value changes and, when somebody watches, a message is delivered.
WriteState(a, payload, by) ==
    /\ retained' = [retained EXCEPT ![a] = Message(payload, by)]
    /\ inbox' = [inbox EXCEPT ![a] = Delivered(a, Message(payload, by), @, watched)]
    /\ missed' = IF a \in watched \/ phase \in {"down", "running"}
                 THEN missed ELSE missed \cup {a}
    /\ UNCHANGED <<loading, graph, properties, states, watched, handler, dirty,
                   failures, older, others, feeds, crashes, episodes>>

PublishForeign(a, payload) ==
    /\ Operation
    /\ WriteState(a, payload, "other")
    /\ UNCHANGED draft

\* designer.acknowledgeAlert reads the last state, which must be pending ...
ReadAlert(a) ==
    /\ Operation
    /\ retained[a] # Nil /\ Usable(retained[a].state) /\ retained[a].state.pending
    /\ draft[a] = Nil
    /\ draft' = [draft EXCEPT ![a] = [retained[a].state EXCEPT !.acknowledged = TRUE]]
    /\ UNCHANGED <<loading, graph, properties, states, watched, handler, bus,
                   others, feeds, crashes, episodes>>

\* ... and publishes it with acknowledged set, later.
AcknowledgeAlert(a) ==
    /\ draft[a] # Nil
    /\ draft' = [draft EXCEPT ![a] = Nil]
    /\ WriteState(a, draft[a], "operator")
    /\ UNCHANGED ops

PublishInput(a, value) ==
    /\ Operation
    /\ retainedInput' = [retainedInput EXCEPT ![a] = value]
    /\ inputQ' = IF IsLeaf(definitions[a])
                 THEN [inputQ EXCEPT ![a] = Append(@, value)] ELSE inputQ
    /\ UNCHANGED <<loading, graph, properties, states, watched, handler, bus,
                   retainedConfig, retainedProperty, configQ, configAdded,
                   propertyQ, draft,
                   crashes, episodes>>

\* The first config of an alert is announced, and read by Add.
PublishConfig(a, raw) ==
    /\ Operation
    /\ retainedConfig' = [retainedConfig EXCEPT ![a] = raw]
    /\ configQ' = IF phase = "running" /\ retainedConfig[a] # Nil
                  THEN [configQ EXCEPT ![a] = Append(@, raw)] ELSE configQ
    /\ configAdded' = IF phase = "running" /\ retainedConfig[a] = Nil
                      THEN [configAdded EXCEPT ![a] = raw] ELSE configAdded
    /\ UNCHANGED <<loading, graph, properties, states, watched, handler, bus,
                   retainedProperty, retainedInput, propertyQ, inputQ, draft,
                   crashes, episodes>>

PublishProperty(p, raw) ==
    /\ Operation
    /\ retainedProperty' = [retainedProperty EXCEPT ![p] = raw]
    /\ propertyQ' = IF phase = "running"
                    THEN [propertyQ EXCEPT ![p] = Append(@, raw)] ELSE propertyQ
    /\ UNCHANGED <<loading, graph, properties, states, watched, handler, bus,
                   retainedConfig, retainedInput, configQ, configAdded, inputQ, draft,
                   crashes, episodes>>

-----------------------------------------------------------------------------
Init ==
    /\ phase = "down" /\ loaded = 0
    /\ properties = [p \in PropertyNames |-> Nil]
    /\ definitions = [a \in Alerts |-> Nil]
    /\ inputs = [a \in Alerts |-> NoInput]
    /\ parents = [a \in Alerts |-> <<>>]
    /\ states = [a \in Alerts |-> Nil]
    /\ dirty = {} /\ watched = {} /\ missed = {} /\ older = {}
    /\ queue = <<>> /\ seen = {} /\ refresh = {} /\ sweep = NoSweep
    /\ retained = [a \in Alerts |-> IF InitialState[a] = Nil THEN Nil
                                     ELSE Message(InitialState[a], "service")]
    /\ retainedConfig = InitialConfig
    /\ retainedProperty = InitialProperty
    /\ retainedInput = InitialInput
    /\ inbox = [a \in Alerts |-> NoMessages]
    /\ configQ = [a \in Alerts |-> <<>>]
    /\ configAdded = [a \in Alerts |-> Nil]
    /\ inputQ = [a \in Alerts |-> <<>>]
    /\ propertyQ = [p \in PropertyNames |-> <<>>]
    /\ draft = [a \in Alerts |-> Nil]
    /\ episodes = [a \in Alerts |-> 0]
    /\ ops = 0 /\ failures = 0 /\ crashes = 0

Handlers ==
    \/ LoadStates \/ LoadProperties \/ LoadConfig \/ BeginSweep \/ SubscribeGlobals
    \/ EvaluateAncestor
    \/ \E p \in PropertyNames : HandleProperty(p)
    \/ \E a \in Alerts :
        \/ HandleConfig(a) \/ HandleInput(a) \/ HandleState(a)
        \/ HandleCreated(a) \/ HandleAdded(a) \/ RefreshDefinition(a) \/ SweepSummary(a)

Environment ==
    \/ \E a \in Alerts :
        \/ \E value \in InputChoices[a] : PublishInput(a, value)
        \/ \E raw \in ConfigChoices[a] : PublishConfig(a, raw)
        \/ \E s \in ForeignStates[a] : PublishForeign(a, s)
    \/ \E a \in Acknowledgers : ReadAlert(a) \/ AcknowledgeAlert(a)
    \/ \E p \in PropertyNames : \E raw \in PropertyChoices[p] : PublishProperty(p, raw)

Next == Handlers \/ Environment \/ Crash

\* The service keeps taking the steps it can: its goroutines are scheduled and
\* NATS hands over what it has received.  Nothing is assumed of the others.
Fairness == WF_vars(Handlers)

Spec == Init /\ [][Next]_vars /\ Fairness

-----------------------------------------------------------------------------
\* What crosses the bus, and what the service keeps of it.
PayloadsOK ==
    /\ phase \in {"down", "properties", "configs", "sweep", "running"}
    /\ loaded \in 0..Len(Order)
    /\ properties \in [PropertyNames -> Properties \cup {Nil}]
    /\ definitions \in [Alerts -> Config \cup {Nil}]
    /\ states \in [Alerts -> State \cup {Nil}]
    /\ retained \in [Alerts -> Messages \cup {Nil}]
    /\ inbox \in Inboxes
    /\ retainedConfig \in [Alerts -> Config \cup {Garbage, Mistyped, Nil}]
    /\ retainedProperty \in [PropertyNames -> Properties \cup {Garbage, Mistyped, Nil}]
    /\ configQ \in [Alerts -> Seq(Config \cup {Garbage, Mistyped})]
    /\ configAdded \in [Alerts -> Config \cup {Garbage, Mistyped, Nil}]
    /\ propertyQ \in [PropertyNames -> Seq(Properties \cup {Garbage, Mistyped})]
    /\ draft \in [Alerts -> State \cup {Nil}]
    /\ episodes \in [Alerts -> Nat]

\* The work the handlers have in hand, and the bookkeeping of subjects.
WorkOK ==
    /\ parents \in [Alerts -> Seq(Alerts)]
    /\ queue \in Seq(Alerts) /\ seen \in SUBSET Alerts
    /\ refresh \in SUBSET Alerts
    /\ sweep \in [left : SUBSET Alerts, changed : BOOLEAN, pass : Nat]
    /\ dirty \in SUBSET Alerts /\ watched \in SUBSET Alerts
    /\ missed \in SUBSET Alerts /\ older \in SUBSET Alerts

TypeOK == PayloadsOK /\ WorkOK

\* Every state the service keeps satisfies State.Validate, whatever mix of
\* evaluations, acknowledgements, foreign states and restarts produced it.
StatesValid == \A a \in Alerts : states[a] # Nil => Validate(states[a])

\* No evaluation is ever refused by ApplyEvaluation: an alert would silently
\* keep its old state (applyLocked logs and returns).
NeverFrozen ==
    \A a \in Alerts :
        definitions[a] # Nil /\ ~Unevaluable(definitions[a], inputs[a]) =>
            LET e == Evaluate(definitions[a], inputs[a], properties, states)
            IN  ApplyEvaluation(states[a], IF e = Nil THEN Inactive ELSE e,
                                episodes[a] + 1) # Nil

\* Whenever the lock is free, a leaf alert is active exactly when its last
\* accepted input, under the current properties, says so.
LeafFollowsInput ==
    Unlocked => \A a \in Alerts :
        IsLeaf(definitions[a]) /\ ~Unevaluable(definitions[a], inputs[a]) =>
            LET e == Evaluate(definitions[a], inputs[a], properties, states)
            IN  states[a] # Nil /\ (states[a].active <=> e # Nil /\ e.active)

\* Once everything written about an owned alert has been handled, the last
\* value on the bus is the canonical state: foreign states, strings that do
\* not parse, failed acknowledgements and echoes are all overwritten, and only
\* a value that is no string stays (the watch logs it and does not answer).
\* Excepted are alerts whose publication failed (dirty), that are pending
\* without an episode, or whose last message the service neither took nor
\* answered: one written between the load and the watch, an unusable one
\* written while they had no definition, or one that the older value read by
\* Add was adopted over.
BusConverges ==
    Unlocked /\ phase = "running" => \A a \in Alerts :
        /\ definitions[a] # Nil /\ states[a] # Nil
        /\ inbox[a] = NoMessages /\ a \notin dirty /\ a \notin missed
        /\ ~(states[a].pending /\ states[a].episode = 0)
        => retained[a] # Nil /\ retained[a].state \in {states[a], Mistyped}

\* An owned alert is pending no more in its episode.
NoLongerPending(a) ==
    /\ definitions[a] # Nil
    /\ states[a] # Nil /\ states'[a] # Nil
    /\ states[a].pending /\ ~states'[a].pending
    /\ states[a].episode = states'[a].episode

\* Alert x and all that it summarizes, on any level.
Below(x) ==
    LET Closed(C) == \A y \in C :
            IsSummary(definitions[y]) => MemberSet(definitions[y]) \subseteq C
    IN  {a \in Alerts : \A C \in SUBSET Alerts : x \in C /\ Closed(C) => a \in C}

\* Message m is an operator's acknowledgement of the episode alert x is in.
OperatorAcknowledges(m, x) ==
    /\ m.by = "operator" /\ Decoded(m.state)
    /\ m.state.acknowledged
    /\ states[x] # Nil /\ m.state.episode = states[x].episode

\* The step handles such a message for alert a or for a summary above it.
AcknowledgedByOperator(a) ==
    \E x \in Alerts :
        /\ a \in Below(x)
        /\ \/ HandleState(x) /\ OperatorAcknowledges(Head(inbox[x].live), x)
           \/ HandleAdded(x) /\ OperatorAcknowledges(inbox[x].added, x)

\* An episode of an owned alert stops being pending only because the service
\* handles an operator's acknowledgement of it, or of the current episode of an
\* alert above it.  (An alert in older may hold an episode that was
\* acknowledged before.)
AckNeedsOperator ==
    [][\A a \in Alerts \ older : NoLongerPending(a) => AcknowledgedByOperator(a)]_vars

\* An alert that becomes active again while its episode still waits for an
\* acknowledgement goes on with that episode, as the glossary says
\* (ApplyEvaluation starts a new one).
EpisodeContinues ==
    [][\A a \in Alerts :
        /\ definitions[a] # Nil
        /\ states[a] # Nil /\ states'[a] # Nil
        /\ states[a].pending /\ ~states[a].active /\ states'[a].active
        => states'[a].episode = states[a].episode]_vars

\* When the others stop, the service comes to rest: answering its own echoes
\* never goes on for ever.
ComesToRest ==
    <>[](/\ Unlocked /\ phase = "running"
         /\ \A a \in Alerts :
            /\ inbox[a] = NoMessages /\ inputQ[a] = <<>>
            /\ configQ[a] = <<>> /\ configAdded[a] = Nil
         /\ \A p \in PropertyNames : propertyQ[p] = <<>>)

\* The definitions of summaries never form a cycle.
SummariesAcyclic == \A a \in Alerts : ~SummaryCycle(definitions, a)

\* parents is the inverse of the member lists, without duplicates.
ParentsExact ==
    \A m, s \in Alerts :
        Cardinality({i \in DOMAIN parents[m] : parents[m][i] = s})
            = IF IsSummary(definitions[s]) /\ m \in MemberSet(definitions[s])
              THEN 1 ELSE 0

Known(a) == \A m \in MemberSet(definitions[a]) : states[m] # Nil

\* A summary is active exactly when a member is, and an active summary shows
\* the member the priorities select.
SummaryFollowsMembers ==
    Unlocked /\ phase = "running" => \A a \in Summaries : Known(a) =>
        LET e == EvaluateSummary(definitions[a], states)
        IN  /\ states[a] # Nil
            /\ states[a].active = e.active
            /\ e.active => /\ states[a].dominant = e.dominant
                           /\ states[a].presentation = e.presentation

\* A summary is pending while a member waits for an acknowledgement that
\* could still be given.
SummaryCoversPending ==
    Unlocked /\ phase = "running" => \A a \in Summaries : Known(a) =>
        \A m \in MemberSet(definitions[a]) :
            states[m].pending /\ states[m].episode # 0 => states[a].pending

-----------------------------------------------------------------------------
(* Two restrictions on what others configure, under which a summary        *)
(* follows its members: evaluateAncestorsLocked evaluates a summary once,  *)
(* and so too early where one change reaches it along two ways.            *)

\* What may become the config of alert a.
Written(a) == (ConfigChoices[a] \cup {InitialConfig[a]}) \cap Config

\* Nobody puts an alert into two summaries.
Forest ==
    \A a, b \in Alerts : \A c \in Written(a), d \in Written(b) :
        /\ c.type = "summary" /\ d.type = "summary"
        /\ MemberSet(c) \cap MemberSet(d) # {}
        => a = b

\* Nobody changes a class that two alerts use, and load can read it.
Steady(p) == PropertyChoices[p] = {} /\ p \notin Unreliable
ClassesApart ==
    \A p \in PropertyNames : ~Steady(p) =>
        \A a, b \in Alerts : \A c \in Written(a), d \in Written(b) :
            References(c, p) /\ References(d, p) => a = b

-----------------------------------------------------------------------------
(* What covering needs besides: a summary that is pending without an       *)
(* episode is not acknowledged with those above it, and makes them pending *)
(* again when a loop comes by; the next level may have had its turn.       *)

\* No alert two levels below a summary is pending without an episode.
NamedBelow ==
    \A t, a \in Summaries : a \in MemberSet(definitions[t]) =>
        \A m \in MemberSet(definitions[a]) :
            states[m] # Nil /\ states[m].pending => states[m].episode # 0

\* Somebody makes alert a a summary.
Grouped(a) == \E c \in Written(a) : c.type = "summary"

\* Summaries of summaries are of leaves (a summary that contains itself is
\* never accepted).
TwoLevels ==
    \A t, a, m \in Alerts : \A c \in Written(t), d \in Written(a) :
        /\ c.type = "summary" /\ a \in MemberSet(c)
        /\ d.type = "summary" /\ m \in MemberSet(d)
        => m = t \/ ~Grouped(m)

\* A state that is pending names its episode.
Named(s) == Decoded(s) /\ s.pending => s.episode # 0

\* The others publish no other states.
OthersNamed ==
    \A a \in Alerts : Named(InitialState[a]) /\ \A s \in ForeignStates[a] : Named(s)

-----------------------------------------------------------------------------
(* What AckNeedsOperator needs: alerts outside of all summaries, for the   *)
(* members of a summary can make it pending again in the episode that its  *)
(* own echo is about to acknowledge; and nobody who poses as an operator.  *)

\* Nobody makes alert a a summary, or a member of one.
Apart(a) ==
    /\ ~Grouped(a)
    /\ \A b \in Alerts : \A c \in Written(b) : c.type = "summary" => a \notin MemberSet(c)

\* The others publish no state that names an episode.
OthersNameNone ==
    \A a \in Alerts : \A s \in ForeignStates[a] \cup {InitialState[a]} :
        Decoded(s) => s.episode = 0
=============================================================================
