-------------------------- MODULE AlertServiceProofs --------------------------
(***************************************************************************)
(* Safety of alert/service.go for any alerts, configs, payloads and        *)
(* bounds: every state the service keeps is valid and no evaluation is     *)
(* refused; summaries stay acyclic and hooked to exactly their members; a  *)
(* leaf is what its input says; the bus converges to the states; if the    *)
(* summaries form a forest, a summary is what its members say and covers   *)
(* what they wait for; and only operators acknowledge a leaf.              *)
(***************************************************************************)
EXTENDS AlertService, AlertEvaluatorProofs

-----------------------------------------------------------------------------
(* Summaries stay acyclic.  A walk that never ends either passes through   *)
(* the new definition, which Accepted excludes, or was there before.       *)

\* Replacing one definition by one that closes no cycle closes no cycle.
LEMMA AcyclicUpdate ==
  ASSUME NEW defs, DOMAIN defs = Alerts, \A x \in Alerts : ~SummaryCycle(defs, x),
         NEW a \in Alerts, NEW raw,
         IsSummary(raw) => ~SummaryCycle([defs EXCEPT ![a] = raw], a),
         NEW x \in Alerts
  PROVE  ~SummaryCycle([defs EXCEPT ![a] = raw], x)
<1> DEFINE new == [defs EXCEPT ![a] = raw]
<1> SUFFICES ASSUME NEW C \in SUBSET Alerts, x \in C,
                    \A y \in C : IsSummary(new[y]) /\ MemberSet(new[y]) \cap C # {}
             PROVE  FALSE
  BY DEF SummaryCycle
<1>1. CASE a \in C
  <2>1. new[a] = raw
    OBVIOUS
  <2>2. IsSummary(raw)
    BY <1>1, <2>1
  <2>3. SummaryCycle(new, a)
    BY <1>1 DEF SummaryCycle
  <2> QED
    BY <2>2, <2>3
<1>2. CASE a \notin C
  <2>1. \A y \in C : new[y] = defs[y]
    BY <1>2
  <2> HIDE DEF new
  <2>2. SummaryCycle(defs, x)
    BY <2>1 DEF SummaryCycle
  <2> QED
    BY <2>2
<1> QED
  BY <1>1, <1>2

AcyclicInv == DOMAIN definitions = Alerts /\ SummariesAcyclic

\* reconcileConfigLocked, for a definition it takes and for one it drops.
LEMMA AcyclicConfig ==
  ASSUME AcyclicInv, NEW a \in Alerts, NEW raw, ReconcileConfig(a, raw)
  PROVE  AcyclicInv'
<1>1. CASE definitions' = [definitions EXCEPT ![a] = Nil]
  <2>1. ~IsSummary(Nil)
    BY DEF IsSummary
  <2> QED
    BY <1>1, <2>1, AcyclicUpdate DEF AcyclicInv, SummariesAcyclic
<1>2. CASE Accepted(raw, a) /\ definitions' = [definitions EXCEPT ![a] = raw]
  BY <1>2, AcyclicUpdate DEF AcyclicInv, SummariesAcyclic, Accepted
<1> QED
  BY <1>1, <1>2 DEF ReconcileConfig, RejectConfig, AcceptSummary, AcceptLeaf

\* No other action changes a definition, except that a crash drops them all.
LEMMA AcyclicStep == AcyclicInv /\ loaded \in Nat /\ [Next]_vars => AcyclicInv'
<1> SUFFICES ASSUME AcyclicInv, loaded \in Nat, [Next]_vars PROVE AcyclicInv'
  OBVIOUS
<1>0. definitions' = definitions => AcyclicInv'
  BY DEF AcyclicInv, SummariesAcyclic
<1>1. CASE LoadConfig
  <2>1. Order[loaded + 1] \in Alerts
    BY <1>1, OrderAssumption DEF LoadConfig
  <2> QED
    BY <1>0, <1>1, <2>1, AcyclicConfig DEF LoadConfig, graph
<1>2. ASSUME NEW a \in Alerts, HandleConfig(a) PROVE AcyclicInv'
  BY <1>0, <1>2, AcyclicConfig DEF HandleConfig, ConfigArrives, graph
<1>3. CASE Crash
  <2>1. definitions' = [a \in Alerts |-> Nil]
    BY <1>3 DEF Crash
  <2> QED
    BY <2>1 DEF AcyclicInv, SummariesAcyclic, SummaryCycle, IsSummary
<1>4. CASE \/ LoadStates \/ LoadProperties \/ BeginSweep \/ SubscribeGlobals
           \/ EvaluateAncestor
  BY <1>0, <1>4 DEF LoadStates, LoadProperties, BeginSweep, SubscribeGlobals,
     EvaluateAncestor, graph
<1>5. ASSUME NEW p \in PropertyNames, HandleProperty(p) PROVE AcyclicInv'
  BY <1>0, <1>5 DEF HandleProperty, graph
<1>6. ASSUME NEW a \in Alerts,
             \/ HandleInput(a) \/ HandleState(a) \/ HandleCreated(a)
             \/ HandleAdded(a) \/ RefreshDefinition(a) \/ SweepSummary(a)
      PROVE  AcyclicInv'
  BY <1>0, <1>6 DEF HandleInput, HandleState, HandleCreated, HandleAdded,
     RefreshDefinition, SweepSummary, graph
<1>7. CASE Environment
  BY <1>0, <1>7 DEF Environment, PublishInput, PublishConfig, PublishForeign,
     WriteState, ReadAlert, AcknowledgeAlert, PublishProperty, graph
<1>8. CASE UNCHANGED vars
  BY <1>0, <1>8 DEF vars, graph
<1> QED
  BY <1>1, <1>2, <1>3, <1>4, <1>5, <1>6, <1>7, <1>8 DEF Next, Handlers

-----------------------------------------------------------------------------
(* States stay valid.  Outcome is what every operation on the states must  *)
(* leave behind.                                                           *)

ValidStates(st) ==
    /\ st \in [Alerts -> State \cup {Nil}]
    /\ \A a \in Alerts : st[a] # Nil => Validate(st[a])

Box == [live : Seq(Messages), added : Messages \cup {Nil, Announcement}]

BusOK == retained \in [Alerts -> Messages \cup {Nil}] /\ inbox \in [Alerts -> Box]

EpisodesOK == episodes \in [Alerts -> Nat]

\* A publication reaches the inbox of its subject.
LEMMA DeliveredTyped ==
  ASSUME NEW a, NEW m \in Messages, NEW box \in Box, NEW W
  PROVE  Delivered(a, m, box, W) \in Box
<1>1. box.live \in Seq(Messages) /\ box.added \in Messages \cup {Nil, Announcement}
  BY DEF Box
<1>2. Append(box.live, m) \in Seq(Messages)
  BY <1>1
<1> QED
  BY <1>1, <1>2, Zenon DEF Delivered, Box

\* publishStateLocked, failing or not.
LEMMA PublishTyped ==
  ASSUME BusOK, NEW P, NEW st, \A a \in P \cap Alerts : st[a] \in State,
         NEW W, NEW Q \in [Alerts -> Box], Publish(P, st, W, Q)
  PROVE  BusOK'
<1>1. PICK F \in SUBSET P : PublishSome(P, F, st, W, Q)
  BY DEF Publish
<1>2. \A a \in P \cap Alerts : Message(st[a], "service") \in Messages
  BY DEF Message, Messages
<1>3. retained' \in [Alerts -> Messages \cup {Nil}]
  BY <1>1, <1>2 DEF PublishSome, BusOK
<1>4. \A a \in P \cap Alerts :
        Delivered(a, Message(st[a], "service"), Q[a], W) \in Box
  BY <1>2, DeliveredTyped
<1>5. inbox' \in [Alerts -> Box]
  BY <1>1, <1>4 DEF PublishSome
<1> QED
  BY <1>3, <1>5 DEF BusOK

Outcome == ValidStates(states)' /\ BusOK' /\ EpisodesOK'

\* applyLocked: a refused evaluation keeps the old state.
LEMMA ApplyOutcome ==
  ASSUME BusOK, EpisodesOK, NEW a, NEW e, a \in Alerts => e \in Evaluation,
         NEW base, ValidStates(base), NEW W, NEW Q \in [Alerts -> Box],
         Apply(a, e, base, W, Q)
  PROVE  Outcome
<1> DEFINE next == ApplyEvaluation(base[a], e, episodes[a] + 1)
           st == [base EXCEPT ![a] = next]
<1>1. CASE next = Nil
  BY <1>1 DEF Apply, Outcome, BusOK, EpisodesOK
<1>2. CASE next # Nil
  <2>1. /\ states' = st
        /\ Publish(Unpublished(a, next, base), st, W, Q)
        /\ episodes' = IF next.episode = episodes[a] + 1
                       THEN [episodes EXCEPT ![a] = @ + 1] ELSE episodes
    BY <1>2 DEF Apply
  <2>2. a \in Alerts => next \in State /\ Validate(next)
    <3> SUFFICES ASSUME a \in Alerts PROVE next \in State /\ Validate(next)
      OBVIOUS
    <3>1. base[a] \in State \cup {Nil} /\ episodes[a] + 1 \in Nat
      BY DEF ValidStates, EpisodesOK
    <3> QED
      BY <1>2, <3>1, ApplyEvaluationValid, Zenon
  <2> HIDE DEF next
  <2>3. ValidStates(st)
    BY <2>2 DEF ValidStates
  <2>4. \A x \in Unpublished(a, next, base) \cap Alerts : st[x] \in State
    BY <2>2 DEF Unpublished, ValidStates
  <2>5. BusOK'
    <3> HIDE DEF st
    <3> QED
      BY <2>1, <2>4, PublishTyped
  <2>6. EpisodesOK'
    <3>1. CASE episodes' = episodes
      BY <3>1 DEF EpisodesOK
    <3>2. CASE episodes' = [episodes EXCEPT ![a] = episodes[a] + 1]
      <4> DEFINE n == episodes[a] + 1
      <4>1. a \in Alerts => n \in Nat
        BY DEF EpisodesOK
      <4> HIDE DEF n
      <4>2. \A x \in Alerts : [episodes EXCEPT ![a] = n][x] \in Nat
        BY <4>1 DEF EpisodesOK
      <4> QED
        BY <3>2, <4>2 DEF EpisodesOK, n
    <3> QED
      BY <2>1, <3>1, <3>2
  <2> QED
    BY <2>1, <2>3, <2>5, <2>6 DEF Outcome
<1> QED
  BY <1>1, <1>2

DefinitionValid(c, a) == c \in Config /\ ValidConfig(c, a)

PropertiesOK == properties \in [PropertyNames -> Properties \cup {Nil}]

\* What evaluateDefinitionLocked hands to applyLocked is sane.
LEMMA EvaluateSane ==
  ASSUME NEW a, NEW c, DefinitionValid(c, a), NEW input,
         NEW props \in [PropertyNames -> Properties \cup {Nil}],
         NEW st \in [Alerts -> State \cup {Nil}]
  PROVE  SaneResult(Evaluate(c, input, props, st))
<1>1. CASE c.type = "binary"
  BY <1>1, BinarySane DEF Evaluate, DefinitionValid, ValidConfig
<1>2. CASE c.type = "value"
  BY <1>2, ValueSane DEF Evaluate, DefinitionValid, ValidConfig
<1>3. CASE c.type = "summary"
  BY <1>3, SummarySane DEF Evaluate, DefinitionValid
<1> QED
  BY <1>1, <1>2, <1>3 DEF DefinitionValid, Config

\* evaluateDefinitionLocked.
LEMMA EvaluateDefinitionOutcome ==
  ASSUME BusOK, EpisodesOK, PropertiesOK, NEW a, NEW c, NEW input,
         a \in Alerts => DefinitionValid(c, a),
         NEW base, ValidStates(base), NEW W, NEW Q \in [Alerts -> Box],
         EvaluateDefinition(a, c, input, base, properties, W, Q)
  PROVE  Outcome
<1>1. CASE Unevaluable(c, input)
  BY <1>1 DEF EvaluateDefinition, Outcome, BusOK, EpisodesOK
<1>2. CASE ~Unevaluable(c, input)
  <2> DEFINE e == Evaluate(c, input, properties, base)
             f == IF e = Nil THEN Inactive ELSE e
  <2>1. Apply(a, f, base, W, Q)
    BY <1>2 DEF EvaluateDefinition
  <2>2. a \in Alerts => f \in Evaluation
    <3>1. a \in Alerts => SaneResult(e)
      BY EvaluateSane DEF ValidStates, PropertiesOK
    <3> QED
      BY <3>1, InactiveSane DEF SaneResult
  <2> HIDE DEF f
  <2> QED
    BY <2>1, <2>2, ApplyOutcome
<1> QED
  BY <1>1, <1>2

DefinitionsOK ==
    /\ definitions \in [Alerts -> Config \cup {Nil}]
    /\ \A a \in Alerts : definitions[a] # Nil => ValidConfig(definitions[a], a)

\* What the handlers rely on.
Kept == ValidStates(states) /\ BusOK /\ EpisodesOK /\ PropertiesOK /\ DefinitionsOK

\* catchUpStateLocked takes only what ParseState accepts.
LEMMA CaughtUpValid ==
  ASSUME Kept, NEW c, NEW F
  PROVE  ValidStates(CaughtUp(c, F))
<1>1. ASSUME NEW x \in Alerts, retained[x] # Nil, Usable(retained[x].state)
      PROVE  retained[x].state \in State /\ Validate(retained[x].state)
  BY <1>1 DEF Kept, BusOK, Messages, Usable, Decoded
<1> QED
  BY <1>1 DEF CaughtUp, ValidStates, Kept

\* reconcileConfigLocked, whatever config arrives.
LEMMA ReconcileConfigOutcome ==
  ASSUME Kept, NEW a \in Alerts, NEW raw \in Config \cup {Garbage},
         ReconcileConfig(a, raw)
  PROVE  Outcome /\ DefinitionsOK'
<1>0. inbox \in [Alerts -> Box]
  BY DEF Kept, BusOK
<1>1. CASE RejectConfig(a, raw)
  <2>1. Outcome
    BY <1>0, <1>1, ApplyOutcome, InactiveSane DEF RejectConfig, Kept
  <2>2. definitions' = [definitions EXCEPT ![a] = Nil]
    BY <1>1 DEF RejectConfig
  <2>3. DefinitionsOK'
    BY <2>2 DEF Kept, DefinitionsOK
  <2> QED
    BY <2>1, <2>3
<1>2. ASSUME Accepted(raw, a), definitions' = [definitions EXCEPT ![a] = raw]
      PROVE  DefinitionValid(raw, a) /\ DefinitionsOK'
  <2>1. DefinitionValid(raw, a)
    BY <1>2 DEF Accepted, Enabled, DefinitionValid
  <2> QED
    BY <1>2, <2>1 DEF Kept, DefinitionsOK, DefinitionValid
<1>3. CASE AcceptSummary(a, raw)
  <2>1. DefinitionValid(raw, a) /\ DefinitionsOK'
    BY <1>2, <1>3 DEF AcceptSummary
  <2>2. PICK W, F : EvaluateDefinition(a, raw, NoInput, CaughtUp(raw, F), properties, W, inbox)
    BY <1>3 DEF AcceptSummary
  <2>3. ValidStates(CaughtUp(raw, F))
    BY CaughtUpValid
  <2> QED
    BY <1>0, <2>1, <2>2, <2>3, EvaluateDefinitionOutcome DEF Kept
<1>4. CASE AcceptLeaf(a, raw)
  <2>1. DefinitionValid(raw, a) /\ DefinitionsOK'
    BY <1>2, <1>4 DEF AcceptLeaf
  <2>2. PICK W, input : EvaluateDefinition(a, raw, input, states, properties, W, inbox)
    BY <1>4 DEF AcceptLeaf
  <2> QED
    BY <1>0, <2>1, <2>2, EvaluateDefinitionOutcome DEF Kept
<1> QED
  BY <1>1, <1>3, <1>4 DEF ReconcileConfig

\* acknowledgeTreeLocked.
LEMMA AcknowledgeTreeOutcome ==
  ASSUME Kept, NEW a, NEW Q \in [Alerts -> Box], AcknowledgeTree(a, Q)
  PROVE  ValidStates(states)' /\ BusOK'
<1> DEFINE done == {x \in AckTree(a) : states[x] # Nil /\ Acknowledgeable(states[x])}
           st == [x \in Alerts |-> IF x \in done THEN Acknowledge(states[x])
                                                 ELSE states[x]]
<1>1. states' = st /\ Publish(done, st, watched, Q)
  BY DEF AcknowledgeTree
<1>2. \A x \in done \cap Alerts :
        Acknowledge(states[x]) \in State /\ Validate(Acknowledge(states[x]))
  BY AcknowledgeValid DEF Kept, ValidStates
<1> HIDE DEF done
<1>3. ValidStates(st)
  BY <1>2 DEF ValidStates, Kept
<1>4. \A x \in done \cap Alerts : st[x] \in State
  BY <1>2
<1> HIDE DEF st
<1>5. BusOK'
  BY <1>1, <1>4, PublishTyped DEF Kept
<1> QED
  BY <1>1, <1>3, <1>5

\* reconcileStateLocked, whatever state arrives.
LEMMA ReconcileStateOutcome ==
  ASSUME Kept, NEW a \in Alerts, NEW incoming \in State \cup {Garbage, Mistyped},
         NEW Q \in [Alerts -> Box], StateArrives(a, incoming, Q)
  PROVE  ValidStates(states)' /\ BusOK'
<1>1. CASE AcknowledgeTree(a, Q)
  BY <1>1, AcknowledgeTreeOutcome
<1>2. CASE Ignore(Q) \/ Discard(a, Q)
  BY <1>2 DEF Ignore, Discard, Kept, ValidStates, BusOK
<1>3. CASE Republish(a, Q) /\ states[a] # Nil
  <2>1. \A x \in {a} \cap Alerts : states[x] \in State
    BY <1>3 DEF Kept, ValidStates
  <2>2. BusOK'
    BY <1>3, <2>1, PublishTyped DEF Republish, Kept
  <2> QED
    BY <1>3, <2>2 DEF Republish, Kept, ValidStates
<1>4. CASE AdoptState(a, incoming, Q) /\ Usable(incoming)
  <2>1. incoming \in State /\ Validate(incoming)
    BY <1>4 DEF Usable, Decoded
  <2>2. /\ states' = [states EXCEPT ![a] = incoming]
        /\ inbox' = Q /\ retained' = retained
    BY <1>4 DEF AdoptState
  <2>3. ValidStates(states)'
    BY <2>1, <2>2 DEF ValidStates, Kept
  <2> QED
    BY <2>2, <2>3 DEF BusOK, Kept
<1> QED
  BY <1>1, <1>2, <1>3, <1>4 DEF StateArrives, ReconcileState, AdoptState

-----------------------------------------------------------------------------
(* The inductive invariant: Kept, and the types of what has still to be    *)
(* handled.                                                                *)

FeedsOK ==
    /\ phase \in {"down", "properties", "configs", "sweep", "running"}
    /\ loaded \in 0..Len(Order)
    /\ retainedConfig \in [Alerts -> Config \cup {Garbage, Mistyped, Nil}]
    /\ retainedProperty \in [PropertyNames -> Properties \cup {Garbage, Mistyped, Nil}]
    /\ configQ \in [Alerts -> Seq(Config \cup {Garbage, Mistyped})]
    /\ configAdded \in [Alerts -> Config \cup {Garbage, Mistyped, Nil}]
    /\ propertyQ \in [PropertyNames -> Seq(Properties \cup {Garbage, Mistyped})]
    /\ draft \in [Alerts -> State \cup {Nil}]

Defined == {a \in Alerts : definitions[a] # Nil}

\* The loops over definitions visit definitions that are still there.
LoopsOK ==
    /\ refresh \in SUBSET Defined
    /\ sweep \in [left : SUBSET Defined, changed : BOOLEAN, pass : Nat]

Inv == Kept /\ FeedsOK /\ LoopsOK

\* Nothing the feeds consist of changes.
FeedsSame == UNCHANGED <<phase, loaded, retainedConfig, retainedProperty, configQ,
                         configAdded, propertyQ, draft>>

\* Unchanged feeds stay well formed.
LEMMA FeedsSameOK == FeedsOK /\ FeedsSame => FeedsOK'
  BY DEF FeedsOK, FeedsSame

\* A config handler that reconciles nothing leaves the alerts alone.
AlertsSame == UNCHANGED <<graph, states, watched, handler, bus, inputQ, episodes>>

\* The strings a config handler may get for alert a.
Offered(a) ==
    ({retainedConfig[a], configAdded[a]} \cup {configQ[a][i] : i \in DOMAIN configQ[a]})
        \cap (Config \cup {Garbage})

\* A config arrives or is loaded: it is reconciled if it is a string.
LEMMA ConfigTaken ==
  ASSUME FeedsOK, LoadConfig \/ \E a \in Alerts : HandleConfig(a)
  PROVE  /\ Unlocked /\ phase \in {"configs", "running"}
         /\ UNCHANGED <<phase, properties, others, propertyQ, environment>>
         /\ AlertsSame \/ \E a \in Alerts : \E raw \in Offered(a) : ReconcileConfig(a, raw)
<1>1. CASE LoadConfig
  <2>1. Order[loaded + 1] \in Alerts
    BY <1>1, OrderAssumption DEF LoadConfig, FeedsOK
  <2>2. PICK a \in Alerts : \E raw \in {retainedConfig[a], Nil} :
            IF raw \in {Nil, Mistyped}
            THEN UNCHANGED <<graph, states, watched, handler, bus, inputQ, episodes>>
            ELSE ReconcileConfig(a, raw)
    BY <1>1, <2>1 DEF LoadConfig
  <2>3. retainedConfig[a] \in Config \cup {Garbage, Mistyped, Nil}
    BY DEF FeedsOK
  <2> QED
    BY <1>1, <2>2, <2>3 DEF LoadConfig, AlertsSame, Offered
<1>2. ASSUME NEW a \in Alerts, HandleConfig(a)
      PROVE  AlertsSame \/ \E raw \in Offered(a) : ReconcileConfig(a, raw)
  <2>1. CASE configQ[a] # <<>> /\ ConfigArrives(a, Head(configQ[a]))
    <3>1. PICK q \in Seq(Config \cup {Garbage, Mistyped}) : q = configQ[a] /\ q # <<>>
      BY <2>1 DEF FeedsOK
    <3>2. Head(q) \in Config \cup {Garbage, Mistyped} /\ Head(q) = q[1] /\ 1 \in DOMAIN q
      BY <3>1
    <3>3. Head(q) # Mistyped => Head(q) \in Offered(a)
      BY <3>1, <3>2 DEF Offered
    <3> QED
      BY <2>1, <3>1, <3>3 DEF ConfigArrives, AlertsSame
  <2>2. CASE configAdded[a] # Nil /\ ConfigArrives(a, configAdded[a])
    <3>1. configAdded[a] \in Config \cup {Garbage, Mistyped}
      BY <2>2 DEF FeedsOK
    <3> QED
      BY <2>2, <3>1 DEF ConfigArrives, AlertsSame, Offered
  <2> QED
    BY <1>2, <2>1, <2>2 DEF HandleConfig
<1>3. /\ Unlocked /\ phase \in {"configs", "running"}
      /\ UNCHANGED <<phase, properties, others, propertyQ, environment>>
  BY DEF LoadConfig, HandleConfig, loading
<1> QED
  BY <1>1, <1>2, <1>3

\* An operation on states keeps the rest.
LEMMA OutcomeKept ==
  Kept /\ Outcome /\ UNCHANGED <<properties, definitions>> => Kept'
  BY DEF Kept, Outcome, PropertiesOK, DefinitionsOK

\* evaluateDefinitionLocked for a definition the service has.
LEMMA EvaluateOwned ==
  ASSUME Kept, NEW a, a \in Alerts => definitions[a] # Nil, NEW input,
         EvaluateDefinition(a, definitions[a], input, states, properties, watched, inbox)
  PROVE  Outcome
<1>1. a \in Alerts => DefinitionValid(definitions[a], a)
  BY DEF Kept, DefinitionsOK, DefinitionValid
<1> QED
  BY <1>1, EvaluateDefinitionOutcome DEF Kept, BusOK

\* One iteration of evaluateAncestorsLocked.
LEMMA InvAncestor == Inv /\ EvaluateAncestor => Inv'
<1> SUFFICES ASSUME Inv, EvaluateAncestor PROVE Inv'
  OBVIOUS
<1>1. FeedsSame /\ UNCHANGED <<properties, definitions, refresh, sweep>>
  BY DEF EvaluateAncestor, FeedsSame, loading, graph, others, feeds, environment
<1>2. Outcome
  <2> DEFINE s == Head(queue)
  <2>1. CASE s \notin seen /\ definitions[s] # Nil
    <3>1. EvaluateDefinition(s, definitions[s], NoInput, states, properties, watched, inbox)
      BY <2>1 DEF EvaluateAncestor
    <3> HIDE DEF s
    <3> QED
      BY <2>1, <3>1, EvaluateOwned DEF Inv
  <2>2. CASE ~(s \notin seen /\ definitions[s] # Nil)
    <3>1. UNCHANGED <<states, bus, episodes>>
      BY <2>2 DEF EvaluateAncestor
    <3> QED
      BY <3>1 DEF bus, Inv, Kept, Outcome, ValidStates, BusOK, EpisodesOK
  <2> QED
    BY <2>1, <2>2
<1> QED
  BY <1>1, <1>2, FeedsSameOK, OutcomeKept DEF Inv, LoopsOK, Defined

\* One iteration of the loop of reconcilePropertyLocked.
LEMMA InvRefresh ==
  ASSUME Inv, NEW a \in Alerts, RefreshDefinition(a)
  PROVE  Inv'
<1>1. FeedsSame /\ UNCHANGED <<properties, definitions, sweep>>
  BY DEF RefreshDefinition, FeedsSame, loading, graph, others, feeds, environment
<1>2. definitions[a] # Nil
  BY DEF RefreshDefinition, Inv, LoopsOK, Defined
<1>3. Outcome
  BY <1>2, EvaluateOwned DEF RefreshDefinition, Inv
<1>4. LoopsOK'
  BY <1>1 DEF RefreshDefinition, Inv, LoopsOK, Defined
<1> QED
  BY <1>1, <1>3, <1>4, FeedsSameOK, OutcomeKept DEF Inv

\* One summary of a pass of evaluateAllSummariesLocked.
LEMMA InvSweep ==
  ASSUME Inv, NEW a \in Alerts, SweepSummary(a)
  PROVE  Inv'
<1>1. FeedsSame /\ UNCHANGED <<properties, definitions, refresh>>
  BY DEF SweepSummary, FeedsSame, loading, graph, others, feeds, environment
<1>2. definitions[a] # Nil
  BY DEF SweepSummary, Inv, LoopsOK, Defined
<1>3. Outcome
  BY <1>2, EvaluateOwned DEF SweepSummary, Inv
<1>4. LoopsOK'
  <2>0. sweep \in [left : SUBSET Defined, changed : BOOLEAN, pass : Nat]
    BY DEF Inv, LoopsOK
  <2>1. PICK changed \in BOOLEAN :
          \/ sweep' = [sweep EXCEPT !.left = @ \ {a}, !.changed = changed]
          \/ sweep' = [left |-> Summaries, changed |-> FALSE, pass |-> sweep.pass + 1]
          \/ sweep' = NoSweep
    <3> DEFINE c == sweep.changed \/ states'[a] # states[a]
    <3>1. c \in BOOLEAN
      OBVIOUS
    <3>2. \/ sweep' = [sweep EXCEPT !.left = @ \ {a}, !.changed = c]
          \/ sweep' = [left |-> Summaries, changed |-> FALSE, pass |-> sweep.pass + 1]
          \/ sweep' = NoSweep
      BY DEF SweepSummary
    <3> HIDE DEF c
    <3> QED
      BY <3>1, <3>2
  <2>2. Summaries \in SUBSET Defined
    BY DEF Summaries, IsSummary, Defined
  <2>3. sweep' \in [left : SUBSET Defined, changed : BOOLEAN, pass : Nat]
    <3>0. FALSE \in BOOLEAN
      OBVIOUS
    <3>1. CASE sweep' = [sweep EXCEPT !.left = @ \ {a}, !.changed = changed]
      BY <2>0, <3>1
    <3>2. CASE sweep' = [left |-> Summaries, changed |-> FALSE, pass |-> sweep.pass + 1]
      <4>1. sweep.pass + 1 \in Nat
        BY <2>0
      <4> QED
        BY <2>2, <3>0, <3>2, <4>1, Zenon
    <3>3. CASE sweep' = NoSweep
      BY <3>0, <3>3, Zenon DEF NoSweep
    <3> QED
      BY <2>1, <3>1, <3>2, <3>3
  <2> QED
    BY <1>1, <2>3 DEF Inv, LoopsOK, Defined
<1> QED
  BY <1>1, <1>3, <1>4, FeedsSameOK, OutcomeKept DEF Inv

\* acceptSourceLocked.
LEMMA InvInput ==
  ASSUME Inv, NEW a \in Alerts, HandleInput(a)
  PROVE  Inv'
<1>1. FeedsSame /\ UNCHANGED <<properties, definitions, refresh, sweep>>
  BY DEF HandleInput, AcceptInput, Ancestors, FeedsSame, loading, graph, others,
         handler, environment
<1>2. Outcome
  <2>1. CASE IsLeaf(definitions[a])
    <3>1. definitions[a] # Nil
      BY <2>1 DEF IsLeaf
    <3>2. PICK v : EvaluateDefinition(a, definitions[a], v, states, properties,
                                      watched, inbox)
      BY <2>1 DEF HandleInput, AcceptInput
    <3> QED
      BY <3>1, <3>2, EvaluateOwned DEF Inv
  <2>2. CASE ~IsLeaf(definitions[a])
    <3>1. UNCHANGED <<states, bus, episodes>>
      BY <2>2 DEF HandleInput, AcceptInput
    <3> QED
      BY <3>1 DEF bus, Inv, Kept, Outcome, ValidStates, BusOK, EpisodesOK
  <2> QED
    BY <2>1, <2>2
<1> QED
  BY <1>1, <1>2, FeedsSameOK, OutcomeKept DEF Inv, LoopsOK, Defined

\* reconcileConfigLocked runs while no loop over definitions is under way.
LEMMA InvReconcileConfig ==
  ASSUME Inv, Unlocked, NEW a \in Alerts, NEW raw \in Config \cup {Garbage},
         ReconcileConfig(a, raw), UNCHANGED properties
  PROVE  Kept' /\ LoopsOK'
<1>1. Outcome /\ DefinitionsOK'
  BY ReconcileConfigOutcome DEF Inv
<1>2. UNCHANGED <<refresh, sweep>>
  BY DEF ReconcileConfig, RejectConfig, AcceptSummary, AcceptLeaf, Ancestors
<1>3. LoopsOK'
  BY <1>2 DEF Inv, LoopsOK, Unlocked
<1> QED
  BY <1>1, <1>3 DEF Inv, Kept, Outcome, PropertiesOK

\* A config arrives, or is loaded.
LEMMA InvConfig ==
  ASSUME Inv, LoadConfig \/ \E a \in Alerts : HandleConfig(a)
  PROVE  Inv'
<1>1. FeedsOK
  BY DEF Inv
<1>2. FeedsOK'
  <2>1. CASE LoadConfig
    <3>1. loaded' \in 0..Len(Order)
      BY <1>1, <2>1, OrderAssumption DEF LoadConfig, FeedsOK
    <3> QED
      BY <1>1, <2>1, <3>1 DEF LoadConfig, FeedsOK, others, environment
  <2>2. ASSUME NEW a \in Alerts, HandleConfig(a) PROVE FeedsOK'
    <3>1. configQ[a] # <<>> => Tail(configQ[a]) \in Seq(Config \cup {Garbage, Mistyped})
      BY <1>1 DEF FeedsOK
    <3>2. /\ configQ' \in [Alerts -> Seq(Config \cup {Garbage, Mistyped})]
          /\ configAdded' \in [Alerts -> Config \cup {Garbage, Mistyped, Nil}]
      BY <1>1, <2>2, <3>1 DEF HandleConfig, FeedsOK
    <3> QED
      BY <1>1, <2>2, <3>2 DEF HandleConfig, FeedsOK, loading, others, environment
  <2> QED
    BY <2>1, <2>2
<1>3. Unlocked /\ UNCHANGED properties
  BY <1>1, ConfigTaken
<1>4. CASE AlertsSame
  BY <1>2, <1>3, <1>4 DEF AlertsSame, Inv, Kept, LoopsOK, Defined, ValidStates, BusOK,
     EpisodesOK, PropertiesOK, DefinitionsOK, graph, handler, bus
<1>5. ASSUME NEW a \in Alerts, NEW raw \in Config \cup {Garbage}, ReconcileConfig(a, raw)
      PROVE  Inv'
  BY <1>2, <1>3, <1>5, InvReconcileConfig DEF Inv
<1> QED
  BY <1>1, <1>4, <1>5, ConfigTaken DEF Offered

\* A state message arrives.
LEMMA InvState ==
  ASSUME Inv, NEW a \in Alerts, HandleState(a) \/ HandleAdded(a) \/ HandleCreated(a)
  PROVE  Inv'
<1> DEFINE box == inbox[a]
<1>0. box \in Box /\ inbox \in [Alerts -> Box]
  BY DEF Inv, Kept, BusOK
<1>1. FeedsSame /\ UNCHANGED <<properties, definitions, refresh, sweep, episodes>>
  BY DEF HandleState, HandleAdded, HandleCreated, StateArrives, ReconcileState, AdoptState,
         AcknowledgeTree, Republish, Ignore, Discard, Ancestors, FeedsSame, loading,
         graph, handler, others, feeds, environment
<1>2. ValidStates(states)' /\ BusOK'
  <2>1. CASE HandleState(a)
    <3> DEFINE Q == [inbox EXCEPT ![a].live = Tail(@)]
               incoming == Head(box.live).state
    <3>1. box.live \in Seq(Messages) /\ box.live # <<>>
      BY <1>0, <2>1 DEF HandleState, Box
    <3>2. Head(box.live) \in Messages /\ Tail(box.live) \in Seq(Messages)
      BY <3>1
    <3>3. incoming \in State \cup {Garbage, Mistyped}
      BY <3>2 DEF Messages
    <3>4. Q \in [Alerts -> Box]
      BY <1>0, <3>2 DEF Box
    <3>5. StateArrives(a, incoming, Q)
      BY <2>1 DEF HandleState
    <3> HIDE DEF incoming, Q
    <3> QED
      BY <3>3, <3>4, <3>5, ReconcileStateOutcome DEF Inv
  <2>2. CASE HandleAdded(a)
    <3> DEFINE Q == [inbox EXCEPT ![a].added = Nil]
               incoming == box.added.state
    <3>1. box.added \in Messages
      BY <1>0, <2>2 DEF HandleAdded, Box
    <3>2. incoming \in State \cup {Garbage, Mistyped}
      BY <3>1 DEF Messages
    <3>3. Q \in [Alerts -> Box]
      BY <1>0 DEF Box
    <3>4. StateArrives(a, incoming, Q)
      BY <2>2 DEF HandleAdded
    <3> HIDE DEF incoming, Q
    <3> QED
      BY <3>2, <3>3, <3>4, ReconcileStateOutcome DEF Inv
  <2>3. CASE HandleCreated(a)
    <3>1. /\ inbox' = [inbox EXCEPT ![a].added = retained[a]]
          /\ UNCHANGED <<states, retained>>
      BY <2>3 DEF HandleCreated
    <3>2. retained[a] \in Messages \cup {Nil}
      BY DEF Inv, Kept, BusOK
    <3>3. inbox' \in [Alerts -> Box]
      BY <1>0, <3>1, <3>2 DEF Box
    <3> QED
      BY <3>1, <3>3 DEF Inv, Kept, BusOK, ValidStates
  <2> QED
    BY <2>1, <2>2, <2>3
<1>3. Outcome
  BY <1>1, <1>2 DEF Outcome, Inv, Kept, EpisodesOK
<1> QED
  BY <1>1, <1>3, FeedsSameOK, OutcomeKept DEF Inv, LoopsOK, Defined

\* reconcilePropertyLocked: its loop will visit definitions that exist.
LEMMA InvProperty ==
  ASSUME Inv, NEW p \in PropertyNames, HandleProperty(p)
  PROVE  Inv'
<1>1. UNCHANGED <<phase, loaded, definitions, states, retained, inbox, sweep, episodes,
                  retainedConfig, retainedProperty, configQ, configAdded, draft>>
  BY DEF HandleProperty, loading, graph, bus, others, environment
<1>2. /\ Head(propertyQ[p]) \in Properties \cup {Garbage, Mistyped}
      /\ Tail(propertyQ[p]) \in Seq(Properties \cup {Garbage, Mistyped})
  BY DEF HandleProperty, Inv, FeedsOK
<1>3. PropertiesOK'
  BY <1>2 DEF HandleProperty, ReconcileProperty, Decoded, PropertiesOK, Inv, Kept
<1>4. FeedsOK'
  BY <1>1, <1>2 DEF HandleProperty, Inv, FeedsOK
<1>5. LoopsOK'
  BY <1>1 DEF HandleProperty, ReconcileProperty, IsLeaf, Inv, LoopsOK, Defined
<1>6. Kept'
  BY <1>1, <1>3 DEF Inv, Kept, ValidStates, BusOK, EpisodesOK, DefinitionsOK
<1> QED
  BY <1>4, <1>5, <1>6 DEF Inv

\* loadInitial and subscribeGlobals, but for the configs.
LEMMA InvLoad ==
  ASSUME Inv, LoadStates \/ LoadProperties \/ BeginSweep \/ SubscribeGlobals
  PROVE  Inv'
<1>1. CASE LoadStates
  <2>1. ASSUME NEW a \in Alerts, retained[a] # Nil, Usable(retained[a].state)
        PROVE  retained[a].state \in State /\ Validate(retained[a].state)
    BY <2>1 DEF Inv, Kept, BusOK, Messages, Usable, Decoded
  <2>2. PICK F : states' = [a \in Alerts |->
                    IF a \notin F /\ retained[a] # Nil /\ Usable(retained[a].state)
                    THEN retained[a].state ELSE Nil]
    BY <1>1 DEF LoadStates
  <2>3. ValidStates(states)'
    BY <2>1, <2>2 DEF ValidStates
  <2> QED
    BY <1>1, <2>3 DEF LoadStates, Inv, Kept, FeedsOK, LoopsOK, Defined, BusOK,
       EpisodesOK, PropertiesOK, DefinitionsOK, graph, handler, bus, others, feeds,
       environment
<1>2. CASE LoadProperties
  <2>1. PICK F : properties' = [p \in PropertyNames |->
                    IF p \notin F /\ Decoded(retainedProperty[p])
                    THEN retainedProperty[p] ELSE Nil]
    BY <1>2 DEF LoadProperties
  <2>2. PropertiesOK'
    BY <2>1 DEF Decoded, PropertiesOK, Inv, FeedsOK
  <2> QED
    BY <1>2, <2>2 DEF LoadProperties, Inv, Kept, FeedsOK, LoopsOK, Defined,
       ValidStates, BusOK, EpisodesOK, DefinitionsOK, graph, handler, bus, others,
       feeds, environment
<1>3. CASE BeginSweep
  <2>1. sweep' = [left |-> Summaries, changed |-> FALSE, pass |-> 0]
    BY <1>3 DEF BeginSweep
  <2>2. Summaries \in SUBSET Defined
    BY DEF Summaries, IsSummary, Defined
  <2>3. sweep' \in [left : SUBSET Defined, changed : BOOLEAN, pass : Nat]
    <3>1. FALSE \in BOOLEAN /\ 0 \in Nat
      OBVIOUS
    <3> QED
      BY <2>1, <2>2, <3>1, Zenon
  <2> QED
    BY <1>3, <2>3 DEF BeginSweep, Inv, Kept, FeedsOK, LoopsOK, Defined, ValidStates,
       BusOK, EpisodesOK, PropertiesOK, DefinitionsOK, graph, bus, others, feeds,
       environment
<1>4. CASE SubscribeGlobals
  <2>1. propertyQ' \in [PropertyNames -> Seq(Properties \cup {Garbage, Mistyped})]
    <3>1. ASSUME NEW p \in PropertyNames
          PROVE  (IF retainedProperty[p] = Nil THEN <<>> ELSE <<retainedProperty[p]>>)
                    \in Seq(Properties \cup {Garbage, Mistyped})
      <4> DEFINE raw == retainedProperty[p]
      <4>1. raw \in Properties \cup {Garbage, Mistyped, Nil}
        BY DEF Inv, FeedsOK
      <4> HIDE DEF raw
      <4>2. raw # Nil => <<raw>> \in Seq(Properties \cup {Garbage, Mistyped})
        BY <4>1
      <4>3. <<>> \in Seq(Properties \cup {Garbage, Mistyped})
        OBVIOUS
      <4> QED
        BY <4>2, <4>3, Zenon DEF raw
    <3> QED
      BY <1>4, <3>1 DEF SubscribeGlobals
  <2>2. /\ inbox' \in [Alerts -> Box]
        /\ configAdded' \in [Alerts -> Config \cup {Garbage, Mistyped, Nil}]
    BY <1>4 DEF SubscribeGlobals, LastAnnounced, Inv, Kept, BusOK, FeedsOK, Box
  <2> QED
    BY <1>4, <2>1, <2>2 DEF SubscribeGlobals, Inv, Kept, FeedsOK, LoopsOK, Defined,
       ValidStates, BusOK, EpisodesOK, PropertiesOK, DefinitionsOK, graph, handler,
       bus, others, environment
<1> QED
  BY <1>1, <1>2, <1>3, <1>4

\* A message on an .alert subject, written by somebody else.
LEMMA InvWrite ==
  ASSUME Inv, NEW a \in Alerts, NEW payload \in State \cup {Garbage, Mistyped},
         NEW by \in {"operator", "other"}, WriteState(a, payload, by),
         draft' \in [Alerts -> State \cup {Nil}]
  PROVE  Inv'
<1>1. Message(payload, by) \in Messages
  BY DEF Message, Messages
<1>2. Delivered(a, Message(payload, by), inbox[a], watched) \in Box
  BY <1>1, DeliveredTyped DEF Inv, Kept, BusOK
<1>3. BusOK'
  BY <1>1, <1>2 DEF WriteState, Inv, Kept, BusOK
<1> QED
  BY <1>3 DEF WriteState, Inv, Kept, FeedsOK, LoopsOK, Defined, ValidStates,
     EpisodesOK, PropertiesOK, DefinitionsOK, loading, graph, handler, others, feeds

\* Everybody else on the bus.
LEMMA InvEnvironment == Inv /\ Environment => Inv'
<1> SUFFICES ASSUME Inv, Environment PROVE Inv'
  OBVIOUS
<1> USE PayloadsAssumption
<1>1. ASSUME NEW a \in Alerts, NEW value \in InputChoices[a], PublishInput(a, value)
      PROVE  Inv'
  BY <1>1 DEF PublishInput, Inv, Kept, FeedsOK, LoopsOK, Defined, ValidStates, BusOK,
     EpisodesOK, PropertiesOK, DefinitionsOK, loading, graph, handler, bus
<1>2. ASSUME NEW a \in Alerts, NEW raw \in ConfigChoices[a], PublishConfig(a, raw)
      PROVE  Inv'
  <2>1. raw \in Config \cup {Garbage, Mistyped}
    OBVIOUS
  <2>2. Append(configQ[a], raw) \in Seq(Config \cup {Garbage, Mistyped})
    BY <2>1 DEF Inv, FeedsOK
  <2>3. FeedsOK'
    BY <1>2, <2>1, <2>2 DEF PublishConfig, Inv, FeedsOK, loading
  <2> QED
    BY <1>2, <2>3 DEF PublishConfig, Inv, Kept, LoopsOK, Defined, ValidStates, BusOK,
       EpisodesOK, PropertiesOK, DefinitionsOK, graph, handler, bus
<1>3. ASSUME NEW a \in Alerts, NEW s \in ForeignStates[a], PublishForeign(a, s)
      PROVE  Inv'
  <2>1. s \in State \cup {Garbage, Mistyped}
    OBVIOUS
  <2> QED
    BY <1>3, <2>1, InvWrite DEF PublishForeign, Inv, FeedsOK
<1>4. ASSUME NEW a \in Acknowledgers, ReadAlert(a) PROVE Inv'
  <2> DEFINE s == retained[a].state
  <2>1. a \in Alerts
    OBVIOUS
  <2>2. s \in State
    BY <1>4, <2>1 DEF ReadAlert, Inv, Kept, BusOK, Messages, Usable, Decoded
  <2>3. draft' = [draft EXCEPT ![a] = [s EXCEPT !.acknowledged = TRUE]]
    BY <1>4 DEF ReadAlert
  <2> HIDE DEF s
  <2>4. [s EXCEPT !.acknowledged = TRUE] \in State
    BY <2>2 DEF State
  <2>5. draft' \in [Alerts -> State \cup {Nil}]
    BY <2>1, <2>3, <2>4 DEF Inv, FeedsOK
  <2> QED
    BY <1>4, <2>5 DEF ReadAlert, Inv, Kept, FeedsOK, LoopsOK, Defined, ValidStates,
       BusOK, EpisodesOK, PropertiesOK, DefinitionsOK, loading, graph, handler, bus,
       others, feeds
<1>5. ASSUME NEW a \in Acknowledgers, AcknowledgeAlert(a) PROVE Inv'
  <2>1. a \in Alerts /\ draft[a] \in State
    BY <1>5 DEF AcknowledgeAlert, Inv, FeedsOK
  <2>2. draft' \in [Alerts -> State \cup {Nil}]
    BY <1>5 DEF AcknowledgeAlert, Inv, FeedsOK
  <2> QED
    BY <1>5, <2>1, <2>2, InvWrite DEF AcknowledgeAlert
<1>6. ASSUME NEW p \in PropertyNames, NEW raw \in PropertyChoices[p],
             PublishProperty(p, raw)
      PROVE  Inv'
  <2>1. raw \in Properties \cup {Garbage, Mistyped}
    OBVIOUS
  <2>2. Append(propertyQ[p], raw) \in Seq(Properties \cup {Garbage, Mistyped})
    BY <2>1 DEF Inv, FeedsOK
  <2>3. FeedsOK'
    BY <1>6, <2>1, <2>2 DEF PublishProperty, Inv, FeedsOK, loading
  <2> QED
    BY <1>6, <2>3 DEF PublishProperty, Inv, Kept, LoopsOK, Defined, ValidStates, BusOK,
       EpisodesOK, PropertiesOK, DefinitionsOK, graph, handler, bus
<1> QED
  BY <1>1, <1>2, <1>3, <1>4, <1>5, <1>6 DEF Environment

\* The process dies: only the bus and the operators' drafts remain.
LEMMA InvCrash == Inv /\ Crash => Inv'
<1> SUFFICES ASSUME Inv, Crash PROVE Inv'
  OBVIOUS
<1>1. NoMessages \in Box
  BY DEF NoMessages, Box
<1>2. BusOK'
  BY <1>1 DEF Crash, Inv, Kept, BusOK
<1>3. ValidStates(states)' /\ PropertiesOK' /\ DefinitionsOK' /\ EpisodesOK'
  BY DEF Crash, ValidStates, PropertiesOK, DefinitionsOK, EpisodesOK, Inv, Kept
<1>4. FeedsOK'
  BY OrderAssumption DEF Crash, Inv, FeedsOK, others
<1>5. LoopsOK'
  <2>1. FALSE \in BOOLEAN /\ 0 \in Nat
    OBVIOUS
  <2> QED
    BY <2>1, Zenon DEF Crash, LoopsOK, NoSweep
<1> QED
  BY <1>2, <1>3, <1>4, <1>5 DEF Inv, Kept

\* Init establishes the invariant, from the payloads retained before the start.
LEMMA InvInit == Init => Inv
<1> SUFFICES ASSUME Init PROVE Inv
  OBVIOUS
<1>1. NoMessages \in Box
  BY DEF NoMessages, Box
<1>2. \A a \in Alerts : InitialState[a] # Nil => Message(InitialState[a], "service") \in Messages
  BY PayloadsAssumption DEF Message, Messages
<1>3. BusOK
  BY <1>1, <1>2 DEF Init, BusOK
<1>4. ValidStates(states) /\ PropertiesOK /\ DefinitionsOK /\ EpisodesOK
  BY DEF Init, ValidStates, PropertiesOK, DefinitionsOK, EpisodesOK
<1>5. FeedsOK
  BY OrderAssumption, PayloadsAssumption DEF Init, FeedsOK
<1>6. LoopsOK
  <2>1. FALSE \in BOOLEAN /\ 0 \in Nat
    OBVIOUS
  <2> QED
    BY <2>1, Zenon DEF Init, LoopsOK, NoSweep
<1> QED
  BY <1>3, <1>4, <1>5, <1>6 DEF Inv, Kept

\* Every step keeps the invariant.
LEMMA InvStep == Inv /\ [Next]_vars => Inv'
<1> SUFFICES ASSUME Inv, [Next]_vars PROVE Inv'
  OBVIOUS
<1>1. CASE Handlers
  BY <1>1, InvLoad, InvConfig, InvAncestor, InvProperty, InvInput, InvState,
     InvRefresh, InvSweep DEF Handlers
<1>2. CASE Environment
  BY <1>2, InvEnvironment
<1>3. CASE Crash
  BY <1>3, InvCrash
<1>4. CASE UNCHANGED vars
  BY <1>4 DEF vars, loading, graph, handler, bus, others, feeds, environment, Inv, Kept,
     FeedsOK, LoopsOK, Defined, ValidStates, BusOK, EpisodesOK, PropertiesOK,
     DefinitionsOK
<1> QED
  BY <1>1, <1>2, <1>3, <1>4 DEF Next

-----------------------------------------------------------------------------
(* Lists of subjects: append and removeString.                             *)

Listed(values, x) == \E i \in DOMAIN values : values[i] = x
Distinct(values) == \A i, j \in DOMAIN values : values[i] = values[j] => i = j

\* Appending to a list.
LEMMA AppendLists ==
  ASSUME NEW S, NEW values \in Seq(S), NEW x \in S
  PROVE  /\ Append(values, x) \in Seq(S)
         /\ \A y : Listed(Append(values, x), y) <=> Listed(values, y) \/ y = x
         /\ Distinct(values) /\ ~Listed(values, x) => Distinct(Append(values, x))
<1> DEFINE more == Append(values, x)
<1>1. more \in Seq(S)
  OBVIOUS
<1>2. /\ DOMAIN values = 1..Len(values) /\ Len(values) \in Nat
      /\ DOMAIN more = 1..(Len(values) + 1)
      /\ more[Len(values) + 1] = x
      /\ \A i \in DOMAIN values : more[i] = values[i]
  OBVIOUS
<1> HIDE DEF more
<1>3. ASSUME NEW y PROVE Listed(more, y) <=> Listed(values, y) \/ y = x
  BY <1>2 DEF Listed
<1>4. Distinct(values) /\ ~Listed(values, x) => Distinct(more)
  BY <1>2 DEF Listed, Distinct
<1> QED
  BY <1>1, <1>3, <1>4 DEF more

\* removeString removes every occurrence of the target, keeps the others.
LEMMA WithoutFilters ==
  ASSUME NEW S, NEW values \in Seq(S), NEW target
  PROVE  /\ Without(values, target) \in Seq(S)
         /\ \A x : Listed(Without(values, target), x) <=> Listed(values, x) /\ x # target
         /\ Distinct(values) => Distinct(Without(values, target))
<1> DEFINE L == Len(values)
           Step(F, i) == IF i = 0 THEN <<>>
                         ELSE IF values[i] # target THEN Append(F[i - 1], values[i])
                         ELSE F[i - 1]
           Runs(F, n) == F = [i \in 0..n |-> Step(F, i)]
           result == CHOOSE F : Runs(F, L)
<1>0. /\ L \in Nat /\ DOMAIN values = 1..L /\ \A i \in 1..L : values[i] \in S
      /\ Without(values, target) = result[L]
  BY DEF Without
<1>1. \A n \in Nat : \E F : Runs(F, n)
  <2> DEFINE T == {n \in Nat : ~\E F : Runs(F, n)}
  <2> SUFFICES ASSUME T # {} PROVE FALSE
    OBVIOUS
  <2>1. PICK n \in T : \A k \in T : n <= k
    <3>1. T \in SUBSET Nat
      OBVIOUS
    <3> HIDE DEF T
    <3> QED
      BY <3>1, LeastNatural
  <2>2. CASE n = 0
    <3> DEFINE G == [i \in 0..0 |-> <<>>]
    <3>1. Runs(G, 0)
      OBVIOUS
    <3> QED
      BY <2>1, <2>2, <3>1
  <2>3. CASE n # 0
    <3>1. n \in Nat /\ n - 1 \in Nat /\ n - 1 \notin T
      <4>1. n \in Nat
        OBVIOUS
      <4> HIDE DEF T
      <4> QED
        BY <2>1, <2>3, <4>1
    <3>2. PICK F : Runs(F, n - 1)
      BY <3>1
    <3>3. DOMAIN F = 0..(n - 1) /\ \A i \in 0..(n - 1) : F[i] = Step(F, i)
      BY <3>2
    <3> DEFINE G == [i \in 0..n |-> IF i = n THEN Step(F, n) ELSE F[i]]
    <3>4. \A i \in 0..(n - 1) : G[i] = F[i]
      BY <3>1
    <3>5. G[n] = Step(F, n) /\ DOMAIN G = 0..n
      BY <3>1
    <3> HIDE DEF G
    <3>6. \A i \in 0..n : Step(G, i) = Step(F, i)
      BY <3>1, <3>4
    <3>7. \A i \in 0..n : G[i] = Step(G, i)
      <4> HIDE DEF Step
      <4>1. \A i \in 0..n : i = n \/ i \in 0..(n - 1)
        BY <3>1
      <4> QED
        BY <3>3, <3>4, <3>5, <3>6, <4>1
    <3>8. Runs(G, n)
      <4>1. G = [i \in 0..n |-> G[i]]
        BY DEF G
      <4> HIDE DEF Step
      <4> QED
        BY <3>7, <4>1
    <3> QED
      BY <2>1, <3>8
  <2> QED
    BY <2>2, <2>3
<1>2. Runs(result, L)
  <2> HIDE DEF Runs, L
  <2> QED
    BY <1>0, <1>1
<1> HIDE DEF result
<1>3. \A i \in 0..L : result[i] = Step(result, i)
  BY <1>2
<1> DEFINE Right(n) ==
             /\ result[n] \in Seq(S)
             /\ \A x : Listed(result[n], x) <=> (x # target /\ \E i \in 1..n : values[i] = x)
             /\ Distinct(values) => Distinct(result[n])
<1>4. \A n \in 0..L : Right(n)
  <2> DEFINE T == {n \in 0..L : ~Right(n)}
  <2> SUFFICES ASSUME T # {} PROVE FALSE
    OBVIOUS
  <2>1. PICK n \in T : \A k \in T : n <= k
    <3>1. T \in SUBSET Nat
      BY <1>0
    <3> HIDE DEF T
    <3> QED
      BY <3>1, LeastNatural
  <2>2. n \in 0..L /\ ~Right(n)
    OBVIOUS
  <2>3. CASE n = 0
    <3>1. result[0] = <<>>
      BY <1>0, <1>3
    <3>2. Right(0)
      BY <3>1 DEF Listed, Distinct
    <3> QED
      BY <2>2, <2>3, <3>2
  <2>4. CASE n # 0
    <3>1. n \in 1..L /\ n - 1 \in 0..L /\ n - 1 \notin T
      <4> HIDE DEF T, L
      <4> QED
        BY <1>0, <2>1, <2>2, <2>4
    <3>2. Right(n - 1)
      BY <3>1
    <3> DEFINE before == result[n - 1]
    <3>3. result[n] = IF values[n] # target THEN Append(before, values[n]) ELSE before
      BY <1>3, <2>2, <2>4
    <3>4. values[n] \in S /\ \A x : (\E i \in 1..n : values[i] = x)
                                    <=> (\E i \in 1..(n - 1) : values[i] = x) \/ values[n] = x
      BY <1>0, <3>1
    <3>5. /\ before \in Seq(S)
          /\ \A x : Listed(before, x) <=> (x # target /\ \E i \in 1..(n - 1) : values[i] = x)
          /\ Distinct(values) => Distinct(before)
      BY <3>2
    <3> HIDE DEF before
    <3>6. CASE values[n] = target
      <4>1. result[n] = before
        BY <3>3, <3>6
      <4>2. Right(n)
        BY <3>4, <3>5, <3>6, <4>1, Zenon
      <4> QED
        BY <2>2, <4>2
    <3>7. CASE values[n] # target
      <4>1. result[n] = Append(before, values[n])
        BY <3>3, <3>7
      <4>2. Distinct(values) => ~Listed(before, values[n])
        <5> SUFFICES ASSUME Distinct(values), Listed(before, values[n]) PROVE FALSE
          OBVIOUS
        <5>1. PICK i \in 1..(n - 1) : values[i] = values[n]
          BY <3>5
        <5>2. i \in 1..L /\ i # n
          BY <1>0, <3>1
        <5> QED
          BY <1>0, <3>1, <5>1, <5>2 DEF Distinct
      <4>3. /\ Append(before, values[n]) \in Seq(S)
            /\ \A y : Listed(Append(before, values[n]), y)
                        <=> Listed(before, y) \/ y = values[n]
            /\ Distinct(before) /\ ~Listed(before, values[n])
                 => Distinct(Append(before, values[n]))
        BY <3>4, <3>5, AppendLists
      <4>4. Right(n)
        BY <3>4, <3>5, <3>7, <4>1, <4>2, <4>3, Zenon
      <4> QED
        BY <2>2, <4>4
    <3> QED
      BY <3>6, <3>7
  <2> QED
    BY <2>3, <2>4
<1>5. Right(L)
  <2>1. L \in 0..L
    BY <1>0
  <2> HIDE DEF Right
  <2> QED
    BY <1>4, <2>1
<1> QED
  BY <1>0, <1>5 DEF Listed

-----------------------------------------------------------------------------
(* The work in hand, and the parents of every alert.                       *)

\* parents is what hookParentsLocked made of the definitions.
Hooks ==
    /\ parents \in [Alerts -> Seq(Alerts)]
    /\ \A m \in Alerts : Distinct(parents[m])
    /\ \A m, s \in Alerts :
        Listed(parents[m], s) <=>
            IsSummary(definitions[s]) /\ m \in MemberSet(definitions[s])

\* The subjects in hand are names of alerts.
Subjects ==
    /\ queue \in Seq(Alerts) /\ seen \in SUBSET Alerts
    /\ dirty \in SUBSET Alerts /\ watched \in SUBSET Alerts
    /\ missed \in SUBSET Alerts /\ older \in SUBSET Alerts

\* unhookParentsLocked removes the alert as a parent, and nothing else.
LEMMA UnhookedExact ==
  ASSUME Hooks, NEW a \in Alerts
  PROVE  /\ Unhooked(a) \in [Alerts -> Seq(Alerts)]
         /\ \A m \in Alerts : Distinct(Unhooked(a)[m])
         /\ \A m, s \in Alerts :
                Listed(Unhooked(a)[m], s) <=> s # a /\ Listed(parents[m], s)
<1>1. ASSUME NEW m \in Alerts
      PROVE  /\ Unhooked(a)[m] \in Seq(Alerts)
             /\ Distinct(Unhooked(a)[m])
             /\ \A s \in Alerts :
                    Listed(Unhooked(a)[m], s) <=> s # a /\ Listed(parents[m], s)
  <2>1. Unhooked(a)[m] = Without(parents[m], a)
    BY DEF Unhooked
  <2>2. parents[m] \in Seq(Alerts) /\ Distinct(parents[m])
    BY DEF Hooks
  <2> QED
    BY <2>1, <2>2, WithoutFilters, Zenon
<1>2. Unhooked(a) = [m \in Alerts |-> Unhooked(a)[m]]
  BY DEF Unhooked
<1>3. Unhooked(a) \in [Alerts -> Seq(Alerts)]
  BY <1>1, <1>2
<1> QED
  BY <1>1, <1>3, Zenon

\* hookParentsLocked adds the summary to its members, once.
LEMMA HookedExact ==
  ASSUME Hooks, NEW a \in Alerts, NEW c
  PROVE  /\ Hooked(a, c) \in [Alerts -> Seq(Alerts)]
         /\ \A m \in Alerts : Distinct(Hooked(a, c)[m])
         /\ \A m, s \in Alerts :
                Listed(Hooked(a, c)[m], s) <=>
                    IF s = a THEN m \in MemberSet(c) ELSE Listed(parents[m], s)
<1>1. ASSUME NEW m \in Alerts
      PROVE  /\ Hooked(a, c)[m] \in Seq(Alerts)
             /\ Distinct(Hooked(a, c)[m])
             /\ \A s \in Alerts :
                    Listed(Hooked(a, c)[m], s) <=>
                        IF s = a THEN m \in MemberSet(c) ELSE Listed(parents[m], s)
  <2> DEFINE rest == Unhooked(a)[m]
  <2>1. /\ rest \in Seq(Alerts) /\ Distinct(rest)
        /\ \A s \in Alerts : Listed(rest, s) <=> s # a /\ Listed(parents[m], s)
    BY UnhookedExact
  <2>2. Hooked(a, c)[m] = IF m \in MemberSet(c) THEN Append(rest, a) ELSE rest
    BY DEF Hooked
  <2> HIDE DEF rest
  <2>3. /\ Append(rest, a) \in Seq(Alerts)
        /\ \A y : Listed(Append(rest, a), y) <=> Listed(rest, y) \/ y = a
        /\ Distinct(rest) /\ ~Listed(rest, a) => Distinct(Append(rest, a))
    BY <2>1, AppendLists, Zenon
  <2>4. CASE m \in MemberSet(c)
    BY <2>1, <2>2, <2>3, <2>4
  <2>5. CASE m \notin MemberSet(c)
    BY <2>1, <2>2, <2>5
  <2> QED
    BY <2>4, <2>5
<1>2. Hooked(a, c) = [m \in Alerts |-> Hooked(a, c)[m]]
  BY DEF Hooked
<1>3. Hooked(a, c) \in [Alerts -> Seq(Alerts)]
  BY <1>1, <1>2
<1> QED
  BY <1>1, <1>3, Zenon

\* reconcileConfigLocked keeps the parents in line with the definitions.
LEMMA HooksConfig ==
  ASSUME Hooks, DefinitionsOK, NEW a \in Alerts, NEW raw, ReconcileConfig(a, raw)
  PROVE  Hooks'
<1>1. ASSUME definitions' = [definitions EXCEPT ![a] = Nil] \/
               (definitions' = [definitions EXCEPT ![a] = raw] /\ IsLeaf(raw)),
             parents' = Unhooked(a)
      PROVE  Hooks'
  <2>1. ~IsSummary(definitions'[a])
    BY <1>1 DEF DefinitionsOK, IsSummary, IsLeaf
  <2>2. \A s \in Alerts : s # a => definitions'[s] = definitions[s]
    BY <1>1 DEF DefinitionsOK
  <2>3. \A m, s \in Alerts :
          Listed(parents'[m], s) <=>
            IsSummary(definitions'[s]) /\ m \in MemberSet(definitions'[s])
    <3> SUFFICES ASSUME NEW m \in Alerts, NEW s \in Alerts
                 PROVE  Listed(parents'[m], s) <=>
                          IsSummary(definitions'[s]) /\ m \in MemberSet(definitions'[s])
      OBVIOUS
    <3>1. Listed(parents'[m], s) <=> s # a /\ Listed(parents[m], s)
      BY <1>1, UnhookedExact, Zenon
    <3>2. CASE s = a
      BY <2>1, <3>1, <3>2
    <3>3. CASE s # a
      BY <2>2, <3>1, <3>3 DEF Hooks
    <3> QED
      BY <3>2, <3>3
  <2>4. parents' \in [Alerts -> Seq(Alerts)] /\ \A m \in Alerts : Distinct(parents'[m])
    BY <1>1, UnhookedExact, Zenon
  <2> QED
    BY <2>3, <2>4 DEF Hooks
<1>2. CASE AcceptSummary(a, raw)
  <2>1. /\ definitions' = [definitions EXCEPT ![a] = raw]
        /\ parents' = Hooked(a, raw) /\ IsSummary(raw)
    BY <1>2 DEF AcceptSummary
  <2>2. definitions'[a] = raw /\ \A s \in Alerts : s # a => definitions'[s] = definitions[s]
    BY <2>1 DEF DefinitionsOK
  <2>3. \A m, s \in Alerts :
          Listed(parents'[m], s) <=>
            IsSummary(definitions'[s]) /\ m \in MemberSet(definitions'[s])
    <3> SUFFICES ASSUME NEW m \in Alerts, NEW s \in Alerts
                 PROVE  Listed(parents'[m], s) <=>
                          IsSummary(definitions'[s]) /\ m \in MemberSet(definitions'[s])
      OBVIOUS
    <3>1. Listed(parents'[m], s) <=>
            IF s = a THEN m \in MemberSet(raw) ELSE Listed(parents[m], s)
      BY <2>1, HookedExact, Zenon
    <3>2. CASE s = a
      BY <2>1, <2>2, <3>1, <3>2
    <3>3. CASE s # a
      BY <2>2, <3>1, <3>3 DEF Hooks
    <3> QED
      BY <3>2, <3>3
  <2>4. parents' \in [Alerts -> Seq(Alerts)] /\ \A m \in Alerts : Distinct(parents'[m])
    BY <2>1, HookedExact, Zenon
  <2> QED
    BY <2>3, <2>4 DEF Hooks
<1>3. CASE RejectConfig(a, raw)
  BY <1>1, <1>3 DEF RejectConfig
<1>4. CASE AcceptLeaf(a, raw)
  BY <1>1, <1>4 DEF AcceptLeaf
<1> QED
  BY <1>2, <1>3, <1>4 DEF ReconcileConfig

\* Nothing else touches definitions or parents, but for a crash.
LEMMA HooksStep == Inv /\ Hooks /\ [Next]_vars => Hooks'
<1> SUFFICES ASSUME Inv, Hooks, [Next]_vars PROVE Hooks'
  OBVIOUS
<1>0. UNCHANGED <<definitions, parents>> => Hooks'
  BY DEF Hooks
<1>a. DefinitionsOK
  BY DEF Inv, Kept
<1>1. CASE LoadConfig
  <2>1. Order[loaded + 1] \in Alerts
    BY <1>1, OrderAssumption DEF LoadConfig, Inv, FeedsOK
  <2> QED
    BY <1>0, <1>1, <1>a, <2>1, HooksConfig DEF LoadConfig, graph
<1>2. ASSUME NEW a \in Alerts, HandleConfig(a) PROVE Hooks'
  BY <1>0, <1>2, <1>a, HooksConfig DEF HandleConfig, ConfigArrives, graph
<1>3. CASE Crash
  <2>1. definitions' = [a \in Alerts |-> Nil] /\ parents' = [a \in Alerts |-> <<>>]
    BY <1>3 DEF Crash
  <2> QED
    BY <2>1 DEF Hooks, IsSummary, Listed, Distinct
<1>4. CASE \/ LoadStates \/ LoadProperties \/ BeginSweep \/ SubscribeGlobals
           \/ EvaluateAncestor
  BY <1>0, <1>4 DEF LoadStates, LoadProperties, BeginSweep, SubscribeGlobals,
     EvaluateAncestor, graph
<1>5. ASSUME NEW p \in PropertyNames, HandleProperty(p) PROVE Hooks'
  BY <1>0, <1>5 DEF HandleProperty, graph
<1>6. ASSUME NEW a \in Alerts,
             \/ HandleInput(a) \/ HandleState(a) \/ HandleCreated(a)
             \/ HandleAdded(a) \/ RefreshDefinition(a) \/ SweepSummary(a)
      PROVE  Hooks'
  BY <1>0, <1>6 DEF HandleInput, HandleState, HandleCreated, HandleAdded,
     RefreshDefinition, SweepSummary, graph
<1>7. CASE Environment
  BY <1>0, <1>7 DEF Environment, PublishInput, PublishConfig, PublishForeign,
     WriteState, ReadAlert, AcknowledgeAlert, PublishProperty, graph
<1>8. CASE UNCHANGED vars
  BY <1>0, <1>8 DEF vars, graph
<1> QED
  BY <1>1, <1>2, <1>3, <1>4, <1>5, <1>6, <1>7, <1>8 DEF Next, Handlers

\* The subjects publishStateLocked may mark.
Marks == dirty \in SUBSET Alerts /\ missed \in SUBSET Alerts /\ older \in SUBSET Alerts

\* publishStateLocked marks only what it was asked to publish.
LEMMA PublishMarks ==
  ASSUME Marks, NEW P \in SUBSET Alerts, NEW st, NEW W, NEW Q, Publish(P, st, W, Q)
  PROVE  Marks'
  BY DEF Publish, PublishSome, Marks

\* evaluateDefinitionLocked and applyLocked mark only their alert.
LEMMA EvaluateMarks ==
  ASSUME Marks, NEW a \in Alerts, NEW c, NEW input, NEW base, NEW W, NEW Q,
         \/ EvaluateDefinition(a, c, input, base, properties, W, Q)
         \/ \E e : Apply(a, e, base, W, Q)
  PROVE  Marks'
<1>1. ASSUME NEW e, Apply(a, e, base, W, Q) PROVE Marks'
  <2> DEFINE next == ApplyEvaluation(base[a], e, episodes[a] + 1)
             st == [base EXCEPT ![a] = next]
             P == Unpublished(a, next, base)
  <2>1. CASE next = Nil
    BY <1>1, <2>1 DEF Apply, Marks
  <2>2. CASE next # Nil
    <3>1. Publish(P, st, W, Q)
      BY <1>1, <2>2 DEF Apply
    <3>2. P \in SUBSET Alerts
      BY DEF Unpublished
    <3> HIDE DEF P, st
    <3> QED
      BY <3>1, <3>2, PublishMarks
  <2> QED
    BY <2>1, <2>2
<1>2. CASE EvaluateDefinition(a, c, input, base, properties, W, Q)
  <2>1. CASE Unevaluable(c, input)
    BY <1>2, <2>1 DEF EvaluateDefinition, Marks
  <2>2. CASE ~Unevaluable(c, input)
    BY <1>1, <1>2, <2>2 DEF EvaluateDefinition
  <2> QED
    BY <2>1, <2>2
<1> QED
  BY <1>1, <1>2

\* reconcileConfigLocked goes on with parents of the alert.
LEMMA SubjectsConfig ==
  ASSUME Hooks, Subjects, NEW a \in Alerts, NEW raw \in Config \cup {Garbage},
         ReconcileConfig(a, raw)
  PROVE  Subjects'
<1>0. Marks
  BY DEF Subjects, Marks
<1>1. Unhooked(a)[a] \in Seq(Alerts) /\ Hooked(a, raw)[a] \in Seq(Alerts)
  <2>1. Unhooked(a) \in [Alerts -> Seq(Alerts)]
    BY UnhookedExact, Zenon
  <2>2. Hooked(a, raw) \in [Alerts -> Seq(Alerts)]
    BY HookedExact, Zenon
  <2> QED
    BY <2>1, <2>2
<1>2. <<>> \in Seq(Alerts)
  OBVIOUS
<1>3. CASE RejectConfig(a, raw)
  <2>1. Marks'
    BY <1>0, <1>3, EvaluateMarks DEF RejectConfig
  <2>2. watched' \in SUBSET Alerts
    BY <1>3 DEF RejectConfig, Subjects
  <2>3. queue' = Unhooked(a)[a] /\ seen' = {}
    BY <1>3 DEF RejectConfig, Ancestors
  <2> QED
    BY <1>1, <2>1, <2>2, <2>3 DEF Subjects, Marks
<1>4. CASE AcceptSummary(a, raw)
  <2>1. Marks'
    BY <1>0, <1>4, EvaluateMarks DEF AcceptSummary
  <2>2. MemberSet(raw) \in SUBSET Alerts
    <3>1. raw \in Config
      BY <1>4 DEF AcceptSummary, Accepted, Enabled
    <3> QED
      BY <3>1, MembersFinite
  <2>3. watched' \in SUBSET Alerts
    BY <1>4, <2>2 DEF AcceptSummary, Subjects
  <2>4. queue' = Hooked(a, raw)[a] /\ seen' = {}
    BY <1>4 DEF AcceptSummary, Ancestors
  <2> QED
    BY <1>1, <2>1, <2>3, <2>4 DEF Subjects, Marks
<1>5. CASE AcceptLeaf(a, raw)
  <2>1. Marks'
    BY <1>0, <1>5, EvaluateMarks DEF AcceptLeaf
  <2>2. watched' \in SUBSET Alerts
    BY <1>5 DEF AcceptLeaf, Subjects
  <2>3. seen' = {} /\ queue' \in {<<>>, Unhooked(a)[a]}
    BY <1>5 DEF AcceptLeaf, Ancestors
  <2>4. queue' \in Seq(Alerts)
    BY <1>1, <1>2, <2>3
  <2> QED
    BY <2>1, <2>2, <2>3, <2>4 DEF Subjects, Marks
<1> QED
  BY <1>3, <1>4, <1>5 DEF ReconcileConfig

\* reconcileStateLocked goes on with parents of the alert.
LEMMA SubjectsState ==
  ASSUME Hooks, Subjects, NEW a \in Alerts, NEW incoming, NEW Q,
         StateArrives(a, incoming, Q), UNCHANGED watched
  PROVE  Subjects'
<1>0. Marks /\ parents[a] \in Seq(Alerts)
  BY DEF Subjects, Marks, Hooks
<1>1. CASE AcknowledgeTree(a, Q)
  <2> DEFINE done == {x \in AckTree(a) : states[x] # Nil /\ Acknowledgeable(states[x])}
  <2>1. PICK st : Publish(done, st, watched, Q)
    BY <1>1 DEF AcknowledgeTree
  <2>2. done \in SUBSET Alerts
    BY DEF AckTree
  <2> HIDE DEF done
  <2>3. Marks'
    BY <1>0, <2>1, <2>2, PublishMarks
  <2>4. queue' = parents[a] /\ seen' = {}
    BY <1>1 DEF AcknowledgeTree, Ancestors
  <2> QED
    BY <1>0, <2>3, <2>4 DEF Subjects, Marks
<1>2. CASE Ignore(Q) \/ Discard(a, Q)
  BY <1>2 DEF Ignore, Discard, Subjects, handler
<1>3. CASE Republish(a, Q)
  <2>1. Marks'
    BY <1>0, <1>3, PublishMarks DEF Republish
  <2> QED
    BY <1>3, <2>1 DEF Republish, Subjects, Marks, handler
<1>4. CASE AdoptState(a, incoming, Q) /\ Usable(incoming)
  <2>1. /\ missed' \in SUBSET Alerts /\ older' \in SUBSET Alerts /\ UNCHANGED dirty
        /\ queue' = parents[a] /\ seen' = {}
    BY <1>0, <1>4 DEF AdoptState, Ancestors, Marks
  <2> QED
    BY <1>0, <2>1 DEF Subjects, Marks
<1> QED
  BY <1>1, <1>2, <1>3, <1>4 DEF StateArrives, ReconcileState, AdoptState

\* Every step hands only names of alerts on.
LEMMA SubjectsStep == Inv /\ Hooks /\ Subjects /\ [Next]_vars => Subjects'
<1> SUFFICES ASSUME Inv, Hooks, Subjects, [Next]_vars PROVE Subjects'
  OBVIOUS
<1>0. Marks
  BY DEF Subjects, Marks
<1>a. UNCHANGED <<queue, seen, dirty, watched, missed, older>> => Subjects'
  BY DEF Subjects
<1>b. \A m \in Alerts : parents[m] \in Seq(Alerts)
  BY DEF Hooks
<1>1. CASE LoadConfig \/ \E a \in Alerts : HandleConfig(a)
  <2>1. AlertsSame => Subjects'
    BY <1>a DEF AlertsSame, handler, bus
  <2> QED
    BY <1>1, <2>1, ConfigTaken, SubjectsConfig DEF Inv, Offered
<1>3. CASE Crash
  <2>1. queue' = <<>> /\ seen' = {} /\ dirty' = {} /\ watched' = {} /\ missed' = {} /\ older' = {}
    BY <1>3 DEF Crash
  <2> QED
    BY <2>1 DEF Subjects
<1>4. CASE LoadStates \/ LoadProperties \/ BeginSweep
  BY <1>a, <1>4 DEF LoadStates, LoadProperties, BeginSweep, handler, bus
<1>5. CASE SubscribeGlobals
  BY <1>5 DEF SubscribeGlobals, Subjects, handler, bus
<1>6. CASE EvaluateAncestor
  <2> DEFINE s == Head(queue)
  <2>1. s \in Alerts /\ Tail(queue) \in Seq(Alerts)
    BY <1>6 DEF EvaluateAncestor, Subjects
  <2>2. Tail(queue) \o parents[s] \in Seq(Alerts)
    BY <1>b, <2>1
  <2>3. queue' \in Seq(Alerts) /\ seen' \in SUBSET Alerts /\ UNCHANGED watched
    BY <1>6, <2>1, <2>2 DEF EvaluateAncestor, Remaining, Subjects
  <2>4. Marks'
    <3>1. CASE UNCHANGED <<states, bus, episodes>>
      BY <1>0, <3>1 DEF Marks, bus
    <3>2. CASE EvaluateDefinition(s, definitions[s], NoInput, states, properties,
                                  watched, inbox)
      <4> HIDE DEF s
      <4> QED
        BY <1>0, <2>1, <3>2, EvaluateMarks
    <3> QED
      BY <1>6, <3>1, <3>2 DEF EvaluateAncestor
  <2> QED
    BY <2>3, <2>4 DEF Subjects, Marks
<1>7. ASSUME NEW p \in PropertyNames, HandleProperty(p) PROVE Subjects'
  BY <1>a, <1>7 DEF HandleProperty, bus
<1>8. ASSUME NEW a \in Alerts, HandleInput(a) PROVE Subjects'
  <2>1. CASE IsLeaf(definitions[a])
    <3>1. queue' = parents[a] /\ seen' = {} /\ UNCHANGED watched
      BY <1>8, <2>1 DEF HandleInput, AcceptInput, Ancestors
    <3>2. Marks'
      BY <1>0, <1>8, <2>1, EvaluateMarks DEF HandleInput, AcceptInput
    <3> QED
      BY <1>b, <3>1, <3>2 DEF Subjects, Marks
  <2>2. CASE ~IsLeaf(definitions[a])
    BY <1>a, <1>8, <2>2 DEF HandleInput, AcceptInput, bus, handler
  <2> QED
    BY <2>1, <2>2
<1>9. ASSUME NEW a \in Alerts, HandleState(a) \/ HandleAdded(a) PROVE Subjects'
  BY <1>9, SubjectsState DEF HandleState, HandleAdded
<1>10. ASSUME NEW a \in Alerts, HandleCreated(a) PROVE Subjects'
  BY <1>10 DEF HandleCreated, Subjects, handler
<1>11. ASSUME NEW a \in Alerts, RefreshDefinition(a) PROVE Subjects'
  <2>1. queue' = parents[a] /\ (seen' = {} \/ seen' = seen) /\ UNCHANGED watched
    BY <1>11 DEF RefreshDefinition
  <2>2. Marks'
    BY <1>0, <1>11, EvaluateMarks DEF RefreshDefinition
  <2> QED
    BY <1>b, <2>1, <2>2 DEF Subjects, Marks
<1>12. ASSUME NEW a \in Alerts, SweepSummary(a) PROVE Subjects'
  <2>1. UNCHANGED <<queue, seen, watched>>
    BY <1>12 DEF SweepSummary
  <2>2. Marks'
    BY <1>0, <1>12, EvaluateMarks DEF SweepSummary
  <2> QED
    BY <2>1, <2>2 DEF Subjects, Marks
<1>13. CASE Environment
  <2>1. ASSUME NEW a \in Alerts, NEW payload, NEW by, WriteState(a, payload, by)
        PROVE  Subjects'
    BY <2>1 DEF WriteState, Subjects, handler
  <2>2. Acknowledgers \subseteq Alerts
    BY PayloadsAssumption
  <2> QED
    BY <1>a, <1>13, <2>1, <2>2 DEF Environment, PublishInput, PublishConfig,
       PublishForeign, ReadAlert, AcknowledgeAlert, PublishProperty, handler, bus
<1>14. CASE UNCHANGED vars
  BY <1>a, <1>14 DEF vars, handler, bus
<1> QED
  BY <1>1, <1>3, <1>4, <1>5, <1>6, <1>7, <1>8, <1>9, <1>10, <1>11, <1>12, <1>13,
     <1>14 DEF Next, Handlers

\* The work in hand, over the whole run.
WorkInv == Inv /\ Hooks /\ Subjects

-----------------------------------------------------------------------------
(* A leaf is what its input says.                                          *)

\* Whether a leaf should be active.
Calls(c, input, props) ==
    LET e == Evaluate(c, input, props, <<>>) IN e # Nil /\ e.active

\* Alert a is what its definition, its input and the properties say.
UpToDate(a) ==
    IsLeaf(definitions[a]) /\ ~Unevaluable(definitions[a], inputs[a]) =>
        /\ states[a] # Nil
        /\ states[a].active <=> Calls(definitions[a], inputs[a], properties)

\* While a loop of reconcilePropertyLocked is under way, the leaves it has
\* still to visit may be behind.
LeavesFollow == \A a \in Alerts \ refresh : UpToDate(a)

\* The states and properties are loaded before the first definition.
NoneDefined == phase \in {"down", "properties"} => \A a \in Alerts : definitions[a] = Nil

\* The states of the members do not matter for a leaf.
LEMMA LeafEvaluation ==
  ASSUME NEW c \in Config, IsLeaf(c), NEW input, NEW props, NEW st
  PROVE  Evaluate(c, input, props, st) = Evaluate(c, input, props, <<>>)
<1>1. CASE c.type = "binary"
  BY <1>1 DEF Evaluate
<1>2. CASE c.type = "value"
  BY <1>2 DEF Evaluate
<1> QED
  BY <1>1, <1>2 DEF IsLeaf, Config

\* evaluateDefinitionLocked leaves the other alerts alone ...
LEMMA EvaluateOthers ==
  ASSUME NEW a \in Alerts, NEW c, NEW input, NEW base, ValidStates(base), NEW W, NEW Q,
         EvaluateDefinition(a, c, input, base, properties, W, Q),
         NEW x \in Alerts, x # a
  PROVE  states'[x] = base[x]
<1>1. CASE states' = base
  BY <1>1
<1>2. ASSUME NEW next, states' = [base EXCEPT ![a] = next] PROVE states'[x] = base[x]
  BY <1>2 DEF ValidStates
<1> QED
  BY <1>1, <1>2 DEF EvaluateDefinition, Apply

\* ... and its own as the evaluation says.
LEMMA EvaluateEffect ==
  ASSUME EpisodesOK, PropertiesOK, NEW a \in Alerts, NEW c, NEW input,
         DefinitionValid(c, a), NEW base, ValidStates(base), NEW W, NEW Q,
         EvaluateDefinition(a, c, input, base, properties, W, Q)
  PROVE  /\ Unevaluable(c, input) => states' = base
         /\ ~Unevaluable(c, input) =>
                LET e == Evaluate(c, input, properties, base)
                IN  states'[a] # Nil /\ (states'[a].active <=> e # Nil /\ e.active)
<1>1. CASE Unevaluable(c, input)
  BY <1>1 DEF EvaluateDefinition
<1>2. CASE ~Unevaluable(c, input)
  <2> DEFINE e == Evaluate(c, input, properties, base)
             f == IF e = Nil THEN Inactive ELSE e
             next == ApplyEvaluation(base[a], f, episodes[a] + 1)
  <2>1. Apply(a, f, base, W, Q)
    BY <1>2 DEF EvaluateDefinition
  <2>2. SaneResult(e)
    BY EvaluateSane DEF ValidStates, PropertiesOK
  <2>3. f \in Evaluation /\ Sane(f) /\ (f.active <=> e # Nil /\ e.active)
    <3> HIDE DEF e
    <3> QED
      BY <2>2, InactiveSane DEF SaneResult, Inactive
  <2>4. base[a] \in State \cup {Nil} /\ (base[a] # Nil => Validate(base[a]))
        /\ episodes[a] + 1 \in Nat \ {0}
    BY DEF ValidStates, EpisodesOK
  <2> HIDE DEF e, f
  <2>5. next # Nil
    BY <2>3, <2>4, ApplyNeverRefuses
  <2>6. next = Lifecycle(base[a], f, episodes[a] + 1)
    BY <2>5 DEF ApplyEvaluation
  <2>7. next.active = f.active
    BY <2>6 DEF Lifecycle
  <2>8. states' = [base EXCEPT ![a] = next]
    BY <2>1, <2>5 DEF Apply
  <2> HIDE DEF next
  <2>9. states'[a] = next
    BY <2>8 DEF ValidStates
  <2> QED
    BY <1>2, <2>3, <2>5, <2>7, <2>9 DEF e
<1> QED
  BY <1>1, <1>2

\* A property no interval and no binary config names does not matter.
LEMMA Unreferenced ==
  ASSUME NEW a, NEW c, DefinitionValid(c, a), IsLeaf(c), NEW input,
         NEW props, NEW new, NEW p \in PropertyNames, ~References(c, p),
         \A q \in PropertyNames : q # p => new[q] = props[q], NEW st
  PROVE  Evaluate(c, input, new, st) = Evaluate(c, input, props, st)
<1>0. c \in Config /\ ValidConfig(c, a)
  BY DEF DefinitionValid
<1>1. ASSUME NEW q \in PropertyNames, q # p PROVE Raised(q, new) = Raised(q, props)
  BY <1>1 DEF Raised
<1>2. CASE c.type = "binary"
  <2>1. c.property \in PropertyNames /\ c.property # p
    BY <1>0, <1>2 DEF Config, ValidConfig, References
  <2>2. EvaluateBinary(c, input, new) = EvaluateBinary(c, input, props)
    BY <1>1, <2>1 DEF EvaluateBinary
  <2> QED
    BY <1>2, <2>2 DEF Evaluate
<1>3. CASE c.type = "value"
  <2> DEFINE ivs == c.intervals
             hits == {i \in DOMAIN ivs : Contains(ivs[i], input.v)}
             i == CHOOSE k \in hits : \A h \in hits : k <= h
  <2>0. ivs \in Seq(Interval) /\ ValidIntervals(ivs)
    BY <1>0, <1>3 DEF Config, ValidConfig
  <2>1. CASE input.type # c.valueType \/ hits = {}
    <3>1. EvaluateValue(c, input, new) = Nil /\ EvaluateValue(c, input, props) = Nil
      BY <2>1 DEF EvaluateValue
    <3> QED
      BY <1>3, <3>1 DEF Evaluate
  <2>2. CASE ~(input.type # c.valueType \/ hits = {})
    <3>1. i \in hits
      <4>1. hits \in SUBSET Nat
        BY <2>0
      <4> HIDE DEF hits
      <4>2. \E k \in hits : \A h \in hits : k <= h
        BY <2>2, <4>1, LeastNatural
      <4> QED
        BY <4>2
    <3>2. i \in DOMAIN ivs
      BY <3>1
    <3>3. ivs[i] \in Interval /\ (ivs[i].active <=> ivs[i].property # Nil)
      <4> HIDE DEF i, ivs
      <4> QED
        BY <2>0, <3>2 DEF ValidIntervals
    <3>4. ivs[i].property # p
      BY <1>3, <3>2 DEF References
    <3>5. ASSUME NEW ps
          PROVE  EvaluateValue(c, input, ps) =
                   IF ivs[i].active THEN Raised(ivs[i].property, ps) ELSE Good
      BY <2>2 DEF EvaluateValue
    <3> HIDE DEF i, ivs
    <3>6. ivs[i].active => ivs[i].property \in PropertyNames
      BY <3>3 DEF Interval
    <3>7. EvaluateValue(c, input, new) = EvaluateValue(c, input, props)
      BY <1>1, <3>4, <3>5, <3>6
    <3> QED
      BY <1>3, <3>7 DEF Evaluate
  <2> QED
    BY <2>1, <2>2
<1> QED
  BY <1>0, <1>2, <1>3 DEF Config, IsLeaf

\* A leaf without an input is not evaluated.
LEMMA NothingToEvaluate ==
  ASSUME NEW c \in Config, IsLeaf(c)
  PROVE  Unevaluable(c, NoInput)
  BY DEF Config, IsLeaf, Unevaluable, NoInput

\* A step that keeps what an alert is made of keeps it up to date.
LEMMA UpToDateKept ==
  ASSUME NEW a \in Alerts, UpToDate(a), definitions'[a] = definitions[a],
         inputs'[a] = inputs[a], UNCHANGED properties,
         IsLeaf(definitions[a]) /\ states[a] # Nil =>
            states'[a] # Nil /\ (states'[a].active <=> states[a].active)
  PROVE  UpToDate(a)'
  BY DEF UpToDate

\* An evaluated leaf is up to date.
LEMMA UpToDateEvaluated ==
  ASSUME Kept, NEW a \in Alerts, NEW c, NEW input, DefinitionValid(c, a),
         NEW base, ValidStates(base), NEW W, NEW Q,
         EvaluateDefinition(a, c, input, base, properties, W, Q),
         definitions'[a] = c, inputs'[a] = input, UNCHANGED properties
  PROVE  UpToDate(a)'
<1> SUFFICES ASSUME IsLeaf(c), ~Unevaluable(c, input)
             PROVE  /\ states'[a] # Nil
                    /\ states'[a].active <=> Calls(c, input, properties)
  BY DEF UpToDate
<1>1. Evaluate(c, input, properties, base) = Evaluate(c, input, properties, <<>>)
  BY LeafEvaluation DEF DefinitionValid
<1>2. LET e == Evaluate(c, input, properties, base)
      IN  states'[a] # Nil /\ (states'[a].active <=> e # Nil /\ e.active)
  BY EvaluateEffect DEF Kept
<1> QED
  BY <1>1, <1>2 DEF Calls

\* An ancestor, or a summary of the sweep, is evaluated without an input: a
\* leaf in its place keeps its state.
LEMMA LeavesOverSummaries ==
  ASSUME Kept, LeavesFollow, NEW a \in Alerts, definitions[a] # Nil,
         EvaluateDefinition(a, definitions[a], NoInput, states, properties, watched, inbox),
         UNCHANGED <<definitions, inputs, properties, refresh>>
  PROVE  LeavesFollow'
<1>0. DefinitionValid(definitions[a], a) /\ ValidStates(states) /\ EpisodesOK /\ PropertiesOK
  BY DEF Kept, DefinitionsOK, DefinitionValid
<1>1. /\ \A x \in Alerts : x # a => states'[x] = states[x]
      /\ Unevaluable(definitions[a], NoInput) => states' = states
  BY <1>0, EvaluateEffect, EvaluateOthers
<1>2. ASSUME NEW x \in Alerts, IsLeaf(definitions[x]) PROVE states'[x] = states[x]
  <2>1. CASE x = a
    BY <1>0, <1>1, <1>2, <2>1, NothingToEvaluate DEF DefinitionValid
  <2> QED
    BY <1>1, <2>1
<1>3. ASSUME NEW x \in Alerts \ refresh PROVE UpToDate(x)'
  BY <1>2, UpToDateKept DEF LeavesFollow
<1> QED
  BY <1>3 DEF LeavesFollow

\* inputs has an entry for every alert.
InputsTotal == inputs = [a \in Alerts |-> inputs[a]]

\* The part of the invariant that is about leaves.
LeavesInv == InputsTotal /\ NoneDefined /\ LeavesFollow

\* reconcileConfigLocked.
LEMMA LeavesConfig ==
  ASSUME Inv, LeavesInv, Unlocked, NEW a \in Alerts, NEW raw \in Config \cup {Garbage},
         ReconcileConfig(a, raw), UNCHANGED properties
  PROVE  InputsTotal' /\ LeavesFollow'
<1>0. Kept /\ ValidStates(states) /\ EpisodesOK /\ PropertiesOK
      /\ definitions \in [Alerts -> Config \cup {Nil}] /\ refresh = {} /\ refresh' = refresh
  BY DEF Inv, Kept, DefinitionsOK, Unlocked, ReconcileConfig, RejectConfig, AcceptSummary,
     AcceptLeaf, Ancestors
<1>1. PICK v, c : /\ inputs' = [inputs EXCEPT ![a] = v]
                  /\ definitions' = [definitions EXCEPT ![a] = c]
  BY DEF ReconcileConfig, RejectConfig, AcceptSummary, AcceptLeaf
<1>2. /\ InputsTotal' /\ inputs'[a] = v /\ definitions'[a] = c
      /\ \A x \in Alerts : x # a => inputs'[x] = inputs[x] /\ definitions'[x] = definitions[x]
  <2>1. inputs = [x \in Alerts |-> inputs[x]]
    BY DEF LeavesInv, InputsTotal
  <2>2. inputs' = [x \in Alerts |-> IF x = a THEN v ELSE inputs[x]]
    BY <1>1, <2>1
  <2> QED
    BY <1>0, <1>1, <2>2 DEF InputsTotal
<1>3. ASSUME \A x \in Alerts : x # a /\ states[x] # Nil => states'[x] = states[x],
             UpToDate(a)'
      PROVE  LeavesFollow'
  <2>1. ASSUME NEW x \in Alerts, x # a PROVE UpToDate(x)'
    <3>1. UpToDate(x)
      BY <1>0, <2>1 DEF LeavesInv, LeavesFollow
    <3>2. states[x] # Nil => states'[x] = states[x]
      BY <1>3, <2>1
    <3> QED
      BY <1>2, <2>1, <3>1, <3>2, UpToDateKept
  <2> QED
    BY <1>3, <2>1 DEF LeavesFollow
<1>4. CASE RejectConfig(a, raw)
  <2>1. definitions'[a] = Nil
    BY <1>0, <1>4 DEF RejectConfig
  <2>2. UpToDate(a)'
    BY <2>1 DEF UpToDate, IsLeaf
  <2>3. \A x \in Alerts : x # a => states'[x] = states[x]
    <3> DEFINE next == ApplyEvaluation(states[a], Inactive, episodes[a] + 1)
    <3>1. states' = states \/ states' = [states EXCEPT ![a] = next]
      BY <1>4 DEF RejectConfig, Apply
    <3> HIDE DEF next
    <3> QED
      BY <1>0, <3>1 DEF ValidStates
  <2> QED
    BY <1>2, <1>3, <2>2, <2>3
<1>5. ASSUME Accepted(raw, a) PROVE DefinitionValid(raw, a)
  BY <1>5 DEF Accepted, Enabled, DefinitionValid
<1>6. CASE AcceptSummary(a, raw)
  <2>0. PICK F, W :
            EvaluateDefinition(a, raw, NoInput, CaughtUp(raw, F), properties, W, inbox)
    BY <1>6 DEF AcceptSummary
  <2> DEFINE base == CaughtUp(raw, F)
  <2>1. EvaluateDefinition(a, raw, NoInput, base, properties, W, inbox)
    BY <2>0
  <2>2. DefinitionValid(raw, a) /\ IsSummary(raw) /\ definitions'[a] = raw
    BY <1>0, <1>5, <1>6 DEF AcceptSummary
  <2>3. ValidStates(base)
    BY <1>0, CaughtUpValid
  <2>4. \A x \in Alerts : states[x] # Nil => base[x] = states[x]
    BY DEF CaughtUp
  <2> HIDE DEF base
  <2>5. \A x \in Alerts : x # a => states'[x] = base[x]
    BY <1>0, <2>1, <2>2, <2>3, EvaluateOthers
  <2>6. UpToDate(a)'
    BY <2>2 DEF UpToDate, IsLeaf, IsSummary
  <2> QED
    BY <1>2, <1>3, <2>4, <2>5, <2>6
<1>7. CASE AcceptLeaf(a, raw)
  <2>1. PICK W, input :
            /\ EvaluateDefinition(a, raw, input, states, properties, W, inbox)
            /\ inputs' = [inputs EXCEPT ![a] = input]
    BY <1>7 DEF AcceptLeaf
  <2>2. DefinitionValid(raw, a) /\ definitions'[a] = raw /\ inputs'[a] = input
    <3>2. inputs'[a] = input
      BY <2>1 DEF LeavesInv, InputsTotal
    <3> QED
      BY <1>0, <1>5, <1>7, <3>2 DEF AcceptLeaf
  <2>3. \A x \in Alerts : x # a => states'[x] = states[x]
    BY <1>0, <2>1, <2>2, EvaluateOthers
  <2>4. UpToDate(a)'
    BY <1>0, <2>1, <2>2, UpToDateEvaluated
  <2> QED
    BY <1>2, <1>3, <2>3, <2>4
<1> QED
  BY <1>4, <1>6, <1>7 DEF ReconcileConfig

\* A state message changes whether a leaf is active only when nothing has been
\* evaluated for it yet.
LEMMA LeavesState ==
  ASSUME Inv, LeavesFollow, Unlocked, NEW a \in Alerts, NEW incoming, NEW Q,
         StateArrives(a, incoming, Q), UNCHANGED <<definitions, inputs, properties, refresh>>
  PROVE  LeavesFollow'
<1>0. states \in [Alerts -> State \cup {Nil}]
  BY DEF Inv, Kept, ValidStates
<1>1. CASE AcknowledgeTree(a, Q)
  <2> DEFINE done == {x \in AckTree(a) : states[x] # Nil /\ Acknowledgeable(states[x])}
  <2>1. states' = [x \in Alerts |-> IF x \in done THEN Acknowledge(states[x]) ELSE states[x]]
    BY <1>1 DEF AcknowledgeTree
  <2>2. ASSUME NEW x \in Alerts, states[x] # Nil
        PROVE  states'[x] # Nil /\ (states'[x].active <=> states[x].active)
    <3>1. CASE x \notin done
      BY <2>1, <2>2, <3>1
    <3>2. CASE x \in done
      <4> DEFINE s == states[x]
      <4>1. states'[x] = [s EXCEPT !.pending = FALSE, !.acknowledged = TRUE, !.ack = TRUE]
        BY <2>1, <3>2 DEF Acknowledge
      <4>2. s \in State
        BY <1>0, <2>2
      <4> HIDE DEF s
      <4>3. states'[x] \in State /\ states'[x].active = s.active
        BY <4>1, <4>2 DEF State
      <4> QED
        BY <4>3, NilIsNoRecord DEF s
    <3> QED
      BY <3>1, <3>2
  <2>3. ASSUME NEW x \in Alerts \ refresh PROVE UpToDate(x)'
    BY <2>2, UpToDateKept DEF LeavesFollow
  <2> QED
    BY <2>3 DEF LeavesFollow
<1>2. CASE UNCHANGED states
  <2>1. ASSUME NEW x \in Alerts \ refresh PROVE UpToDate(x)'
    BY <1>2, UpToDateKept DEF LeavesFollow
  <2> QED
    BY <2>1 DEF LeavesFollow
<1>3. CASE states' = [states EXCEPT ![a] = incoming] /\ (definitions[a] = Nil \/ states[a] = Nil)
  <2>1. ASSUME NEW x \in Alerts \ refresh PROVE UpToDate(x)'
    <3>1. x # a => states'[x] = states[x]
      BY <1>0, <1>3
    <3>2. x = a => ~IsLeaf(definitions[x]) \/ states[x] = Nil
      BY <1>3 DEF IsLeaf
    <3> QED
      BY <3>1, <3>2, UpToDateKept DEF LeavesFollow
  <2> QED
    BY <2>1 DEF LeavesFollow
<1> QED
  BY <1>1, <1>2, <1>3 DEF StateArrives, ReconcileState, AdoptState, Republish, Ignore, Discard

\* Every step keeps the leaves up to date.
LEMMA LeavesStep == WorkInv /\ LeavesInv /\ [Next]_vars => LeavesInv'
<1> SUFFICES ASSUME WorkInv, LeavesInv, [Next]_vars PROVE LeavesInv'
  OBVIOUS
<1>0. Inv /\ Kept /\ Subjects /\ DefinitionsOK
  BY DEF WorkInv, Inv, Kept
<1>a. ASSUME UNCHANGED <<definitions, inputs, properties, refresh, states>>
      PROVE  LeavesFollow'
  <2>1. ASSUME NEW x \in Alerts \ refresh PROVE UpToDate(x)'
    BY <1>a, UpToDateKept DEF LeavesInv, LeavesFollow
  <2> QED
    BY <1>a, <2>1 DEF LeavesFollow
<1>b. UNCHANGED inputs => InputsTotal'
  BY DEF LeavesInv, InputsTotal
<1>c. UNCHANGED <<phase, definitions>> => NoneDefined'
  BY DEF LeavesInv, NoneDefined
<1>d. LeavesFollow /\ InputsTotal
  BY DEF LeavesInv
<1>1. CASE LoadConfig \/ \E a \in Alerts : HandleConfig(a)
  <2>1. Unlocked /\ UNCHANGED properties /\ NoneDefined'
    BY <1>0, <1>1, ConfigTaken DEF Inv, NoneDefined
  <2>2. AlertsSame => LeavesInv'
    BY <1>a, <1>b, <2>1 DEF AlertsSame, graph, handler, LeavesInv
  <2>3. ASSUME NEW a \in Alerts, NEW raw \in Config \cup {Garbage}, ReconcileConfig(a, raw)
        PROVE  LeavesInv'
    <3>1. InputsTotal' /\ LeavesFollow'
      BY <1>0, <2>1, <2>3, LeavesConfig
    <3> QED
      BY <2>1, <3>1 DEF LeavesInv
  <2> QED
    BY <1>0, <1>1, <2>2, <2>3, ConfigTaken DEF Inv, Offered
<1>3. CASE Crash
  <2>1. definitions' = [a \in Alerts |-> Nil] /\ inputs' = [a \in Alerts |-> NoInput]
    BY <1>3 DEF Crash
  <2> QED
    BY <2>1 DEF LeavesInv, InputsTotal, NoneDefined, LeavesFollow, UpToDate, IsLeaf
<1>4. CASE LoadStates \/ LoadProperties
  <2>1. \A a \in Alerts : definitions'[a] = Nil
    BY <1>4 DEF LoadStates, LoadProperties, LeavesInv, NoneDefined, graph
  <2>2. UNCHANGED inputs
    BY <1>4 DEF LoadStates, LoadProperties, graph
  <2> QED
    BY <1>b, <2>1, <2>2 DEF LeavesInv, NoneDefined, LeavesFollow, UpToDate, IsLeaf
<1>5. CASE BeginSweep \/ SubscribeGlobals
  <2>1. NoneDefined'
    BY <1>5 DEF BeginSweep, SubscribeGlobals, NoneDefined
  <2>2. UNCHANGED <<definitions, inputs, properties, refresh, states>>
    BY <1>5 DEF BeginSweep, SubscribeGlobals, graph, handler
  <2> QED
    BY <1>a, <1>b, <2>1, <2>2 DEF LeavesInv
<1>6. CASE EvaluateAncestor
  <2> DEFINE s == Head(queue)
  <2>1. s \in Alerts
    BY <1>0, <1>6 DEF EvaluateAncestor, Subjects
  <2>2. UNCHANGED <<definitions, inputs, properties, refresh, phase>>
    BY <1>6 DEF EvaluateAncestor, graph, loading
  <2>3. CASE UNCHANGED <<states, bus, episodes>>
    BY <1>a, <1>b, <1>c, <2>2, <2>3 DEF LeavesInv
  <2>4. CASE /\ definitions[s] # Nil
             /\ EvaluateDefinition(s, definitions[s], NoInput, states, properties,
                                   watched, inbox)
    <3> HIDE DEF s
    <3> QED
      BY <1>0, <1>b, <1>c, <1>d, <2>1, <2>2, <2>4, LeavesOverSummaries DEF LeavesInv
  <2> QED
    BY <1>6, <2>3, <2>4 DEF EvaluateAncestor
<1>7. ASSUME NEW p \in PropertyNames, HandleProperty(p) PROVE LeavesInv'
  <2>1. UNCHANGED <<phase, definitions, inputs, states>> /\ refresh = {}
    BY <1>7 DEF HandleProperty, loading, graph, Unlocked
  <2> SUFFICES ASSUME ReconcileProperty(p, Head(propertyQ[p])) PROVE LeavesInv'
    BY <1>7, <1>a, <1>b, <1>c, <2>1 DEF HandleProperty, LeavesInv
  <2>2. PICK raw : properties' = [properties EXCEPT ![p] = raw]
    BY DEF ReconcileProperty
  <2>3. refresh' = {a \in Alerts : /\ IsLeaf(definitions[a])
                                   /\ References(definitions[a], p)
                                   /\ inputs[a] # NoInput}
    BY DEF ReconcileProperty
  <2>4. ASSUME NEW a \in Alerts, a \notin refresh' PROVE UpToDate(a)'
    <3> SUFFICES ASSUME IsLeaf(definitions[a]), ~Unevaluable(definitions[a], inputs[a])
                 PROVE  /\ states[a] # Nil
                        /\ states[a].active <=> Calls(definitions[a], inputs[a], properties')
      BY <2>1 DEF UpToDate
    <3>1. DefinitionValid(definitions[a], a) /\ definitions[a] \in Config
      BY <1>0 DEF DefinitionsOK, IsLeaf, DefinitionValid
    <3>2. inputs[a] # NoInput
      BY <3>1, NothingToEvaluate
    <3>3. ~References(definitions[a], p)
      BY <2>3, <2>4, <3>2
    <3>4. Calls(definitions[a], inputs[a], properties')
            <=> Calls(definitions[a], inputs[a], properties)
      <4>1. \A q \in PropertyNames : q # p => properties'[q] = properties[q]
        BY <1>0, <2>2 DEF Kept, PropertiesOK
      <4>2. Evaluate(definitions[a], inputs[a], properties', <<>>)
              = Evaluate(definitions[a], inputs[a], properties, <<>>)
        BY <3>1, <3>3, <4>1, Unreferenced
      <4> QED
        BY <4>2 DEF Calls
    <3> QED
      BY <1>d, <2>1, <3>4 DEF LeavesFollow, UpToDate
  <2>5. LeavesFollow'
    BY <2>4 DEF LeavesFollow
  <2> QED
    BY <1>b, <1>c, <2>1, <2>5 DEF LeavesInv
<1>8. ASSUME NEW a \in Alerts, HandleInput(a) PROVE LeavesInv'
  <2>1. UNCHANGED <<phase, definitions, properties, refresh>> /\ refresh = {}
    BY <1>8 DEF HandleInput, AcceptInput, Ancestors, loading, Unlocked, handler
  <2>2. CASE IsLeaf(definitions[a])
    <3> DEFINE v == Head(inputQ[a])
    <3>1. /\ inputs' = [inputs EXCEPT ![a] = v]
          /\ EvaluateDefinition(a, definitions[a], v, states, properties, watched, inbox)
      BY <1>8, <2>2 DEF HandleInput, AcceptInput
    <3> HIDE DEF v
    <3>2. inputs' = [x \in Alerts |-> IF x = a THEN v ELSE inputs[x]]
      BY <1>d, <3>1 DEF InputsTotal
    <3>3. InputsTotal'
      BY <3>2 DEF InputsTotal
    <3>4. DefinitionValid(definitions[a], a) /\ ValidStates(states) /\ EpisodesOK
          /\ PropertiesOK
      BY <1>0, <2>2 DEF Kept, DefinitionsOK, IsLeaf, DefinitionValid
    <3>5. UpToDate(a)'
      BY <1>0, <2>1, <3>1, <3>2, <3>4, UpToDateEvaluated
    <3>6. \A x \in Alerts : x # a => states'[x] = states[x]
      BY <3>1, <3>4, EvaluateOthers
    <3>7. ASSUME NEW x \in Alerts, x # a PROVE UpToDate(x)'
      <4>1. UpToDate(x) /\ inputs'[x] = inputs[x] /\ states'[x] = states[x]
        BY <1>d, <2>1, <3>2, <3>6, <3>7 DEF LeavesFollow
      <4> QED
        BY <2>1, <4>1, UpToDateKept
    <3>8. LeavesFollow'
      BY <3>5, <3>7 DEF LeavesFollow
    <3> QED
      BY <1>c, <2>1, <3>3, <3>8 DEF LeavesInv
  <2>3. CASE ~IsLeaf(definitions[a])
    <3>1. UNCHANGED <<inputs, states>>
      BY <1>8, <2>3 DEF HandleInput, AcceptInput
    <3> QED
      BY <1>a, <1>b, <1>c, <2>1, <3>1 DEF LeavesInv
  <2> QED
    BY <2>2, <2>3
<1>9. ASSUME NEW a \in Alerts, HandleState(a) \/ HandleAdded(a) PROVE LeavesInv'
  <2>1. UNCHANGED <<phase, definitions, inputs, properties, refresh>>
    BY <1>9 DEF HandleState, HandleAdded, StateArrives, ReconcileState, AdoptState, AcknowledgeTree,
       Republish, Ignore, Discard, Ancestors, loading, graph, handler
  <2>2. PICK incoming, Q : Unlocked /\ StateArrives(a, incoming, Q)
    BY <1>9 DEF HandleState, HandleAdded
  <2> QED
    BY <1>0, <1>b, <1>c, <1>d, <2>1, <2>2, LeavesState DEF LeavesInv
<1>10. ASSUME NEW a \in Alerts, HandleCreated(a) PROVE LeavesInv'
  BY <1>10, <1>a, <1>b, <1>c DEF HandleCreated, loading, graph, handler, LeavesInv
<1>11. ASSUME NEW a \in Alerts, RefreshDefinition(a) PROVE LeavesInv'
  <2>1. UNCHANGED <<phase, definitions, inputs, properties>> /\ refresh' = refresh \ {a}
        /\ EvaluateDefinition(a, definitions[a], inputs[a], states, properties, watched, inbox)
        /\ a \in refresh
    BY <1>11 DEF RefreshDefinition, loading, graph
  <2>2. DefinitionValid(definitions[a], a) /\ ValidStates(states) /\ EpisodesOK
        /\ PropertiesOK
    BY <1>0, <2>1 DEF Kept, DefinitionsOK, DefinitionValid, Inv, LoopsOK, Defined
  <2>3. UpToDate(a)'
    BY <1>0, <2>1, <2>2, UpToDateEvaluated
  <2>4. \A x \in Alerts : x # a => states'[x] = states[x]
    BY <2>1, <2>2, EvaluateOthers
  <2>5. ASSUME NEW x \in Alerts \ refresh', x # a PROVE UpToDate(x)'
    <3>1. UpToDate(x) /\ states'[x] = states[x]
      BY <1>d, <2>1, <2>4, <2>5 DEF LeavesFollow
    <3> QED
      BY <2>1, <3>1, UpToDateKept
  <2>6. LeavesFollow'
    BY <2>3, <2>5 DEF LeavesFollow
  <2> QED
    BY <1>b, <1>c, <2>1, <2>6 DEF LeavesInv
<1>12. ASSUME NEW a \in Alerts, SweepSummary(a) PROVE LeavesInv'
  <2>1. UNCHANGED <<phase, definitions, inputs, properties, refresh>>
        /\ EvaluateDefinition(a, definitions[a], NoInput, states, properties, watched, inbox)
    BY <1>12 DEF SweepSummary, loading, graph
  <2>2. definitions[a] # Nil
    BY <1>0, <1>12 DEF SweepSummary, Inv, LoopsOK, Defined
  <2> QED
    BY <1>0, <1>b, <1>c, <1>d, <2>1, <2>2, LeavesOverSummaries DEF LeavesInv
<1>13. CASE Environment
  <2>1. UNCHANGED <<phase, definitions, inputs, properties, refresh, states>>
    BY <1>13 DEF Environment, PublishInput, PublishConfig, PublishForeign, WriteState,
       ReadAlert, AcknowledgeAlert, PublishProperty, loading, graph, handler
  <2> QED
    BY <1>a, <1>b, <1>c, <2>1 DEF LeavesInv
<1>14. CASE UNCHANGED vars
  BY <1>a, <1>b, <1>c, <1>14 DEF vars, loading, graph, handler, LeavesInv
<1> QED
  BY <1>1, <1>3, <1>4, <1>5, <1>6, <1>7, <1>8, <1>9, <1>10, <1>11, <1>12, <1>13,
     <1>14 DEF Next, Handlers

-----------------------------------------------------------------------------
(* The bus converges to the states of the service.                         *)

\* The inbox of a subject whose last message is kept, and its watch: what is
\* undelivered was written, and once the service runs every subject with a
\* message is watched or about to be.
Guarded(x, box, kept, W) ==
    /\ box.live # <<>> \/ box.added # Nil => kept # Nil
    /\ phase = "running" /\ kept # Nil => x \in W \/ box.added = Announcement

\* Message m, the last one of its subject, has still to be handled.
Undelivered(box, m) ==
    \/ box.live # <<>> /\ box.live[Len(box.live)] = m
    \/ box.added = Announcement
    \/ box.added = m

\* State s of alert x is on the bus, or a value that is no string, or a message
\* that will be answered with s is under way, or x is one of the alerts
\* BusConverges excepts.
Converges(x, s) ==
    \/ s = Nil \/ x \in dirty \/ x \in missed
    \/ s.pending /\ s.episode = 0
    \/ /\ retained[x] # Nil
       /\ retained[x].state \in {s, Mistyped} \/ Undelivered(inbox[x], retained[x])

GuardedAll == \A x \in Alerts : Guarded(x, inbox[x], retained[x], watched)
ConvergesAll == \A x \in Alerts : Converges(x, states[x])

\* A service that is down has no memory and no subscriptions.
DownForgets ==
    phase = "down" =>
        watched = {} /\ \A x \in Alerts : states[x] = Nil /\ inbox[x] = NoMessages

BusInv == GuardedAll /\ ConvergesAll /\ DownForgets

\* A written message reaches the watch, or is announced.
LEMMA GuardedWrite ==
  ASSUME NEW x \in Alerts, NEW W, NEW box \in Box, Guarded(x, box, retained[x], W),
         NEW m \in Messages
  PROVE  Guarded(x, Delivered(x, m, box, W), m, W)
<1>1. m # Nil
  BY MessageAssumption
<1> QED
  BY <1>1 DEF Guarded, Delivered

\* publishStateLocked: what is published is on the bus or dirty.
LEMMA PublishConverges ==
  ASSUME BusOK, NEW P, NEW st, \A x \in P \cap Alerts : st[x] \in State, NEW W,
         NEW Q \in [Alerts -> Box],
         \A x \in Alerts : Guarded(x, Q[x], retained[x], W),
         Publish(P, st, W, Q), watched' = W, UNCHANGED phase,
         NEW x \in Alerts
  PROVE  /\ Guarded(x, inbox[x], retained[x], watched)'
         /\ x \in P => Converges(x, st[x])'
         /\ x \notin P => /\ retained'[x] = retained[x] /\ inbox'[x] = Q[x]
                          /\ x \in dirty => x \in dirty'
                          /\ x \in missed => x \in missed'
<1>1. PICK F \in SUBSET P : PublishSome(P, F, st, W, Q)
  BY DEF Publish
<1> DEFINE m == Message(st[x], "service")
<1>2. CASE x \in P \ F
  <2>1. m \in Messages /\ m.state = st[x]
    BY <1>2 DEF Message, Messages
  <2>2. retained'[x] = m /\ inbox'[x] = Delivered(x, m, Q[x], W)
    BY <1>1, <1>2 DEF PublishSome
  <2> HIDE DEF m
  <2>3. Guarded(x, Delivered(x, m, Q[x], W), m, W)
    BY <2>1, GuardedWrite
  <2>4. Guarded(x, inbox[x], retained[x], watched)'
    BY <2>2, <2>3 DEF Guarded
  <2>5. m # Nil
    BY <2>1, MessageAssumption
  <2>6. Converges(x, st[x])'
    BY <2>1, <2>2, <2>5 DEF Converges
  <2> QED
    BY <1>2, <2>4, <2>6
<1>3. CASE x \in F
  <2>1. retained'[x] = retained[x] /\ inbox'[x] = Q[x] /\ x \in dirty'
    BY <1>1, <1>3 DEF PublishSome
  <2>2. Guarded(x, inbox[x], retained[x], watched)'
    BY <2>1 DEF Guarded
  <2>3. Converges(x, st[x])'
    BY <2>1 DEF Converges
  <2> QED
    BY <1>3, <2>2, <2>3
<1>4. CASE x \notin P
  <2>1. /\ retained'[x] = retained[x] /\ inbox'[x] = Q[x]
        /\ x \in dirty => x \in dirty'
        /\ x \in missed => x \in missed'
    BY <1>1, <1>4 DEF PublishSome
  <2>2. Guarded(x, inbox[x], retained[x], watched)'
    BY <2>1 DEF Guarded
  <2> QED
    BY <1>4, <2>1, <2>2
<1> QED
  BY <1>2, <1>3, <1>4

\* What a step leaves alone goes on converging.
LEMMA ConvergesKept ==
  ASSUME NEW x \in Alerts, NEW s, Converges(x, s), retained'[x] = retained[x],
         inbox'[x] = inbox[x], x \in dirty => x \in dirty', x \in missed => x \in missed'
  PROVE  Converges(x, s)'
  BY DEF Converges

\* applyLocked, on top of states that converge.
LEMMA ApplyConverges ==
  ASSUME BusOK, EpisodesOK, NEW a \in Alerts, NEW e \in Evaluation,
         NEW base, ValidStates(base), \A x \in Alerts : Converges(x, base[x]),
         NEW W, \A x \in Alerts : Guarded(x, inbox[x], retained[x], W),
         Apply(a, e, base, W, inbox), watched' = W, UNCHANGED phase
  PROVE  GuardedAll' /\ ConvergesAll'
<1> DEFINE next == ApplyEvaluation(base[a], e, episodes[a] + 1)
           st == [base EXCEPT ![a] = next]
           P == Unpublished(a, next, base)
<1>0. base \in [Alerts -> State \cup {Nil}] /\ inbox \in [Alerts -> Box]
  BY DEF ValidStates, BusOK
<1>1. CASE next = Nil
  <2>1. states' = base /\ UNCHANGED <<inbox, retained, dirty, missed>>
    BY <1>1 DEF Apply
  <2>2. ASSUME NEW x \in Alerts
        PROVE  Guarded(x, inbox[x], retained[x], watched)' /\ Converges(x, states[x])'
    <3>1. Converges(x, base[x])'
      BY <2>1, ConvergesKept
    <3>2. Guarded(x, inbox[x], retained[x], W)
      OBVIOUS
    <3> QED
      BY <2>1, <3>1, <3>2 DEF Guarded
  <2> QED
    BY <2>2 DEF GuardedAll, ConvergesAll
<1>2. CASE next # Nil
  <2>0. PICK post : post = st
    OBVIOUS
  <2>1. states' = post /\ Publish(P, post, W, inbox)
    BY <1>2, <2>0 DEF Apply
  <2>2. next \in State
    <3>1. base[a] \in State \cup {Nil} /\ episodes[a] + 1 \in Nat
      BY <1>0 DEF EpisodesOK
    <3> QED
      BY <1>2, <3>1, ApplyEvaluationValid, Zenon
  <2>3. P \in SUBSET {a} /\ (a \notin P => next = base[a])
    BY DEF Unpublished
  <2> HIDE DEF next, P
  <2>4. post[a] = next /\ \A x \in Alerts : x # a => post[x] = base[x]
    BY <1>0, <2>0
  <2>5. \A x \in P \cap Alerts : post[x] \in State
    BY <2>2, <2>3, <2>4
  <2>6. ASSUME NEW x \in Alerts
        PROVE  Guarded(x, inbox[x], retained[x], watched)' /\ Converges(x, states[x])'
    <3>1. /\ Guarded(x, inbox[x], retained[x], watched)'
          /\ x \in P => Converges(x, post[x])'
          /\ x \notin P => /\ retained'[x] = retained[x] /\ inbox'[x] = inbox[x]
                           /\ x \in dirty => x \in dirty'
                           /\ x \in missed => x \in missed'
      BY <1>0, <2>1, <2>5, PublishConverges
    <3>2. x \notin P => Converges(x, post[x])'
      <4> SUFFICES ASSUME x \notin P PROVE Converges(x, post[x])'
        OBVIOUS
      <4>1. post[x] = base[x]
        BY <2>3, <2>4
      <4>2. Converges(x, base[x])'
        BY <3>1, ConvergesKept
      <4> QED
        BY <4>1, <4>2
    <3> QED
      BY <2>1, <3>1, <3>2
  <2> QED
    BY <2>6 DEF GuardedAll, ConvergesAll
<1> QED
  BY <1>1, <1>2

\* evaluateDefinitionLocked.
LEMMA EvaluateConverges ==
  ASSUME BusOK, EpisodesOK, PropertiesOK, NEW a \in Alerts, NEW c, DefinitionValid(c, a),
         NEW input, NEW base, ValidStates(base), \A x \in Alerts : Converges(x, base[x]),
         NEW W, \A x \in Alerts : Guarded(x, inbox[x], retained[x], W),
         EvaluateDefinition(a, c, input, base, properties, W, inbox), watched' = W,
         UNCHANGED phase
  PROVE  GuardedAll' /\ ConvergesAll'
<1>1. CASE Unevaluable(c, input)
  <2>1. states' = base /\ UNCHANGED <<inbox, retained, dirty, missed>>
    BY <1>1 DEF EvaluateDefinition
  <2>2. ASSUME NEW x \in Alerts
        PROVE  Guarded(x, inbox[x], retained[x], watched)' /\ Converges(x, states[x])'
    <3>1. Converges(x, base[x])'
      BY <2>1, ConvergesKept
    <3>2. Guarded(x, inbox[x], retained[x], W)
      OBVIOUS
    <3> QED
      BY <2>1, <3>1, <3>2 DEF Guarded
  <2> QED
    BY <2>2 DEF GuardedAll, ConvergesAll
<1>2. CASE ~Unevaluable(c, input)
  <2> DEFINE e == Evaluate(c, input, properties, base)
             f == IF e = Nil THEN Inactive ELSE e
  <2>1. Apply(a, f, base, W, inbox)
    BY <1>2 DEF EvaluateDefinition
  <2>2. f \in Evaluation
    <3>1. SaneResult(e)
      BY EvaluateSane DEF ValidStates, PropertiesOK
    <3> QED
      BY <3>1, InactiveSane DEF SaneResult
  <2> HIDE DEF f
  <2> QED
    BY <2>1, <2>2, ApplyConverges
<1> QED
  BY <1>1, <1>2

\* A watch more does no harm.
LEMMA GuardedMore ==
  ASSUME GuardedAll, NEW W, watched \subseteq W, NEW x \in Alerts
  PROVE  Guarded(x, inbox[x], retained[x], W)
  BY DEF GuardedAll, Guarded

\* reconcileConfigLocked.
LEMMA ConfigConverges ==
  ASSUME Kept, GuardedAll, ConvergesAll, NEW a \in Alerts,
         NEW raw \in Config \cup {Garbage}, ReconcileConfig(a, raw), UNCHANGED phase
  PROVE  GuardedAll' /\ ConvergesAll'
<1>0. BusOK /\ EpisodesOK /\ PropertiesOK /\ ValidStates(states)
      /\ \A x \in Alerts : Converges(x, states[x])
  BY DEF Kept, ConvergesAll
<1>1. PICK W : W = watched' /\ watched \subseteq W
  BY DEF ReconcileConfig, RejectConfig, AcceptSummary, AcceptLeaf
<1>2. \A x \in Alerts : Guarded(x, inbox[x], retained[x], W)
  BY <1>1, GuardedMore
<1>3. CASE RejectConfig(a, raw)
  <2>1. Apply(a, Inactive, states, W, inbox)
    BY <1>1, <1>3 DEF RejectConfig
  <2> QED
    BY <1>0, <1>1, <1>2, <2>1, ApplyConverges, InactiveSane
<1>4. ASSUME Accepted(raw, a) PROVE DefinitionValid(raw, a)
  BY <1>4 DEF Accepted, Enabled, DefinitionValid
<1>5. CASE AcceptSummary(a, raw)
  <2>0. PICK F : EvaluateDefinition(a, raw, NoInput, CaughtUp(raw, F), properties, W, inbox)
    BY <1>1, <1>5 DEF AcceptSummary
  <2> DEFINE base == CaughtUp(raw, F)
  <2>1. EvaluateDefinition(a, raw, NoInput, base, properties, W, inbox)
        /\ DefinitionValid(raw, a)
    BY <1>4, <1>5, <2>0 DEF AcceptSummary
  <2>2. ValidStates(base)
    BY CaughtUpValid
  <2>3. ASSUME NEW x \in Alerts PROVE Converges(x, base[x])
    <3>1. base[x] = states[x] \/ (retained[x] # Nil /\ base[x] = retained[x].state)
      BY DEF CaughtUp
    <3> HIDE DEF base
    <3>2. CASE base[x] = states[x]
      BY <1>0, <3>2
    <3>3. CASE retained[x] # Nil /\ base[x] = retained[x].state
      BY <3>3 DEF Converges
    <3> QED
      BY <3>1, <3>2, <3>3
  <2> HIDE DEF base
  <2> QED
    BY <1>0, <1>1, <1>2, <2>1, <2>2, <2>3, EvaluateConverges
<1>6. CASE AcceptLeaf(a, raw)
  <2>1. PICK input : /\ EvaluateDefinition(a, raw, input, states, properties, W, inbox)
                     /\ DefinitionValid(raw, a)
    BY <1>1, <1>4, <1>6 DEF AcceptLeaf
  <2> QED
    BY <1>0, <1>1, <1>2, <2>1, EvaluateConverges
<1> QED
  BY <1>3, <1>5, <1>6 DEF ReconcileConfig

\* reconcileStateLocked: message m of subject a is taken out of the inbox.
LEMMA StateConverges ==
  ASSUME Kept, GuardedAll, ConvergesAll, NEW a \in Alerts, retained[a] # Nil, NEW m,
         NEW Q \in [Alerts -> Box], \A x \in Alerts : x # a => Q[x] = inbox[x],
         \A x \in Alerts : Guarded(x, Q[x], retained[x], watched),
         Undelivered(inbox[a], retained[a]) =>
            Undelivered(Q[a], retained[a]) \/ m = retained[a],
         StateArrives(a, m.state, Q), UNCHANGED <<watched, phase>>
  PROVE  GuardedAll' /\ ConvergesAll'
<1>0. BusOK /\ states \in [Alerts -> State \cup {Nil}]
      /\ \A x \in Alerts : states[x] # Nil => Validate(states[x])
  BY DEF Kept, ValidStates
<1>1. CASE AcknowledgeTree(a, Q) /\ Acknowledges(m.state, states[a]) /\ states[a] # Nil
  <2> DEFINE done == {x \in AckTree(a) : states[x] # Nil /\ Acknowledgeable(states[x])}
  <2>1. PICK post : /\ post = [x \in Alerts |-> IF x \in done THEN Acknowledge(states[x])
                                                              ELSE states[x]]
                    /\ states' = post /\ Publish(done, post, watched, Q)
    BY <1>1 DEF AcknowledgeTree
  <2>2. \A x \in done \cap Alerts : post[x] \in State
    BY <1>0, <2>1, AcknowledgeValid
  <2>3. a \in AckTree(a)
    BY DEF AckTree
  <2>4. a \notin done => states[a].pending /\ states[a].episode = 0
    BY <1>0, <1>1, <2>3 DEF Acknowledges, Acknowledgeable
  <2>5. ASSUME NEW x \in Alerts
        PROVE  Guarded(x, inbox[x], retained[x], watched)' /\ Converges(x, states[x])'
    <3> HIDE DEF done
    <3>1. /\ Guarded(x, inbox[x], retained[x], watched)'
          /\ x \in done => Converges(x, post[x])'
          /\ x \notin done => /\ retained'[x] = retained[x] /\ inbox'[x] = Q[x]
                              /\ x \in dirty => x \in dirty'
                              /\ x \in missed => x \in missed'
      BY <1>0, <2>1, <2>2, PublishConverges
    <3>2. x \notin done => post[x] = states[x]
      BY <2>1
    <3>3. CASE x \in done
      BY <2>1, <3>1, <3>3
    <3>4. CASE x \notin done /\ x = a
      <4>1. states'[x].pending /\ states'[x].episode = 0
        BY <2>1, <2>4, <3>2, <3>4
      <4> QED
        BY <3>1, <4>1 DEF Converges
    <3>5. CASE x \notin done /\ x # a
      <4>1. states'[x] = states[x] /\ Converges(x, states[x])
        BY <2>1, <3>2, <3>5 DEF ConvergesAll
      <4> QED
        BY <3>1, <3>5, <4>1 DEF Converges
    <3> QED
      BY <3>3, <3>4, <3>5
  <2> QED
    BY <2>5 DEF GuardedAll, ConvergesAll
<1>2. CASE Republish(a, Q) /\ states[a] # Nil
  <2>1. PICK post : post = states /\ states' = post /\ Publish({a}, post, watched, Q)
    BY <1>2 DEF Republish
  <2>2. \A x \in {a} \cap Alerts : post[x] \in State
    BY <1>0, <1>2, <2>1
  <2>3. ASSUME NEW x \in Alerts
        PROVE  Guarded(x, inbox[x], retained[x], watched)' /\ Converges(x, states[x])'
    <3>1. /\ Guarded(x, inbox[x], retained[x], watched)'
          /\ x \in {a} => Converges(x, post[x])'
          /\ x \notin {a} => /\ retained'[x] = retained[x] /\ inbox'[x] = Q[x]
                             /\ x \in dirty => x \in dirty'
                             /\ x \in missed => x \in missed'
      BY <1>0, <2>1, <2>2, PublishConverges
    <3>2. CASE x = a
      BY <2>1, <3>1, <3>2
    <3>3. CASE x # a
      <4>1. states'[x] = states[x] /\ Converges(x, states[x])
        BY <2>1 DEF ConvergesAll
      <4> QED
        BY <3>1, <3>3, <4>1 DEF Converges
    <3> QED
      BY <3>2, <3>3
  <2> QED
    BY <2>3 DEF GuardedAll, ConvergesAll
<1>3. ASSUME inbox' = Q, UNCHANGED retained,
             \A x \in Alerts : x # a => states'[x] = states[x],
             \A x \in Alerts : /\ x \in dirty => x \in dirty'
                               /\ x # a /\ x \in missed => x \in missed',
             Converges(a, states[a])'
      PROVE  GuardedAll' /\ ConvergesAll'
  <2>1. ASSUME NEW x \in Alerts
        PROVE  Guarded(x, inbox[x], retained[x], watched)' /\ Converges(x, states[x])'
    <3>1. Guarded(x, inbox[x], retained[x], watched)'
      BY <1>3 DEF Guarded
    <3>2. CASE x = a
      BY <1>3, <3>1, <3>2
    <3>3. CASE x # a
      BY <1>3, <3>1, <3>3 DEF ConvergesAll, Converges
    <3> QED
      BY <3>2, <3>3
  <2> QED
    BY <2>1 DEF GuardedAll, ConvergesAll
<1>4. CASE Ignore(Q) /\ m.state \in {states[a], Mistyped}
  <2>1. inbox' = Q /\ UNCHANGED <<states, retained, dirty, missed>>
    BY <1>4 DEF Ignore
  <2>2. Converges(a, states[a])'
    BY <1>4, <2>1 DEF ConvergesAll, Converges
  <2> QED
    BY <1>3, <2>1, <2>2
<1>5. CASE Discard(a, Q)
  <2>1. inbox' = Q /\ UNCHANGED <<states, retained, dirty>> /\ missed' = missed \cup {a}
    BY <1>5 DEF Discard
  <2>2. Converges(a, states[a])'
    BY <2>1 DEF Converges
  <2> QED
    BY <1>3, <2>1, <2>2
<1>6. CASE AdoptState(a, m.state, Q) /\ Usable(m.state)
  <2>1. /\ inbox' = Q /\ UNCHANGED <<retained, dirty>>
        /\ states' = [states EXCEPT ![a] = m.state]
        /\ missed' = IF retained[a].state = m.state THEN missed \ {a} ELSE missed \cup {a}
    BY <1>6 DEF AdoptState
  <2>2. states'[a] = m.state /\ \A x \in Alerts : x # a => states'[x] = states[x]
    BY <1>0, <2>1
  <2>3. Converges(a, states[a])'
    BY <2>1, <2>2 DEF Converges
  <2> QED
    BY <1>3, <2>1, <2>2, <2>3
<1> QED
  BY <1>1, <1>2, <1>4, <1>5, <1>6 DEF StateArrives, ReconcileState, AdoptState

\* Taking the first message away leaves the last one, or it was the only one.
LEMMA LastOfTail ==
  ASSUME NEW S, NEW s \in Seq(S), s # <<>>
  PROVE  \/ Tail(s) = <<>> /\ Len(s) = 1 /\ Head(s) = s[Len(s)]
         \/ Tail(s) # <<>> /\ Tail(s)[Len(Tail(s))] = s[Len(s)]
<1>1. PICK n \in Nat : n = Len(s) /\ n # 0
  OBVIOUS
<1>2. Len(Tail(s)) = n - 1 /\ Tail(s) \in Seq(S) /\ Head(s) = s[1]
      /\ \A i \in 1..(n - 1) : Tail(s)[i] = s[i + 1]
  BY <1>1
<1>3. CASE n = 1
  <2>1. Len(Tail(s)) = 0
    BY <1>2, <1>3
  <2>2. Tail(s) = <<>>
    <3>1. ASSUME NEW t \in Seq(S), Len(t) = 0 PROVE t = <<>>
      BY <3>1
    <3> QED
      BY <1>2, <2>1, <3>1
  <2> QED
    BY <1>1, <1>2, <1>3, <2>2
<1>4. CASE n # 1
  <2>1. n - 1 \in 1..(n - 1) /\ (n - 1) + 1 = n /\ n - 1 # 0
    BY <1>1, <1>4
  <2>2. Tail(s)[n - 1] = s[n]
    BY <1>2, <2>1
  <2>3. Tail(s) # <<>>
    BY <1>2, <2>1
  <2> QED
    BY <1>1, <1>2, <2>2, <2>3
<1> QED
  BY <1>3, <1>4

\* The inbox without the first live message of a subject.
LEMMA TakeLive ==
  ASSUME BusOK, GuardedAll, NEW a \in Alerts, inbox[a].live # <<>>, NEW Q,
         Q = [inbox EXCEPT ![a].live = Tail(@)]
  PROVE  /\ retained[a] # Nil /\ Q \in [Alerts -> Box]
         /\ \A x \in Alerts : x # a => Q[x] = inbox[x]
         /\ \A x \in Alerts : Guarded(x, Q[x], retained[x], watched)
         /\ Undelivered(inbox[a], retained[a]) =>
                Undelivered(Q[a], retained[a]) \/ Head(inbox[a].live) = retained[a]
<1> DEFINE box == inbox[a]
<1>0. inbox \in [Alerts -> Box] /\ box \in Box
  BY DEF BusOK
<1>1. box.live \in Seq(Messages) /\ box.live # <<>>
  BY <1>0 DEF Box
<1>2. Tail(box.live) \in Seq(Messages)
  BY <1>1
<1>3. Q[a].live = Tail(box.live) /\ Q[a].added = box.added
      /\ \A x \in Alerts : x # a => Q[x] = inbox[x]
  BY <1>0 DEF Box
<1>4. Q \in [Alerts -> Box]
  BY <1>0, <1>2 DEF Box
<1>5. Guarded(a, box, retained[a], watched)
  BY DEF GuardedAll
<1>6. ASSUME NEW x \in Alerts PROVE Guarded(x, Q[x], retained[x], watched)
  <2>1. CASE x = a
    <3> HIDE DEF box
    <3> QED
      BY <1>1, <1>3, <1>5, <2>1 DEF Guarded
  <2>2. CASE x # a
    BY <1>3, <2>2 DEF GuardedAll
  <2> QED
    BY <2>1, <2>2
<1>7. Undelivered(box, retained[a]) =>
        Undelivered(Q[a], retained[a]) \/ Head(box.live) = retained[a]
  <2>0. PICK live \in Seq(Messages) : live = box.live /\ live # <<>>
    BY <1>1
  <2>1. \/ Tail(live) = <<>> /\ Len(live) = 1 /\ Head(live) = live[Len(live)]
        \/ Tail(live) # <<>> /\ Tail(live)[Len(Tail(live))] = live[Len(live)]
    BY <2>0, LastOfTail
  <2> HIDE DEF box
  <2> QED
    BY <1>3, <2>0, <2>1 DEF Undelivered
<1> QED
  BY <1>1, <1>3, <1>4, <1>5, <1>6, <1>7 DEF Guarded

\* The inbox without the value Add has read.
LEMMA TakeAdded ==
  ASSUME BusOK, GuardedAll, NEW a \in Alerts, inbox[a].added \notin {Nil, Announcement},
         NEW Q, Q = [inbox EXCEPT ![a].added = Nil]
  PROVE  /\ retained[a] # Nil /\ Q \in [Alerts -> Box]
         /\ \A x \in Alerts : x # a => Q[x] = inbox[x]
         /\ \A x \in Alerts : Guarded(x, Q[x], retained[x], watched)
         /\ Undelivered(inbox[a], retained[a]) =>
                Undelivered(Q[a], retained[a]) \/ inbox[a].added = retained[a]
<1> DEFINE box == inbox[a]
<1>0. inbox \in [Alerts -> Box] /\ box \in Box
  BY DEF BusOK
<1>1. Q[a].live = box.live /\ Q[a].added = Nil
      /\ \A x \in Alerts : x # a => Q[x] = inbox[x]
  BY <1>0 DEF Box
<1>2. Q \in [Alerts -> Box]
  BY <1>0 DEF Box
<1>3. Guarded(a, box, retained[a], watched)
  BY DEF GuardedAll
<1> HIDE DEF box
<1>4. ASSUME NEW x \in Alerts PROVE Guarded(x, Q[x], retained[x], watched)
  <2>1. CASE x = a
    BY <1>1, <1>3, <2>1 DEF Guarded, box
  <2>2. CASE x # a
    BY <1>1, <2>2 DEF GuardedAll
  <2> QED
    BY <2>1, <2>2
<1>5. Undelivered(box, retained[a]) =>
        Undelivered(Q[a], retained[a]) \/ box.added = retained[a]
  BY <1>1 DEF Undelivered, box
<1>6. retained[a] # Nil
  BY <1>3 DEF Guarded, box
<1> QED
  BY <1>1, <1>2, <1>4, <1>5, <1>6 DEF box

\* A state message, or an announcement, is handled.
LEMMA MessageConverges ==
  ASSUME Kept, GuardedAll, ConvergesAll, NEW a \in Alerts,
         HandleState(a) \/ HandleAdded(a) \/ HandleCreated(a)
  PROVE  GuardedAll' /\ ConvergesAll'
<1>0. BusOK
  BY DEF Kept
<1>1. CASE HandleState(a)
  <2>1. PICK m, Q : /\ m = Head(inbox[a].live) /\ Q = [inbox EXCEPT ![a].live = Tail(@)]
                    /\ StateArrives(a, m.state, Q)
    BY <1>1 DEF HandleState
  <2>2. UNCHANGED <<watched, phase>> /\ inbox[a].live # <<>>
    BY <1>1 DEF HandleState, loading
  <2>3. /\ retained[a] # Nil /\ Q \in [Alerts -> Box]
        /\ \A x \in Alerts : x # a => Q[x] = inbox[x]
        /\ \A x \in Alerts : Guarded(x, Q[x], retained[x], watched)
        /\ Undelivered(inbox[a], retained[a]) =>
                Undelivered(Q[a], retained[a]) \/ m = retained[a]
    BY <1>0, <2>1, <2>2, TakeLive
  <2> QED
    BY <2>1, <2>2, <2>3, StateConverges
<1>2. CASE HandleAdded(a)
  <2>1. PICK m, Q : /\ m = inbox[a].added /\ Q = [inbox EXCEPT ![a].added = Nil]
                    /\ StateArrives(a, m.state, Q)
    BY <1>2 DEF HandleAdded
  <2>2. UNCHANGED <<watched, phase>> /\ inbox[a].added \notin {Nil, Announcement}
    BY <1>2 DEF HandleAdded, loading
  <2>3. /\ retained[a] # Nil /\ Q \in [Alerts -> Box]
        /\ \A x \in Alerts : x # a => Q[x] = inbox[x]
        /\ \A x \in Alerts : Guarded(x, Q[x], retained[x], watched)
        /\ Undelivered(inbox[a], retained[a]) =>
                Undelivered(Q[a], retained[a]) \/ m = retained[a]
    BY <1>0, <2>1, <2>2, TakeAdded
  <2> QED
    BY <2>1, <2>2, <2>3, StateConverges
<1>3. CASE HandleCreated(a)
  <2>1. /\ inbox[a].added = Announcement /\ watched' = watched \cup {a}
        /\ inbox' = [inbox EXCEPT ![a].added = retained[a]]
        /\ UNCHANGED <<phase, states, retained, dirty, missed>>
    BY <1>3 DEF HandleCreated, loading
  <2>2. inbox'[a].live = inbox[a].live /\ inbox'[a].added = retained[a]
        /\ \A x \in Alerts : x # a => inbox'[x] = inbox[x]
    BY <1>0, <2>1 DEF BusOK, Box
  <2>3. ASSUME NEW x \in Alerts
        PROVE  Guarded(x, inbox[x], retained[x], watched)' /\ Converges(x, states[x])'
    <3>1. Guarded(x, inbox[x], retained[x], watched) /\ Converges(x, states[x])
      BY DEF GuardedAll, ConvergesAll
    <3>2. CASE x = a
      <4>1. retained[a] # Nil
        BY <2>1, <3>1, <3>2, MessageAssumption DEF Guarded
      <4>2. Guarded(x, inbox[x], retained[x], watched)'
        BY <2>1, <3>2, <4>1 DEF Guarded
      <4>3. Converges(x, states[x])'
        BY <2>1, <2>2, <3>1, <3>2, <4>1 DEF Converges, Undelivered
      <4> QED
        BY <4>2, <4>3
    <3>3. CASE x # a
      BY <2>1, <2>2, <3>1, <3>3 DEF Guarded, Converges
    <3> QED
      BY <3>2, <3>3
  <2> QED
    BY <2>3 DEF GuardedAll, ConvergesAll
<1> QED
  BY <1>1, <1>2, <1>3

\* Somebody else writes a state: it is delivered, announced, or missed.
LEMMA WriteConverges ==
  ASSUME Kept, BusInv, FeedsOK, NEW a \in Alerts, NEW payload \in State \cup {Garbage, Mistyped},
         NEW by \in {"operator", "other"}, WriteState(a, payload, by)
  PROVE  BusInv'
<1>0. BusOK /\ GuardedAll /\ ConvergesAll /\ DownForgets
  BY DEF Kept, BusInv
<1>1. PICK m \in Messages : m = Message(payload, by)
  BY DEF Message, Messages
<1>2. /\ retained' = [retained EXCEPT ![a] = m]
      /\ inbox' = [inbox EXCEPT ![a] = Delivered(a, m, inbox[a], watched)]
      /\ missed' = IF a \in watched \/ phase \in {"down", "running"}
                   THEN missed ELSE missed \cup {a}
      /\ UNCHANGED <<phase, states, watched, dirty>>
  BY <1>1 DEF WriteState, loading
<1>3. /\ retained'[a] = m /\ inbox'[a] = Delivered(a, m, inbox[a], watched)
      /\ \A x \in Alerts : x # a => retained'[x] = retained[x] /\ inbox'[x] = inbox[x]
  BY <1>0, <1>2 DEF BusOK
<1>4. m # Nil
  BY MessageAssumption
<1>5. Guarded(a, inbox[a], retained[a], watched)
  BY <1>0 DEF GuardedAll
<1>6. Guarded(a, inbox[a], retained[a], watched)'
  <2>1. Guarded(a, Delivered(a, m, inbox[a], watched), m, watched)
    BY <1>0, <1>5, GuardedWrite DEF BusOK
  <2> QED
    BY <1>2, <1>3, <2>1 DEF Guarded
<1>7. Converges(a, states[a])'
  <2>1. CASE a \in watched
    <3>1. inbox[a].live \in Seq(Messages)
      BY <1>0 DEF BusOK, Box
    <3>2. inbox'[a].live = Append(inbox[a].live, m)
      BY <1>3, <2>1 DEF Delivered
    <3>3. inbox'[a].live # <<>> /\ inbox'[a].live[Len(inbox'[a].live)] = m
      BY <3>1, <3>2
    <3> QED
      BY <1>3, <1>4, <3>3 DEF Converges, Undelivered
  <2>2. CASE a \notin watched /\ phase = "down"
    BY <1>0, <1>2, <2>2 DEF DownForgets, Converges
  <2>3. CASE a \notin watched /\ phase = "running"
    <3>1. inbox'[a].added = Announcement
      BY <1>3, <1>5, <2>3 DEF Guarded, Delivered
    <3> QED
      BY <1>3, <1>4, <3>1 DEF Converges, Undelivered
  <2>4. CASE a \notin watched /\ phase \notin {"down", "running"}
    BY <1>2, <2>4 DEF Converges
  <2> QED
    BY <2>1, <2>2, <2>3, <2>4
<1>8. ASSUME NEW x \in Alerts, x # a
      PROVE  Guarded(x, inbox[x], retained[x], watched)' /\ Converges(x, states[x])'
  BY <1>0, <1>2, <1>3, <1>8 DEF GuardedAll, ConvergesAll, Guarded, Converges
<1>9. DownForgets'
  <2> SUFFICES ASSUME phase = "down" PROVE inbox'[a] = NoMessages
    BY <1>0, <1>2, <1>3 DEF DownForgets
  <2>1. watched = {} /\ inbox[a] = NoMessages
    BY <1>0 DEF DownForgets
  <2> QED
    BY <1>3, <2>1 DEF Delivered, NoMessages
<1> QED
  BY <1>6, <1>7, <1>8, <1>9 DEF BusInv, GuardedAll, ConvergesAll

\* Every step keeps the bus converging.
LEMMA ConvergesStep == WorkInv /\ NoneDefined /\ BusInv /\ [Next]_vars => BusInv'
<1> SUFFICES ASSUME WorkInv, NoneDefined, BusInv, [Next]_vars PROVE BusInv'
  OBVIOUS
<1>0. /\ Inv /\ Kept /\ FeedsOK /\ Subjects /\ DefinitionsOK /\ BusOK
      /\ EpisodesOK /\ PropertiesOK /\ ValidStates(states)
      /\ GuardedAll /\ ConvergesAll /\ DownForgets
  BY DEF WorkInv, Inv, Kept, BusInv
<1>a. ASSUME UNCHANGED <<phase, states, retained, inbox, dirty, missed, watched>>
      PROVE  BusInv'
  BY <1>0, <1>a DEF BusInv, GuardedAll, ConvergesAll, DownForgets, Guarded, Converges
<1>b. ASSUME GuardedAll', ConvergesAll', phase' # "down" PROVE BusInv'
  BY <1>b DEF BusInv, DownForgets
<1>c. ASSUME NEW a \in Alerts, definitions[a] # Nil, NEW input,
             EvaluateDefinition(a, definitions[a], input, states, properties, watched, inbox),
             UNCHANGED <<watched, phase>>
      PROVE  BusInv'
  <2>1. DefinitionValid(definitions[a], a)
    BY <1>0, <1>c DEF DefinitionsOK, DefinitionValid
  <2>2. /\ \A x \in Alerts : Guarded(x, inbox[x], retained[x], watched)
        /\ \A x \in Alerts : Converges(x, states[x])
    BY <1>0 DEF GuardedAll, ConvergesAll
  <2>3. GuardedAll' /\ ConvergesAll'
    BY <1>0, <1>c, <2>1, <2>2, EvaluateConverges
  <2>4. phase' # "down"
    BY <1>c DEF NoneDefined
  <2> QED
    BY <1>b, <2>3, <2>4
<1>1. CASE LoadConfig \/ \E a \in Alerts : HandleConfig(a)
  <2>1. UNCHANGED phase /\ phase # "down"
    BY <1>0, <1>1, ConfigTaken
  <2>2. AlertsSame => BusInv'
    BY <1>a, <2>1 DEF AlertsSame, bus
  <2>3. ASSUME NEW a \in Alerts, NEW raw \in Config \cup {Garbage}, ReconcileConfig(a, raw)
        PROVE  BusInv'
    BY <1>0, <1>b, <2>1, <2>3, ConfigConverges
  <2> QED
    BY <1>0, <1>1, <2>2, <2>3, ConfigTaken DEF Offered
<1>3. CASE Crash
  <2>1. /\ states' = [x \in Alerts |-> Nil] /\ watched' = {} /\ phase' = "down"
        /\ inbox' = [x \in Alerts |-> NoMessages]
    BY <1>3 DEF Crash
  <2> QED
    BY <2>1 DEF BusInv, GuardedAll, ConvergesAll, DownForgets, Guarded, Converges, NoMessages
<1>4. CASE LoadStates
  <2>1. /\ phase' = "properties" /\ phase = "down"
        /\ UNCHANGED <<retained, inbox, dirty, missed, watched>>
        /\ \E F : states' = [x \in Alerts |->
                IF x \notin F /\ retained[x] # Nil /\ Usable(retained[x].state)
                THEN retained[x].state ELSE Nil]
    BY <1>4 DEF LoadStates, bus
  <2>2. GuardedAll'
    BY <1>0, <2>1 DEF GuardedAll, Guarded
  <2>3. ConvergesAll'
    BY <2>1 DEF ConvergesAll, Converges
  <2> QED
    BY <1>b, <2>1, <2>2, <2>3
<1>5. CASE LoadProperties \/ BeginSweep
  <2>1. /\ phase' \in {"configs", "sweep"}
        /\ UNCHANGED <<states, retained, inbox, dirty, missed, watched>>
    BY <1>5 DEF LoadProperties, BeginSweep, bus
  <2>2. GuardedAll'
    BY <1>0, <2>1 DEF GuardedAll, Guarded
  <2>3. ConvergesAll'
    BY <1>0, <2>1 DEF ConvergesAll, Converges
  <2> QED
    BY <1>b, <2>1, <2>2, <2>3
<1>6. CASE SubscribeGlobals
  <2>1. /\ phase' = "running" /\ watched' = watched \cup {x \in Alerts : retained[x] # Nil}
        /\ UNCHANGED <<states, retained, dirty, missed>>
    BY <1>6 DEF SubscribeGlobals
  <2>a. ASSUME NEW x \in Alerts
        PROVE  /\ inbox'[x].live = inbox[x].live
               /\ \/ inbox'[x] = inbox[x]
                  \/ inbox'[x].added = Announcement /\ retained[x] # Nil
    BY <1>0, <1>6 DEF SubscribeGlobals, LastAnnounced, BusOK, Box
  <2>2. GuardedAll'
    BY <1>0, <2>1, <2>a DEF GuardedAll, Guarded
  <2>3. ConvergesAll'
    BY <1>0, <2>1, <2>a DEF ConvergesAll, Converges, Undelivered
  <2> QED
    BY <1>b, <2>1, <2>2, <2>3
<1>7. CASE EvaluateAncestor
  <2> DEFINE s == Head(queue)
  <2>1. s \in Alerts
    BY <1>0, <1>7 DEF EvaluateAncestor, Subjects
  <2>2. UNCHANGED <<watched, phase>>
    BY <1>7 DEF EvaluateAncestor, loading
  <2>3. CASE UNCHANGED <<states, bus, episodes>>
    BY <1>a, <2>2, <2>3 DEF bus
  <2>4. CASE /\ definitions[s] # Nil
             /\ EvaluateDefinition(s, definitions[s], NoInput, states, properties,
                                   watched, inbox)
    <3> HIDE DEF s
    <3> QED
      BY <1>c, <2>1, <2>2, <2>4
  <2> QED
    BY <1>7, <2>3, <2>4 DEF EvaluateAncestor
<1>8. ASSUME NEW p \in PropertyNames, HandleProperty(p) PROVE BusInv'
  BY <1>8, <1>a DEF HandleProperty, loading, bus
<1>9. ASSUME NEW a \in Alerts, HandleInput(a) PROVE BusInv'
  <2>1. CASE IsLeaf(definitions[a])
    BY <1>9, <1>c, <2>1 DEF HandleInput, AcceptInput, IsLeaf, loading
  <2>2. CASE ~IsLeaf(definitions[a])
    BY <1>9, <1>a, <2>2 DEF HandleInput, AcceptInput, loading, bus
  <2> QED
    BY <2>1, <2>2
<1>10. ASSUME NEW a \in Alerts, HandleState(a) \/ HandleAdded(a) \/ HandleCreated(a)
       PROVE  BusInv'
  <2>1. GuardedAll' /\ ConvergesAll'
    BY <1>0, <1>10, MessageConverges
  <2>2. phase' = phase
    BY <1>10 DEF HandleState, HandleAdded, HandleCreated, loading
  <2>3. phase # "down"
    BY <1>0, <1>10, MessageAssumption
    DEF HandleState, HandleAdded, HandleCreated, DownForgets, NoMessages
  <2> QED
    BY <1>b, <2>1, <2>2, <2>3
<1>11. ASSUME NEW a \in Alerts, RefreshDefinition(a) \/ SweepSummary(a) PROVE BusInv'
  <2>1. definitions[a] # Nil
    BY <1>0, <1>11 DEF RefreshDefinition, SweepSummary, Inv, LoopsOK, Defined
  <2> QED
    BY <1>11, <1>c, <2>1 DEF RefreshDefinition, SweepSummary, loading
<1>12. CASE Environment
  <2> USE PayloadsAssumption
  <2>1. ASSUME NEW a \in Alerts, NEW s \in ForeignStates[a], PublishForeign(a, s)
        PROVE  BusInv'
    <3>1. s \in State \cup {Garbage, Mistyped}
      OBVIOUS
    <3> QED
      BY <1>0, <2>1, <3>1, WriteConverges DEF PublishForeign
  <2>2. ASSUME NEW a \in Acknowledgers, AcknowledgeAlert(a) PROVE BusInv'
    <3>1. a \in Alerts /\ draft[a] \in State
      BY <1>0, <2>2 DEF AcknowledgeAlert, FeedsOK
    <3> QED
      BY <1>0, <2>2, <3>1, WriteConverges DEF AcknowledgeAlert
  <2>3. ASSUME \/ \E a \in Alerts : \E v \in InputChoices[a] : PublishInput(a, v)
               \/ \E a \in Alerts : \E raw \in ConfigChoices[a] : PublishConfig(a, raw)
               \/ \E a \in Acknowledgers : ReadAlert(a)
               \/ \E p \in PropertyNames :
                    \E raw \in PropertyChoices[p] : PublishProperty(p, raw)
        PROVE  BusInv'
    BY <1>a, <2>3 DEF PublishInput, PublishConfig, ReadAlert, PublishProperty, loading, bus
  <2> QED
    BY <1>12, <2>1, <2>2, <2>3 DEF Environment
<1>13. CASE UNCHANGED vars
  BY <1>a, <1>13 DEF vars, loading, bus
<1> QED
  BY <1>1, <1>3, <1>4, <1>5, <1>6, <1>7, <1>8, <1>9, <1>10, <1>11, <1>12, <1>13
  DEF Next, Handlers

\* The inductive invariant of the service.
ServiceInv == WorkInv /\ LeavesInv /\ BusInv

\* Init establishes it and every step keeps it.
THEOREM ServiceInvariance == Spec => []ServiceInv
<1>1. Init => WorkInv
  <2>1. Init => Hooks
    BY DEF Init, Hooks, IsSummary, Listed, Distinct
  <2>2. Init => Subjects
    BY DEF Init, Subjects
  <2> QED
    BY <2>1, <2>2, InvInit DEF WorkInv
<1>2. Init => LeavesInv
  BY DEF Init, LeavesInv, InputsTotal, NoneDefined, LeavesFollow, UpToDate, IsLeaf
<1>3. WorkInv /\ [Next]_vars => WorkInv'
  BY InvStep, HooksStep, SubjectsStep DEF WorkInv
<1>4. Init => BusInv
  BY DEF Init, BusInv, GuardedAll, ConvergesAll, DownForgets, Guarded, Converges, NoMessages
<1>5. ServiceInv /\ [Next]_vars => ServiceInv'
  BY <1>3, LeavesStep, ConvergesStep DEF ServiceInv, LeavesInv
<1> QED
  BY <1>1, <1>2, <1>4, <1>5, PTL DEF Spec, ServiceInv

-----------------------------------------------------------------------------
\* Every state the service keeps passes State.Validate.
THEOREM StatesStayValid == Spec => []StatesValid
<1>1. Inv => StatesValid
  BY DEF Inv, Kept, ValidStates, StatesValid
<1> QED
  BY <1>1, InvInit, InvStep, PTL DEF Spec

\* applyLocked never has an evaluation refused, so no alert is stuck in an
\* old state.
THEOREM NoAlertFreezes == Spec => []NeverFrozen
<1>1. Inv => NeverFrozen
  <2> SUFFICES ASSUME Inv, NEW a \in Alerts, definitions[a] # Nil
               PROVE  LET e == Evaluate(definitions[a], inputs[a], properties, states)
                      IN  ApplyEvaluation(states[a], IF e = Nil THEN Inactive ELSE e,
                                          episodes[a] + 1) # Nil
    BY DEF NeverFrozen
  <2> DEFINE e == Evaluate(definitions[a], inputs[a], properties, states)
             f == IF e = Nil THEN Inactive ELSE e
  <2>1. SaneResult(e)
    <3>1. DefinitionValid(definitions[a], a)
      BY DEF Inv, Kept, DefinitionsOK, DefinitionValid
    <3> QED
      BY <3>1, EvaluateSane DEF Inv, Kept, ValidStates, PropertiesOK
  <2> HIDE DEF e
  <2>2. f \in Evaluation /\ Sane(f)
    BY <2>1, InactiveSane DEF SaneResult
  <2> HIDE DEF f
  <2>3. /\ states[a] \in State \cup {Nil}
        /\ states[a] # Nil => Validate(states[a])
        /\ episodes[a] + 1 \in Nat \ {0}
    BY DEF Inv, Kept, ValidStates, EpisodesOK
  <2>4. ApplyEvaluation(states[a], f, episodes[a] + 1) # Nil
    BY <2>2, <2>3, ApplyNeverRefuses
  <2> QED
    BY <2>4 DEF e, f
<1> QED
  BY <1>1, InvInit, InvStep, PTL DEF Spec

\* The definitions of summaries never form a cycle, so evaluateAncestorsLocked
\* and acknowledgeTreeLocked walk a finite graph without cycles.
THEOREM SummariesStayAcyclic == Spec => []SummariesAcyclic
<1>1. Init => AcyclicInv
  BY DEF Init, AcyclicInv, SummariesAcyclic, SummaryCycle, IsSummary
<1>2. Inv => loaded \in Nat
  BY DEF Inv, FeedsOK
<1>3. AcyclicInv => SummariesAcyclic
  BY DEF AcyclicInv
<1> QED
  BY <1>1, <1>2, <1>3, InvInit, InvStep, AcyclicStep, PTL DEF Spec

\* What crosses the bus, what the service keeps of it and the work it has in
\* hand are well formed, whatever undecodable payloads others publish.
THEOREM TypeCorrect == Spec => []TypeOK
<1>1. Inv => PayloadsOK
  BY DEF Inv, Kept, FeedsOK, BusOK, Box, Inboxes, ValidStates, EpisodesOK,
     PropertiesOK, DefinitionsOK, PayloadsOK
<1>2. Defined \in SUBSET Alerts
  BY DEF Defined
<1>3. WorkInv => WorkOK
  <2> SUFFICES ASSUME WorkInv PROVE WorkOK
    OBVIOUS
  <2>1. refresh \in SUBSET Alerts
    BY <1>2 DEF WorkInv, Inv, LoopsOK
  <2>2. sweep \in [left : SUBSET Alerts, changed : BOOLEAN, pass : Nat]
    BY <1>2 DEF WorkInv, Inv, LoopsOK
  <2> QED
    BY <2>1, <2>2 DEF WorkInv, WorkOK, Hooks, Subjects
<1>4. ServiceInv => TypeOK
  BY <1>1, <1>3 DEF ServiceInv, WorkInv, TypeOK
<1> QED
  BY <1>4, ServiceInvariance, PTL

\* hookParentsLocked and unhookParentsLocked keep parents the exact inverse of
\* the member lists, without duplicates, over every sequence of configs: no
\* summary is left out of evaluateAncestorsLocked, none is evaluated for a
\* member it no longer has.
THEOREM ParentsStayExact == Spec => []ParentsExact
<1>1. ServiceInv => ParentsExact
  <2> SUFFICES ASSUME Hooks, NEW m \in Alerts, NEW s \in Alerts
               PROVE  Cardinality({i \in DOMAIN parents[m] : parents[m][i] = s})
                        = IF IsSummary(definitions[s]) /\ m \in MemberSet(definitions[s])
                          THEN 1 ELSE 0
    BY DEF ServiceInv, WorkInv, ParentsExact
  <2> DEFINE at == {i \in DOMAIN parents[m] : parents[m][i] = s}
  <2>1. Listed(parents[m], s) <=> IsSummary(definitions[s]) /\ m \in MemberSet(definitions[s])
    BY DEF Hooks
  <2>2. CASE Listed(parents[m], s)
    <3>1. PICK i \in DOMAIN parents[m] : parents[m][i] = s
      BY <2>2 DEF Listed
    <3>2. at = {i}
      BY <3>1 DEF Hooks, Distinct
    <3>3. Cardinality(at) = 1
      BY <3>2, FS_Singleton
    <3> QED
      BY <2>1, <2>2, <3>3
  <2>3. CASE ~Listed(parents[m], s)
    <3>1. at = {}
      BY <2>3 DEF Listed
    <3>2. Cardinality(at) = 0
      BY <3>1, FS_EmptySet
    <3> QED
      BY <2>1, <2>3, <3>2
  <2> QED
    BY <2>2, <2>3
<1> QED
  BY <1>1, ServiceInvariance, PTL

\* Whenever reconcileMu is free, a leaf is active exactly when its last input,
\* under the current properties, says so: no acknowledgement, foreign state,
\* property update or restart makes it show anything else.
THEOREM LeavesFollowInput == Spec => []LeafFollowsInput
<1>1. ServiceInv => LeafFollowsInput
  <2> SUFFICES ASSUME ServiceInv, Unlocked, NEW a \in Alerts, IsLeaf(definitions[a]),
                      ~Unevaluable(definitions[a], inputs[a])
               PROVE  LET e == Evaluate(definitions[a], inputs[a], properties, states)
                      IN  states[a] # Nil /\ (states[a].active <=> e # Nil /\ e.active)
    BY DEF LeafFollowsInput
  <2>1. UpToDate(a)
    BY DEF ServiceInv, LeavesInv, LeavesFollow, Unlocked
  <2>2. definitions[a] \in Config
    BY DEF ServiceInv, WorkInv, Inv, Kept, DefinitionsOK, IsLeaf
  <2>3. Evaluate(definitions[a], inputs[a], properties, states)
          = Evaluate(definitions[a], inputs[a], properties, <<>>)
    BY <2>2, LeafEvaluation
  <2> QED
    BY <2>1, <2>3 DEF UpToDate, Calls
<1> QED
  BY <1>1, ServiceInvariance, PTL

\* Once everything written about an alert has been handled, the last value on
\* its subject is the state the service holds, or a value that is no string:
\* every foreign state, unreadable string, failed acknowledgement and echo is
\* overwritten, but for the exceptions that BusConverges names.
THEOREM BusConvergesToStates == Spec => []BusConverges
<1>1. ServiceInv => BusConverges
  <2> SUFFICES ASSUME BusInv, NEW a \in Alerts, states[a] # Nil,
                      inbox[a] = NoMessages, a \notin dirty, a \notin missed,
                      ~(states[a].pending /\ states[a].episode = 0)
               PROVE  retained[a] # Nil /\ retained[a].state \in {states[a], Mistyped}
    BY DEF BusConverges, ServiceInv
  <2>1. ~Undelivered(inbox[a], retained[a]) \/ retained[a] = Nil
    BY MessageAssumption DEF Undelivered, NoMessages
  <2> QED
    BY <2>1 DEF BusInv, ConvergesAll, Converges
<1> QED
  BY <1>1, ServiceInvariance, PTL

-----------------------------------------------------------------------------
(* Summaries follow their members.  Where every alert has one parent at    *)
(* most, evaluateAncestorsLocked goes up one line of summaries, and only   *)
(* the next of them may be behind.  What a summary shows depends on its    *)
(* members up to Alike, which no acknowledgement disturbs.                 *)

\* Two states, or what an evaluation says, that a summary above cannot tell
\* apart but for the acknowledgement.
Alike(s, t) ==
    /\ s = Nil <=> t = Nil
    /\ s # Nil => /\ s.active <=> t.active
                  /\ s.active => /\ s.presentation = t.presentation
                                 /\ s.dominant = t.dominant

\* What evaluateDefinitionLocked applies to an alert.
Result(c, input, props, st) ==
    LET e == Evaluate(c, input, props, st) IN IF e = Nil THEN Inactive ELSE e

\* Member i is active, and the first of those of the highest priority.
Leads(c, st, i) ==
    LET s(j) == st[c.members[j]]
    IN  /\ i \in DOMAIN c.members /\ s(i).active
        /\ \A j \in DOMAIN c.members : s(j).active =>
            /\ s(j).presentation.priority <= s(i).presentation.priority
            /\ s(j).presentation.priority = s(i).presentation.priority => i <= j

\* An active summary shows the member that leads.
LEMMA ActiveSummary ==
  ASSUME NEW c \in Config, NEW st, ValidStates(st),
         \A m \in MemberSet(c) : st[m] # Nil,
         NEW x \in MemberSet(c), st[x].active
  PROVE  \E i \in DOMAIN c.members :
            /\ Leads(c, st, i)
            /\ EvaluateSummary(c, st).active = TRUE
            /\ EvaluateSummary(c, st).dominant = c.members[i]
            /\ EvaluateSummary(c, st).presentation = st[c.members[i]].presentation
<1> DEFINE raised == {m \in MemberSet(c) : Raising(st[m])}
           top == {m \in raised : \A y \in raised : ~Dominates(st[y], st[m])}
           at == {i \in DOMAIN c.members : c.members[i] \in top}
           first == CHOOSE i \in DOMAIN c.members :
                        /\ c.members[i] \in top
                        /\ \A j \in DOMAIN c.members : c.members[j] \in top => i <= j
           pending == \E m \in raised : st[m].pending
<1>1. MemberSet(c) \in SUBSET Alerts /\ IsFiniteSet(MemberSet(c))
  BY MembersFinite
<1>2. \A m \in MemberSet(c) : st[m] \in State /\ Validate(st[m])
  BY <1>1 DEF ValidStates
<1>3. x \in raised
  BY DEF Raising
<1>4. raised \in SUBSET Alerts /\ IsFiniteSet(raised)
  BY <1>1, FS_Subset
<1>5. \E m \in raised : \A y \in raised : ~Dominates(st[y], st[m])
  <2>1. raised # {} /\ \A m \in raised : st[m] \in State
    BY <1>2, <1>3
  <2> HIDE DEF raised
  <2> QED
    BY <1>4, <2>1, MaximalState
<1>6. c.members \in Seq(Alerts)
  BY DEF Config
<1>7. at \in SUBSET Nat /\ at # {}
  <2>1. PICK m \in top : TRUE
    BY <1>5
  <2>2. m \in MemberSet(c)
    OBVIOUS
  <2> HIDE DEF top
  <2> QED
    BY <1>6, <2>1, <2>2 DEF MemberSet
<1>8. /\ first \in DOMAIN c.members /\ c.members[first] \in top
      /\ \A j \in DOMAIN c.members : c.members[j] \in top => first <= j
  <2>1. \E i \in at : \A j \in at : i <= j
    <3> HIDE DEF at
    <3> QED
      BY <1>7, LeastNatural
  <2> HIDE DEF top
  <2>2. \E i \in DOMAIN c.members :
            /\ c.members[i] \in top
            /\ \A j \in DOMAIN c.members : c.members[j] \in top => i <= j
    BY <2>1
  <2> QED
    BY <2>2
<1>9. EvaluateSummary(c, st) =
        [active |-> \E m \in raised : st[m].active,
         pending |-> pending,
         acknowledged |-> ~pending,
         presentation |-> st[c.members[first]].presentation,
         dominant |-> c.members[first],
         members |-> raised]
  BY <1>2, <1>3 DEF EvaluateSummary
<1>10. \E m \in raised : st[m].active
  BY <1>3
<1>11. PICK i \in DOMAIN c.members : i = first
  BY <1>8
<1> DEFINE m == c.members[i]
<1>12. /\ m \in raised /\ st[m] \in State
       /\ \A y \in raised : st[y] \in State /\ ~Dominates(st[y], st[m])
       /\ \A j \in DOMAIN c.members : c.members[j] \in top => i <= j
  BY <1>2, <1>8, <1>11
<1>13. st[m].active
  BY <1>3, <1>12 DEF Dominates, State
<1>14. ASSUME NEW j \in DOMAIN c.members, st[c.members[j]].active
       PROVE  /\ st[c.members[j]].presentation.priority <= st[m].presentation.priority
              /\ st[c.members[j]].presentation.priority = st[m].presentation.priority => i <= j
  <2> DEFINE y == c.members[j]
  <2>1. y \in raised
    BY <1>14 DEF MemberSet, Raising
  <2>2. st[y] \in State /\ ~Dominates(st[y], st[m])
    BY <1>12, <2>1
  <2>3. st[y].presentation.priority \in Int /\ st[m].presentation.priority \in Int
        /\ st[y].active = TRUE /\ st[m].active = TRUE
    BY <1>12, <1>13, <1>14, <2>2 DEF State, Presentation
  <2>4. st[y].presentation.priority <= st[m].presentation.priority
    <3> DEFINE p == st[y].presentation.priority
               q == st[m].presentation.priority
    <3>1. ~(p > q)
      BY <2>2, <2>3 DEF Dominates
    <3>2. p \in Int /\ q \in Int
      BY <2>3
    <3> HIDE DEF p, q
    <3>3. p <= q
      BY <3>1, <3>2
    <3> QED
      BY <3>3 DEF p, q
  <2>5. ASSUME st[y].presentation.priority = st[m].presentation.priority PROVE y \in top
    <3>1. ASSUME NEW z \in raised PROVE ~Dominates(st[z], st[y])
      <4>1. ~Dominates(st[z], st[m]) /\ st[z] \in State
        BY <1>12, <3>1
      <4> QED
        BY <2>3, <2>5, <4>1 DEF Dominates
    <3> QED
      BY <2>1, <3>1
  <2> QED
    BY <1>12, <2>4, <2>5
<1>15. Leads(c, st, i)
  BY <1>13, <1>14 DEF Leads
<1> HIDE DEF raised, first, pending
<1> QED
  BY <1>9, <1>10, <1>11, <1>15

\* Alike is an equivalence.
LEMMA AlikeEquivalence ==
  ASSUME NEW s, NEW t, NEW u
  PROVE  /\ Alike(s, s)
         /\ Alike(s, t) => Alike(t, s)
         /\ Alike(s, t) /\ Alike(t, u) => Alike(s, u)
  BY DEF Alike

\* A summary none of whose members is active is not active.
LEMMA InactiveSummary ==
  ASSUME NEW c \in Config, NEW st, ValidStates(st),
         ~\E m \in MemberSet(c) : st[m].active
  PROVE  EvaluateSummary(c, st) = Nil \/ EvaluateSummary(c, st).active = FALSE
  BY DEF EvaluateSummary, Inactive

\* EvaluateSummary fails exactly when a member has no state.
LEMMA SummaryFails ==
  ASSUME NEW c \in Config, NEW st, ValidStates(st)
  PROVE  EvaluateSummary(c, st) = Nil <=> \E m \in MemberSet(c) : st[m] = Nil
<1>1. MemberSet(c) \in SUBSET Alerts
  BY MembersFinite
<1>2. CASE \E m \in MemberSet(c) : st[m] = Nil
  BY <1>2 DEF EvaluateSummary
<1>3. CASE ~\E m \in MemberSet(c) : st[m] = Nil
  <2>1. \A m \in MemberSet(c) : st[m] \in State /\ Validate(st[m])
    BY <1>1, <1>3 DEF ValidStates
  <2> QED
    BY <1>3, <2>1, SummarySane DEF ValidStates
<1> QED
  BY <1>2, <1>3

\* What is applied is an evaluation.
LEMMA ResultTyped ==
  ASSUME NEW a, NEW c, DefinitionValid(c, a), NEW input,
         NEW props \in [PropertyNames -> Properties \cup {Nil}],
         NEW st, ValidStates(st)
  PROVE  /\ Result(c, input, props, st) \in Evaluation /\ Sane(Result(c, input, props, st))
         /\ Result(c, input, props, st) # Nil
<1>1. SaneResult(Evaluate(c, input, props, st))
  BY EvaluateSane DEF ValidStates
<1> QED
  BY <1>1, InactiveSane, NilIsNoRecord DEF SaneResult, Result

\* The evaluation of a summary depends on its members only as far as Alike
\* tells them apart.
LEMMA AlikeResults ==
  ASSUME NEW a, NEW c, DefinitionValid(c, a), IsSummary(c), NEW input, NEW in2,
         NEW props \in [PropertyNames -> Properties \cup {Nil}],
         NEW ps2 \in [PropertyNames -> Properties \cup {Nil}],
         NEW st, ValidStates(st), NEW st2, ValidStates(st2),
         \A m \in MemberSet(c) : Alike(st[m], st2[m])
  PROVE  Alike(Result(c, input, props, st), Result(c, in2, ps2, st2))
<1> DEFINE e == EvaluateSummary(c, st)
           f == EvaluateSummary(c, st2)
           r == Result(c, input, props, st)
           q == Result(c, in2, ps2, st2)
<1>0. c \in Config /\ MemberSet(c) \in SUBSET Alerts
  BY MembersFinite DEF DefinitionValid
<1>1. r = (IF e = Nil THEN Inactive ELSE e) /\ q = (IF f = Nil THEN Inactive ELSE f)
  BY DEF Result, Evaluate, IsSummary
<1>2. r \in Evaluation /\ q \in Evaluation /\ r # Nil /\ q # Nil
  BY ResultTyped
<1>3. (e = Nil <=> \E m \in MemberSet(c) : st[m] = Nil)
      /\ (f = Nil <=> \E m \in MemberSet(c) : st2[m] = Nil)
  BY <1>0, SummaryFails
<1>4. e = Nil <=> f = Nil
  BY <1>3 DEF Alike
<1>5. CASE e = Nil
  BY <1>1, <1>4, <1>5, AlikeEquivalence
<1>6. CASE e # Nil /\ ~\E m \in MemberSet(c) : st[m].active
  <2>1. \A m \in MemberSet(c) : st[m] # Nil /\ ~st2[m].active
    BY <1>3, <1>6 DEF Alike
  <2>2. ~\E m \in MemberSet(c) : st2[m].active
    BY <2>1
  <2>3. e.active = FALSE /\ f.active = FALSE
    <3>1. e.active = FALSE
      BY <1>0, <1>6, InactiveSummary
    <3>2. f.active = FALSE
      BY <1>0, <1>4, <1>6, <2>2, InactiveSummary
    <3> QED
      BY <3>1, <3>2
  <2> HIDE DEF e, f, r, q
  <2> QED
    BY <1>1, <1>2, <1>4, <1>6, <2>3 DEF Alike, r, q
<1>7. CASE e # Nil /\ \E m \in MemberSet(c) : st[m].active
  <2>1. PICK x \in MemberSet(c) : st[x].active
    BY <1>7
  <2>2. /\ \A m \in MemberSet(c) : st[m] # Nil /\ st2[m] # Nil
        /\ st2[x].active
    BY <1>3, <1>4, <1>7, <2>1 DEF Alike
  <2>3. PICK i \in DOMAIN c.members :
            /\ Leads(c, st, i)
            /\ e.active = TRUE /\ e.dominant = c.members[i]
            /\ e.presentation = st[c.members[i]].presentation
    BY <1>0, <2>1, <2>2, ActiveSummary, Zenon
  <2>4. PICK k \in DOMAIN c.members :
            /\ Leads(c, st2, k)
            /\ f.active = TRUE /\ f.dominant = c.members[k]
            /\ f.presentation = st2[c.members[k]].presentation
    BY <1>0, <2>1, <2>2, ActiveSummary, Zenon
  <2> HIDE DEF e, f, r, q
  <2>5. c.members \in Seq(Alerts)
    BY <1>0 DEF Config
  <2>6. \A j \in DOMAIN c.members :
            /\ st[c.members[j]].active <=> st2[c.members[j]].active
            /\ st[c.members[j]].active =>
                    st[c.members[j]].presentation = st2[c.members[j]].presentation
    BY <2>2 DEF MemberSet, Alike
  <2>7. \A j \in DOMAIN c.members : st[c.members[j]] \in State
    BY <1>0, <2>2 DEF MemberSet, ValidStates
  <2>8. i = k
    <3>1. i \in Nat /\ k \in Nat
      BY <2>3, <2>4, <2>5
    <3> DEFINE pi == st[c.members[i]].presentation.priority
               pk == st[c.members[k]].presentation.priority
    <3>2. pi \in Int /\ pk \in Int
      BY <2>3, <2>4, <2>7 DEF State, Presentation
    <3>3. st[c.members[i]].active /\ st2[c.members[k]].active
      BY <2>3, <2>4 DEF Leads
    <3>4. pk <= pi /\ (pk = pi => i <= k)
      BY <2>3, <2>4, <2>6, <3>3 DEF Leads
    <3>5. pi <= pk /\ (pi = pk => k <= i)
      BY <2>3, <2>4, <2>6, <3>3 DEF Leads
    <3> HIDE DEF pi, pk
    <3> QED
      BY <3>1, <3>2, <3>4, <3>5
  <2>9. e.presentation = f.presentation /\ e.dominant = f.dominant
    BY <2>3, <2>4, <2>6, <2>8 DEF Leads
  <2> QED
    BY <1>1, <1>2, <1>4, <1>7, <2>3, <2>4, <2>9 DEF Alike, r, q
<1> QED
  BY <1>5, <1>6, <1>7

\* A leaf does not look at other states, a summary only at its members.
LEMMA SameResults ==
  ASSUME NEW a, NEW c, DefinitionValid(c, a), NEW input, NEW in2,
         IsLeaf(c) => in2 = input,
         NEW props \in [PropertyNames -> Properties \cup {Nil}],
         NEW st, ValidStates(st), NEW st2, ValidStates(st2),
         IsSummary(c) => \A m \in MemberSet(c) : Alike(st[m], st2[m])
  PROVE  Alike(Result(c, input, props, st), Result(c, in2, props, st2))
<1>0. c \in Config /\ c # Nil
  BY GarbageAssumption DEF DefinitionValid
<1>1. CASE IsSummary(c)
  BY <1>1, AlikeResults
<1>2. CASE IsLeaf(c)
  <2>1. Evaluate(c, input, props, st) = Evaluate(c, input, props, st2)
    BY <1>0, <1>2, LeafEvaluation
  <2>2. Result(c, input, props, st) = Result(c, in2, props, st2)
    BY <1>2, <2>1 DEF Result
  <2> QED
    BY <2>2, AlikeEquivalence
<1> QED
  BY <1>0, <1>1, <1>2 DEF IsSummary, IsLeaf

\* evaluateDefinitionLocked leaves the alert showing what it computed.
LEMMA EvaluateShows ==
  ASSUME EpisodesOK, PropertiesOK, NEW a \in Alerts, NEW c, NEW input,
         DefinitionValid(c, a), ~Unevaluable(c, input),
         NEW base, ValidStates(base), NEW W, NEW Q,
         EvaluateDefinition(a, c, input, base, properties, W, Q)
  PROVE  Alike(states'[a], Result(c, input, properties, base))
<1> DEFINE f == Result(c, input, properties, base)
           next == ApplyEvaluation(base[a], f, episodes[a] + 1)
<1>1. Apply(a, f, base, W, Q)
  BY DEF EvaluateDefinition, Result
<1>2. f \in Evaluation /\ Sane(f) /\ f # Nil
  BY ResultTyped DEF PropertiesOK
<1>3. base[a] \in State \cup {Nil} /\ (base[a] # Nil => Validate(base[a]))
      /\ episodes[a] + 1 \in Nat \ {0}
  BY DEF ValidStates, EpisodesOK
<1> HIDE DEF f
<1>4. next # Nil
  BY <1>2, <1>3, ApplyNeverRefuses
<1>5. next = Lifecycle(base[a], f, episodes[a] + 1)
  BY <1>4 DEF ApplyEvaluation
<1>6. next.active = f.active /\ next.presentation = f.presentation /\ next.dominant = f.dominant
  BY <1>5 DEF Lifecycle
<1>7. states' = [base EXCEPT ![a] = next]
  BY <1>1, <1>4 DEF Apply
<1> HIDE DEF next
<1>8. states'[a] = next
  BY <1>7 DEF ValidStates
<1> QED
  BY <1>2, <1>4, <1>6, <1>8 DEF Alike, f

\* Alert a shows what its config, its input and its members say.
Current(a) ==
    definitions[a] # Nil /\ ~Unevaluable(definitions[a], inputs[a]) =>
        Alike(states[a], Result(definitions[a], inputs[a], properties, states))

\* An alert that is evaluated is current afterwards.
LEMMA CurrentEvaluated ==
  ASSUME Kept, Kept', NEW a \in Alerts, NEW c, NEW input, DefinitionValid(c, a),
         NEW base, ValidStates(base), NEW W, NEW Q,
         EvaluateDefinition(a, c, input, base, properties, W, Q),
         definitions'[a] = c, IsLeaf(c) => inputs'[a] = input, UNCHANGED properties
  PROVE  Current(a)'
<1> SUFFICES ASSUME ~Unevaluable(c, inputs'[a])
             PROVE  Alike(states'[a], Result(c, inputs'[a], properties, states'))
  BY DEF Current
<1>0. c \in Config /\ c # Nil /\ ValidStates(states') /\ EpisodesOK /\ PropertiesOK
  BY GarbageAssumption DEF DefinitionValid, Kept
<1>1. ~Unevaluable(c, input)
  BY <1>0 DEF Unevaluable, IsLeaf
<1>2. Alike(states'[a], Result(c, input, properties, base))
  BY <1>0, <1>1, EvaluateShows
<1>3. ASSUME NEW m \in MemberSet(c), IsSummary(c) PROVE Alike(base[m], states'[m])
  <2>1. m \in Alerts /\ m # a
    BY <1>0, <1>3, MembersFinite DEF DefinitionValid, ValidConfig, ValidMembers, MemberSet,
       IsSummary
  <2>2. states'[m] = base[m]
    BY <2>1, EvaluateOthers
  <2> QED
    BY <2>2, AlikeEquivalence
<1>4. Alike(Result(c, input, properties, base), Result(c, inputs'[a], properties, states'))
  <2>1. properties \in [PropertyNames -> Properties \cup {Nil}]
    BY <1>0 DEF PropertiesOK
  <2> QED
    BY <1>0, <1>3, <2>1, SameResults
<1> QED
  BY <1>2, <1>4, AlikeEquivalence

\* A step that keeps what an alert is made of, as far as Alike tells it apart,
\* keeps it current.
LEMMA CurrentKept ==
  ASSUME Kept, Kept', NEW x \in Alerts, Current(x), definitions'[x] = definitions[x],
         inputs'[x] = inputs[x], UNCHANGED properties,
         definitions[x] # Nil /\ states[x] # Nil => Alike(states[x], states'[x]),
         IsSummary(definitions[x]) =>
            \A m \in MemberSet(definitions[x]) : Alike(states[m], states'[m])
  PROVE  Current(x)'
<1> DEFINE c == definitions[x]
           in == inputs[x]
<1> SUFFICES ASSUME c # Nil, ~Unevaluable(c, in)
             PROVE  Alike(states'[x], Result(c, in, properties, states'))
  BY DEF Current
<1>0. ValidStates(states) /\ ValidStates(states') /\ DefinitionValid(c, x)
      /\ properties \in [PropertyNames -> Properties \cup {Nil}]
  BY DEF Kept, PropertiesOK, DefinitionsOK, DefinitionValid
<1>1. Alike(states[x], Result(c, in, properties, states))
  BY DEF Current
<1>2. Result(c, in, properties, states) # Nil
  BY <1>0, ResultTyped
<1>3. Alike(states[x], states'[x])
  BY <1>1, <1>2 DEF Alike
<1>4. Alike(Result(c, in, properties, states), Result(c, in, properties, states'))
  BY <1>0, SameResults
<1> QED
  BY <1>1, <1>3, <1>4, AlikeEquivalence

\* Evaluating a current alert again changes nothing a summary would show.
LEMMA Reevaluated ==
  ASSUME Kept, NEW a \in Alerts, Current(a), definitions[a] # Nil, NEW input,
         input = inputs[a] \/ input = NoInput, NEW W, NEW Q,
         EvaluateDefinition(a, definitions[a], input, states, properties, W, Q),
         NEW x \in Alerts
  PROVE  Alike(states[x], states'[x])
<1> DEFINE c == definitions[a]
<1>0. /\ ValidStates(states) /\ EpisodesOK /\ PropertiesOK /\ DefinitionValid(c, a)
      /\ c \in Config /\ properties \in [PropertyNames -> Properties \cup {Nil}]
  BY DEF Kept, DefinitionsOK, DefinitionValid, PropertiesOK
<1>1. CASE x # a
  <2>1. states'[x] = states[x]
    BY <1>0, <1>1, EvaluateOthers
  <2> QED
    BY <2>1, AlikeEquivalence
<1>2. CASE Unevaluable(c, input)
  <2>1. states' = states
    BY <1>2 DEF EvaluateDefinition
  <2> QED
    BY <2>1, AlikeEquivalence
<1>3. CASE x = a /\ ~Unevaluable(c, input)
  <2>1. IsLeaf(c) => input = inputs[a]
    BY <1>0, <1>3, NothingToEvaluate
  <2>2. ~Unevaluable(c, inputs[a])
    BY <1>0, <1>3, <2>1 DEF Unevaluable, IsLeaf
  <2>3. Alike(states[a], Result(c, inputs[a], properties, states))
    BY <2>2 DEF Current
  <2>4. Alike(states'[a], Result(c, input, properties, states))
    BY <1>0, <1>3, EvaluateShows
  <2>5. Alike(Result(c, input, properties, states), Result(c, inputs[a], properties, states))
    <3>1. \A m \in MemberSet(c) : Alike(states[m], states[m])
      BY AlikeEquivalence
    <3> QED
      BY <1>0, <2>1, <3>1, SameResults
  <2> QED
    BY <1>3, <2>3, <2>4, <2>5, AlikeEquivalence
<1> QED
  BY <1>1, <1>2, <1>3

\* No alert is behind.
AllCurrent == \A a \in Alerts : Current(a)

\* A step after which every alert is alike keeps all alerts current.
LEMMA AllCurrentKept ==
  ASSUME Kept, Kept', AllCurrent, UNCHANGED <<definitions, inputs, properties>>,
         \A x \in Alerts : Alike(states[x], states'[x])
  PROVE  AllCurrent'
<1>1. ASSUME NEW x \in Alerts PROVE Current(x)'
  <2>1. Current(x)
    BY DEF AllCurrent
  <2>2. IsSummary(definitions[x]) =>
            \A m \in MemberSet(definitions[x]) : Alike(states[m], states'[m])
    BY MembersFinite DEF Kept, DefinitionsOK, IsSummary
  <2> QED
    BY <2>1, <2>2, CurrentKept
<1> QED
  BY <1>1 DEF AllCurrent

\* A step that changes alert a leaves the alerts current that a is no member of.
LEMMA ChangeOne ==
  ASSUME Kept, Kept', Hooks', NEW a \in Alerts, NEW x \in Alerts, x # a, Current(x),
         definitions'[x] = definitions[x], inputs'[x] = inputs[x], UNCHANGED properties,
         definitions[x] # Nil /\ states[x] # Nil => Alike(states[x], states'[x]),
         IsSummary(definitions[x]) =>
            \A m \in MemberSet(definitions[x]) : m # a => Alike(states[m], states'[m])
  PROVE  Current(x)' \/ Listed(parents'[a], x)
<1>1. CASE IsSummary(definitions[x]) /\ a \in MemberSet(definitions[x])
  BY <1>1 DEF Hooks
<1>2. CASE ~(IsSummary(definitions[x]) /\ a \in MemberSet(definitions[x]))
  BY <1>2, CurrentKept
<1> QED
  BY <1>1, <1>2

-----------------------------------------------------------------------------
(* Where configs and classes come from, and the loops in hand.             *)

\* What is configured was written by somebody.
ConfigsWritten ==
    \A a \in Alerts : /\ definitions[a] # Nil => definitions[a] \in Written(a)
                      /\ retainedConfig[a] \in Config => retainedConfig[a] \in Written(a)
                      /\ configAdded[a] \in Config => configAdded[a] \in Written(a)
                      /\ \A i \in DOMAIN configQ[a] :
                            configQ[a][i] \in Config => configQ[a][i] \in Written(a)

\* A class nobody changes is the one the service began with.
SteadyClasses ==
    \A p \in PropertyNames : Steady(p) =>
        /\ retainedProperty[p] = InitialProperty[p]
        /\ \A i \in DOMAIN propertyQ[p] : propertyQ[p][i] = InitialProperty[p]
        /\ phase \notin {"down", "properties"} =>
             properties[p] = IF Decoded(InitialProperty[p]) THEN InitialProperty[p] ELSE Nil

\* The loops of the service do not overlap.
OneLoop ==
    /\ queue = <<>> /\ refresh = {} => seen = {}
    /\ sweep.left # {} => queue = <<>> /\ refresh = {}

\* No alert has two parents.
LEMMA OneParent ==
  ASSUME Forest, NEW defs, \A a \in Alerts : defs[a] # Nil => defs[a] \in Written(a),
         NEW m \in Alerts, NEW above \in Seq(Alerts), Distinct(above),
         \A s \in Alerts : Listed(above, s) => IsSummary(defs[s]) /\ m \in MemberSet(defs[s])
  PROVE  \A i \in DOMAIN above : i = 1
<1> SUFFICES ASSUME NEW i \in DOMAIN above PROVE i = 1
  OBVIOUS
<1>2. 1 \in DOMAIN above
  OBVIOUS
<1> DEFINE s == above[i]
           t == above[1]
<1>3. s \in Alerts /\ t \in Alerts /\ Listed(above, s) /\ Listed(above, t)
  BY <1>2 DEF Listed
<1> HIDE DEF s, t
<1>4. /\ IsSummary(defs[s]) /\ m \in MemberSet(defs[s])
      /\ IsSummary(defs[t]) /\ m \in MemberSet(defs[t])
  BY <1>3
<1>5. defs[s] \in Written(s) /\ defs[t] \in Written(t)
  BY <1>3, <1>4 DEF IsSummary
<1>6. s = t
  BY <1>3, <1>4, <1>5 DEF Forest, IsSummary
<1> QED
  BY <1>2, <1>6 DEF Distinct, s, t

\* A walk through members leads from s down to x.
Behind(x, s) ==
    \E C \in SUBSET Alerts :
        /\ x \in C
        /\ \A y \in (C \ {x}) \cup {s} :
            IsSummary(definitions[y]) /\ MemberSet(definitions[y]) \cap C # {}

\* Without cycles it leads to other alerts.
LEMMA BehindOthers ==
  ASSUME SummariesAcyclic, NEW s \in Alerts
  PROVE  ~Behind(s, s)
<1> SUFFICES ASSUME NEW C \in SUBSET Alerts, s \in C,
                    \A y \in (C \ {s}) \cup {s} :
                        IsSummary(definitions[y]) /\ MemberSet(definitions[y]) \cap C # {}
             PROVE  FALSE
  BY DEF Behind
<1>1. SummaryCycle(definitions, s)
  BY DEF SummaryCycle
<1> QED
  BY <1>1 DEF SummariesAcyclic

\* A parent continues the walk.
LEMMA BehindParent ==
  ASSUME Hooks, NEW s \in Alerts, NEW t \in Alerts, Listed(parents[s], t)
  PROVE  Behind(s, t) /\ \A x \in Alerts : Behind(x, s) => Behind(x, t)
<1>1. IsSummary(definitions[t]) /\ s \in MemberSet(definitions[t])
  BY DEF Hooks
<1>2. Behind(s, t)
  <2>1. \A y \in ({s} \ {s}) \cup {t} :
            IsSummary(definitions[y]) /\ MemberSet(definitions[y]) \cap {s} # {}
    BY <1>1
  <2> QED
    BY <2>1 DEF Behind
<1>3. ASSUME NEW x \in Alerts, Behind(x, s) PROVE Behind(x, t)
  <2>1. PICK C \in SUBSET Alerts :
            /\ x \in C
            /\ \A y \in (C \ {x}) \cup {s} :
                IsSummary(definitions[y]) /\ MemberSet(definitions[y]) \cap C # {}
    BY <1>3 DEF Behind
  <2> DEFINE D == C \cup {s}
  <2>2. \A y \in (D \ {x}) \cup {t} :
            IsSummary(definitions[y]) /\ MemberSet(definitions[y]) \cap D # {}
    BY <1>1, <2>1
  <2>3. D \in SUBSET Alerts /\ x \in D
    BY <2>1
  <2> HIDE DEF D
  <2> QED
    BY <2>2, <2>3 DEF Behind
<1> QED
  BY <1>2, <1>3

\* evaluateAncestorsLocked is on its way up: at most one summary waits, and it
\* is above those already seen.
Upward ==
    /\ refresh = {}
    /\ \A i \in DOMAIN queue : i = 1
    /\ \A s \in Alerts : Listed(queue, s) =>
            IsSummary(definitions[s]) /\ \A x \in seen : Behind(x, s)

\* Only the summary that waits may be behind.
Climbing == Upward /\ \A a \in Alerts : Current(a) \/ Listed(queue, a)

\* reconcilePropertyLocked has one leaf to visit.
OneLeaf ==
    \E x \in Alerts : /\ refresh = {x} /\ queue = <<>> /\ seen = {}
                      /\ \A a \in Alerts : a # x => Current(a)

\* Every alert is current, or one loop is on its way to the one that is not.
Follow == AllCurrent \/ Climbing \/ OneLeaf

\* With no work in hand every alert is current.
LEMMA AtRest ==
  ASSUME Follow, queue = <<>>, refresh = {}
  PROVE  AllCurrent
<1>1. ~OneLeaf
  BY DEF OneLeaf
<1>2. ASSUME NEW a \in Alerts PROVE ~Listed(queue, a)
  BY DEF Listed
<1> QED
  BY <1>1, <1>2 DEF Follow, Climbing, AllCurrent

\* A handler goes on to the parents of the alert it is about.
LEMMA UpwardFrom ==
  ASSUME Forest, Hooks', ConfigsWritten', NEW a \in Alerts, refresh' = {},
         queue' = parents'[a], seen' = {}
  PROVE  Upward'
<1>1. \A i \in DOMAIN queue' : i = 1
  BY OneParent DEF Hooks, ConfigsWritten
<1>2. \A s \in Alerts : Listed(queue', s) => IsSummary(definitions'[s])
  BY DEF Hooks
<1> QED
  BY <1>1, <1>2 DEF Upward

\* It does so when it leaves that alert current, and the others but for these
\* parents.
LEMMA ClimbFrom ==
  ASSUME Forest, Hooks', ConfigsWritten', NEW a \in Alerts, refresh' = {},
         queue' = parents'[a], seen' = {}, Current(a)',
         \A x \in Alerts : x # a => Current(x)' \/ Listed(parents'[a], x)
  PROVE  Climbing'
  BY UpwardFrom DEF Climbing

\* One iteration of evaluateAncestorsLocked on its way up evaluates the summary
\* that waits, for what it finds in seen is not above itself, and goes on to the
\* parent of this summary.
LEMMA UpwardStep ==
  ASSUME Forest, SummariesAcyclic, WorkInv, WorkInv', ConfigsWritten', Upward,
         EvaluateAncestor
  PROVE  \E s \in Alerts :
            /\ IsSummary(definitions[s])
            /\ \A x \in Alerts : Listed(queue, x) => x = s
            /\ EvaluateDefinition(s, definitions[s], NoInput, states, properties,
                                  watched, inbox)
            /\ queue' = parents'[s] /\ Upward'
<1> DEFINE s == Head(queue)
           fresh == s \notin seen /\ definitions[s] # Nil
<1>0. /\ Hooks /\ Hooks'
      /\ UNCHANGED <<definitions, parents, refresh>>
      /\ queue # <<>> /\ queue \in Seq(Alerts)
  BY DEF WorkInv, EvaluateAncestor, graph, Subjects
<1>1. s \in Alerts
  BY <1>0
<1>2. /\ queue' = IF fresh THEN Tail(queue) \o parents[s] ELSE Tail(queue)
      /\ seen' = {} \/ seen' = seen \cup {s}
      /\ fresh => EvaluateDefinition(s, definitions[s], NoInput, states, properties,
                                     watched, inbox)
  BY DEF EvaluateAncestor, Remaining
<1>3. Listed(queue, s)
  BY <1>0 DEF Listed
<1>4. Tail(queue) = <<>> /\ \A x \in Alerts : Listed(queue, x) => x = s
  <2>0. \A i \in DOMAIN queue : i = 1
    BY DEF Upward
  <2>1. PICK n \in Nat : n = Len(queue) /\ DOMAIN queue = 1..n
    BY <1>0
  <2>2. n = 1
    <3>1. n # 0
      BY <1>0, <2>1
    <3>2. n \in DOMAIN queue
      BY <2>1, <3>1
    <3> QED
      BY <2>0, <3>2
  <2>3. Tail(queue) \in Seq(Alerts) /\ Len(Tail(queue)) = 0
    BY <1>0, <2>1, <2>2
  <2>4. Tail(queue) = <<>>
    <3>1. PICK rest \in Seq(Alerts) : rest = Tail(queue) /\ Len(rest) = 0
      BY <2>3
    <3>2. rest = <<>>
      BY <3>1
    <3> QED
      BY <3>1, <3>2
  <2>5. \A x \in Alerts : Listed(queue, x) => x = queue[1]
    BY <2>0 DEF Listed
  <2> QED
    BY <1>0, <2>4, <2>5
<1> HIDE DEF s
<1>5. IsSummary(definitions[s]) /\ \A x \in seen : Behind(x, s)
  BY <1>1, <1>3 DEF Upward
<1>6. fresh
  BY <1>1, <1>5, BehindOthers DEF IsSummary
<1>7. queue' = parents'[s]
  <2>1. parents[s] \in Seq(Alerts)
    BY <1>0, <1>1 DEF Hooks
  <2>2. queue' = <<>> \o parents[s]
    BY <1>2, <1>4, <1>6
  <2>3. PICK above \in Seq(Alerts) : above = parents[s]
    BY <2>1
  <2>4. <<>> \o above = above
    OBVIOUS
  <2> QED
    BY <1>0, <2>2, <2>3, <2>4
<1>8. \A i \in DOMAIN queue' : i = 1
  BY <1>0, <1>1, <1>7, OneParent DEF Hooks, ConfigsWritten
<1>9. ASSUME NEW t \in Alerts, Listed(queue', t)
      PROVE  IsSummary(definitions'[t]) /\ \A x \in seen' : Behind(x, t)'
  <2>1. Listed(parents[s], t)
    BY <1>0, <1>7, <1>9
  <2>2. Behind(s, t) /\ \A x \in Alerts : Behind(x, s) => Behind(x, t)
    BY <1>0, <1>1, <2>1, BehindParent
  <2>3. seen \in SUBSET Alerts
    BY DEF WorkInv, Subjects
  <2>4. \A x \in seen' : Behind(x, t)
    BY <1>2, <1>5, <2>2, <2>3
  <2>5. \A x : Behind(x, t) => Behind(x, t)'
    BY <1>0 DEF Behind
  <2> QED
    BY <1>0, <1>1, <2>1, <2>4, <2>5 DEF Hooks
<1>10. Upward'
  BY <1>0, <1>8, <1>9 DEF Upward
<1> QED
  BY <1>1, <1>2, <1>4, <1>5, <1>6, <1>7, <1>10

\* reconcileConfigLocked.
LEMMA FollowConfig ==
  ASSUME Forest, WorkInv, WorkInv', InputsTotal, ConfigsWritten', Unlocked, AllCurrent,
         NEW a \in Alerts, NEW raw \in Config \cup {Garbage}, ReconcileConfig(a, raw),
         UNCHANGED properties
  PROVE  Follow'
<1>0. /\ Kept /\ Kept' /\ Hooks /\ Hooks' /\ ValidStates(states) /\ EpisodesOK /\ PropertiesOK
      /\ definitions \in [Alerts -> Config \cup {Nil}] /\ refresh' = {} /\ seen' = {}
  BY DEF WorkInv, Inv, Kept, DefinitionsOK, Unlocked, ReconcileConfig, RejectConfig,
     AcceptSummary, AcceptLeaf, Ancestors
<1>1. PICK v, c : /\ inputs' = [inputs EXCEPT ![a] = v]
                  /\ definitions' = [definitions EXCEPT ![a] = c]
  BY DEF ReconcileConfig, RejectConfig, AcceptSummary, AcceptLeaf
<1>2. /\ inputs'[a] = v /\ definitions'[a] = c
      /\ \A x \in Alerts : x # a => inputs'[x] = inputs[x] /\ definitions'[x] = definitions[x]
  <2>1. inputs' = [x \in Alerts |-> IF x = a THEN v ELSE inputs[x]]
    BY <1>1 DEF InputsTotal
  <2> QED
    BY <1>0, <1>1, <2>1
<1>3. ASSUME NEW x \in Alerts, IsSummary(definitions[x])
      PROVE  MemberSet(definitions[x]) \in SUBSET Alerts
  BY <1>0, <1>3, MembersFinite DEF IsSummary
<1>4. ASSUME Current(a)', queue' = parents'[a],
             \A x \in Alerts : x # a => states'[x] = states[x]
      PROVE  Follow'
  <2>1. ASSUME NEW x \in Alerts, x # a PROVE Current(x)' \/ Listed(parents'[a], x)
    <3>1. Current(x)
      BY DEF AllCurrent
    <3>2. Alike(states[x], states'[x])
      BY <1>4, <2>1, AlikeEquivalence
    <3>3. IsSummary(definitions[x]) =>
            \A m \in MemberSet(definitions[x]) : m # a => Alike(states[m], states'[m])
      BY <1>3, <1>4, AlikeEquivalence
    <3> QED
      BY <1>0, <1>2, <2>1, <3>1, <3>2, <3>3, ChangeOne
  <2> QED
    BY <1>0, <1>4, <2>1, ClimbFrom DEF Follow
<1>5. CASE RejectConfig(a, raw)
  <2>1. definitions'[a] = Nil /\ parents' = Unhooked(a) /\ queue' = Unhooked(a)[a]
    BY <1>0, <1>5 DEF RejectConfig, Ancestors
  <2>2. Current(a)'
    BY <2>1 DEF Current
  <2>3. \A x \in Alerts : x # a => states'[x] = states[x]
    <3> DEFINE next == ApplyEvaluation(states[a], Inactive, episodes[a] + 1)
    <3>1. states' = states \/ states' = [states EXCEPT ![a] = next]
      BY <1>5 DEF RejectConfig, Apply
    <3> HIDE DEF next
    <3> QED
      BY <1>0, <3>1 DEF ValidStates
  <2> QED
    BY <1>4, <2>1, <2>2, <2>3
<1>6. ASSUME Accepted(raw, a) PROVE DefinitionValid(raw, a) /\ raw # Nil
  BY <1>6, GarbageAssumption DEF Accepted, Enabled, DefinitionValid
<1>7. CASE AcceptLeaf(a, raw)
  <2>1. PICK W, input : /\ EvaluateDefinition(a, raw, input, states, properties, W, inbox)
                        /\ inputs' = [inputs EXCEPT ![a] = input]
                        /\ queue' = IF input = NoInput THEN <<>> ELSE Unhooked(a)[a]
    BY <1>7 DEF AcceptLeaf, Ancestors
  <2>2. /\ DefinitionValid(raw, a) /\ definitions'[a] = raw /\ inputs'[a] = input
        /\ raw \in Config /\ IsLeaf(raw)
        /\ parents' = Unhooked(a)
    <3>1. inputs'[a] = input
      BY <2>1 DEF InputsTotal
    <3> QED
      BY <1>0, <1>6, <1>7, <3>1 DEF AcceptLeaf, DefinitionValid
  <2>3. \A x \in Alerts : x # a => states'[x] = states[x]
    BY <1>0, <2>1, <2>2, EvaluateOthers
  <2>4. Current(a)'
    BY <1>0, <2>1, <2>2, CurrentEvaluated
  <2>5. CASE input # NoInput
    BY <1>4, <2>1, <2>2, <2>3, <2>4, <2>5
  <2>6. CASE input = NoInput
    <3>1. states' = states
      BY <2>1, <2>2, <2>6, NothingToEvaluate DEF EvaluateDefinition
    <3>2. ASSUME NEW x \in Alerts, x # a PROVE Current(x)'
      <4>1. Current(x) /\ \A m : Alike(states[m], states'[m])
        BY <3>1, AlikeEquivalence DEF AllCurrent
      <4> QED
        BY <1>0, <1>2, <3>2, <4>1, CurrentKept
    <3> QED
      BY <2>4, <3>2 DEF Follow, AllCurrent
  <2> QED
    BY <2>5, <2>6
<1>8. CASE AcceptSummary(a, raw)
  <2>0. PICK F, W : EvaluateDefinition(a, raw, NoInput, CaughtUp(raw, F), properties, W, inbox)
    BY <1>8 DEF AcceptSummary
  <2> DEFINE base == CaughtUp(raw, F)
  <2>1. EvaluateDefinition(a, raw, NoInput, base, properties, W, inbox)
    BY <2>0
  <2>2. /\ DefinitionValid(raw, a) /\ IsSummary(raw) /\ definitions'[a] = raw /\ raw # Nil
        /\ parents' = Hooked(a, raw) /\ queue' = parents'[a]
    BY <1>0, <1>6, <1>8 DEF AcceptSummary, Ancestors
  <2>3. ValidStates(base)
    BY <1>0, CaughtUpValid
  <2>4. \A x \in Alerts : states[x] # Nil \/ x \notin MemberSet(raw) => base[x] = states[x]
    BY DEF CaughtUp
  <2> HIDE DEF base
  <2>5. \A x \in Alerts : x # a => states'[x] = base[x]
    BY <1>0, <2>1, <2>2, <2>3, EvaluateOthers
  <2>6. Current(a)'
    <3>1. ~IsLeaf(raw)
      BY <2>2 DEF IsLeaf, IsSummary
    <3> QED
      BY <1>0, <2>1, <2>2, <2>3, <3>1, CurrentEvaluated
  <2>7. ASSUME NEW x \in Alerts, x # a PROVE Current(x)' \/ Listed(parents'[a], x)
    <3>1. Current(x)
      BY DEF AllCurrent
    <3>2. states[x] # Nil => Alike(states[x], states'[x])
      BY <2>4, <2>5, <2>7, AlikeEquivalence
    <3>3. ASSUME IsSummary(definitions[x]), NEW m \in MemberSet(definitions[x]), m # a
          PROVE  Alike(states[m], states'[m])
      <4>1. definitions[x] \in Written(x) /\ raw \in Written(a)
        BY <1>2, <2>2, <2>7, <3>3 DEF ConfigsWritten, IsSummary
      <4>2. m \notin MemberSet(raw)
        BY <2>2, <2>7, <3>3, <4>1 DEF Forest, IsSummary
      <4>3. states'[m] = states[m]
        BY <1>3, <2>4, <2>5, <3>3, <4>2
      <4> QED
        BY <4>3, AlikeEquivalence
    <3> QED
      BY <1>0, <1>2, <2>7, <3>1, <3>2, <3>3, ChangeOne
  <2> QED
    BY <1>0, <2>2, <2>6, <2>7, ClimbFrom DEF Follow
<1> QED
  BY <1>5, <1>7, <1>8 DEF ReconcileConfig

\* A state message: an acknowledgement changes nothing a summary shows, and
\* only an alert that is not current anyway takes another state.
LEMMA FollowState ==
  ASSUME Forest, WorkInv, WorkInv', ConfigsWritten', Unlocked, AllCurrent,
         NEW a \in Alerts, NEW incoming, NEW Q, StateArrives(a, incoming, Q),
         UNCHANGED <<definitions, inputs, parents, properties, refresh>>
  PROVE  Follow'
<1>0. Kept /\ Kept' /\ Hooks' /\ states \in [Alerts -> State \cup {Nil}] /\ refresh' = {}
  BY DEF WorkInv, Inv, Kept, ValidStates, Unlocked
<1>1. CASE AcknowledgeTree(a, Q)
  <2> DEFINE done == {x \in AckTree(a) : states[x] # Nil /\ Acknowledgeable(states[x])}
  <2>1. states' = [x \in Alerts |-> IF x \in done THEN Acknowledge(states[x]) ELSE states[x]]
    BY <1>1 DEF AcknowledgeTree
  <2>2. ASSUME NEW x \in Alerts PROVE Alike(states[x], states'[x])
    <3>1. CASE x \notin done
      BY <2>1, <2>2, <3>1, AlikeEquivalence
    <3>2. CASE x \in done
      <4> DEFINE s == states[x]
      <4>1. states'[x] = [s EXCEPT !.pending = FALSE, !.acknowledged = TRUE, !.ack = TRUE]
        BY <2>1, <3>2 DEF Acknowledge
      <4>2. s \in State
        BY <1>0, <2>2, <3>2
      <4> HIDE DEF s
      <4>3. /\ states'[x] \in State /\ states'[x].active = s.active
            /\ states'[x].presentation = s.presentation /\ states'[x].dominant = s.dominant
        BY <4>1, <4>2 DEF State
      <4> QED
        BY <4>2, <4>3, NilIsNoRecord DEF Alike, s
    <3> QED
      BY <3>1, <3>2
  <2> QED
    BY <1>0, <2>2, AllCurrentKept DEF Follow
<1>2. CASE UNCHANGED states
  <2>1. \A x \in Alerts : Alike(states[x], states'[x])
    BY <1>2, AlikeEquivalence
  <2> QED
    BY <1>0, <2>1, AllCurrentKept DEF Follow
<1>3. CASE /\ states' = [states EXCEPT ![a] = incoming]
           /\ definitions[a] = Nil \/ states[a] = Nil
           /\ Ancestors(parents[a])
  <2>1. Current(a)'
    <3>1. CASE definitions[a] = Nil
      BY <3>1 DEF Current
    <3>2. CASE definitions[a] # Nil /\ states[a] = Nil
      <4>1. DefinitionValid(definitions[a], a) /\ ValidStates(states)
            /\ properties \in [PropertyNames -> Properties \cup {Nil}]
        BY <1>0, <3>2 DEF Kept, DefinitionsOK, DefinitionValid, PropertiesOK
      <4>2. Result(definitions[a], inputs[a], properties, states) # Nil
        BY <4>1, ResultTyped
      <4>3. Unevaluable(definitions[a], inputs[a])
        BY <3>2, <4>2 DEF AllCurrent, Current, Alike
      <4> QED
        BY <4>3 DEF Current
    <3> QED
      BY <1>3, <3>1, <3>2
  <2>2. \A x \in Alerts : x # a => states'[x] = states[x]
    BY <1>0, <1>3
  <2>3. ASSUME NEW x \in Alerts, x # a PROVE Current(x)' \/ Listed(parents'[a], x)
    <3>1. Current(x)
      BY DEF AllCurrent
    <3>2. Alike(states[x], states'[x])
      BY <2>2, <2>3, AlikeEquivalence
    <3>3. IsSummary(definitions[x]) =>
            \A m \in MemberSet(definitions[x]) : m # a => Alike(states[m], states'[m])
      BY <1>0, <2>2, MembersFinite, AlikeEquivalence DEF Kept, DefinitionsOK, IsSummary
    <3> QED
      BY <1>0, <2>3, <3>1, <3>2, <3>3, ChangeOne
  <2>4. queue' = parents'[a] /\ seen' = {}
    BY <1>3 DEF Ancestors
  <2> QED
    BY <1>0, <2>1, <2>3, <2>4, ClimbFrom DEF Follow
<1> QED
  BY <1>1, <1>2, <1>3 DEF StateArrives, ReconcileState, AdoptState, Republish, Ignore, Discard

\* Whatever loop evaluates a current alert again keeps all alerts current.
LEMMA AllCurrentLoop ==
  ASSUME Kept, Kept', AllCurrent, NEW a \in Alerts, definitions[a] # Nil, NEW input,
         input = inputs[a] \/ input = NoInput,
         EvaluateDefinition(a, definitions[a], input, states, properties, watched, inbox),
         UNCHANGED <<definitions, inputs, properties>>
  PROVE  AllCurrent'
<1>1. Current(a)
  BY DEF AllCurrent
<1>2. \A x \in Alerts : Alike(states[x], states'[x])
  BY <1>1, Reevaluated
<1> QED
  BY <1>2, AllCurrentKept

\* evaluateDefinitionLocked leaves alert a current, and the others but for its
\* parents.
LEMMA EvaluatedOne ==
  ASSUME Kept, Kept', Hooks', NEW a \in Alerts, definitions[a] # Nil, NEW input,
         IsLeaf(definitions[a]) => inputs'[a] = input,
         EvaluateDefinition(a, definitions[a], input, states, properties, watched, inbox),
         UNCHANGED <<definitions, properties>>,
         \A x \in Alerts : x # a => inputs'[x] = inputs[x],
         NEW x \in Alerts, x # a => Current(x)
  PROVE  Current(x)' \/ (x # a /\ Listed(parents'[a], x))
<1>0. DefinitionValid(definitions[a], a) /\ ValidStates(states)
  BY DEF Kept, DefinitionsOK, DefinitionValid
<1>1. CASE x = a
  BY <1>0, <1>1, CurrentEvaluated
<1>2. CASE x # a
  <2>1. \A y \in Alerts : y # a => states'[y] = states[y]
    BY <1>0, EvaluateOthers
  <2>2. Alike(states[x], states'[x])
    BY <1>2, <2>1, AlikeEquivalence
  <2>3. IsSummary(definitions[x]) =>
            \A m \in MemberSet(definitions[x]) : m # a => Alike(states[m], states'[m])
    BY <2>1, MembersFinite, AlikeEquivalence DEF Kept, DefinitionsOK, IsSummary
  <2> QED
    BY <1>2, <2>2, <2>3, ChangeOne
<1> QED
  BY <1>1, <1>2

\* handleInput.
LEMMA FollowInput ==
  ASSUME Forest, WorkInv, WorkInv', InputsTotal, ConfigsWritten', AllCurrent,
         NEW a \in Alerts, HandleInput(a)
  PROVE  Follow'
<1>0. /\ Kept /\ Kept' /\ Hooks' /\ refresh = {}
      /\ UNCHANGED <<definitions, parents, properties>>
  BY DEF WorkInv, Inv, HandleInput, Unlocked
<1>1. CASE IsLeaf(definitions[a])
  <2> DEFINE v == Head(inputQ[a])
  <2>1. /\ inputs' = [inputs EXCEPT ![a] = v]
        /\ EvaluateDefinition(a, definitions[a], v, states, properties, watched, inbox)
        /\ queue' = parents'[a] /\ seen' = {} /\ refresh' = {}
    BY <1>0, <1>1 DEF HandleInput, AcceptInput, Ancestors
  <2> HIDE DEF v
  <2>2. inputs' = [x \in Alerts |-> IF x = a THEN v ELSE inputs[x]]
    BY <2>1 DEF InputsTotal
  <2>3. definitions[a] # Nil
    BY <1>1 DEF IsLeaf
  <2>4. ASSUME NEW x \in Alerts PROVE Current(x)' \/ (x # a /\ Listed(parents'[a], x))
    <3>1. Current(x) /\ inputs'[a] = v /\ \A y \in Alerts : y # a => inputs'[y] = inputs[y]
      BY <2>2 DEF AllCurrent
    <3> QED
      BY <1>0, <2>1, <2>3, <3>1, EvaluatedOne
  <2> QED
    BY <1>0, <2>1, <2>4, ClimbFrom DEF Follow
<1>2. CASE ~IsLeaf(definitions[a])
  <2>1. UNCHANGED <<inputs, states>>
    BY <1>2 DEF HandleInput, AcceptInput
  <2>2. \A x \in Alerts : Alike(states[x], states'[x])
    BY <2>1, AlikeEquivalence
  <2> QED
    BY <1>0, <2>1, <2>2, AllCurrentKept DEF Follow
<1> QED
  BY <1>1, <1>2

\* One iteration of the loop of reconcilePropertyLocked.
LEMMA FollowRefresh ==
  ASSUME Forest, WorkInv, WorkInv', ConfigsWritten', Follow,
         NEW a \in Alerts, RefreshDefinition(a)
  PROVE  Follow'
<1>0. /\ Kept /\ Kept' /\ Hooks'
      /\ UNCHANGED <<definitions, inputs, parents, properties>>
      /\ EvaluateDefinition(a, definitions[a], inputs[a], states, properties, watched, inbox)
      /\ a \in refresh /\ refresh' = refresh \ {a} /\ queue' = parents'[a]
      /\ seen' = IF refresh' = {} /\ queue' = <<>> THEN {} ELSE seen
  BY DEF WorkInv, Inv, RefreshDefinition, graph
<1>1. definitions[a] # Nil
  BY <1>0 DEF WorkInv, Inv, LoopsOK, Defined
<1>2. CASE AllCurrent
  BY <1>0, <1>1, <1>2, AllCurrentLoop DEF Follow
<1>3. CASE OneLeaf
  <2>1. refresh = {a} /\ seen = {} /\ \A x \in Alerts : x # a => Current(x)
    BY <1>0, <1>3 DEF OneLeaf
  <2>2. refresh' = {} /\ seen' = {}
    BY <1>0, <2>1
  <2>3. ASSUME NEW x \in Alerts PROVE Current(x)' \/ (x # a /\ Listed(parents'[a], x))
    BY <1>0, <1>1, <2>1, EvaluatedOne
  <2> QED
    BY <1>0, <2>2, <2>3, ClimbFrom DEF Follow
<1> QED
  BY <1>0, <1>2, <1>3 DEF Follow, Climbing, Upward

\* One summary of the sweep.
LEMMA FollowSweep ==
  ASSUME WorkInv, WorkInv', OneLoop, Follow, NEW a \in Alerts, SweepSummary(a)
  PROVE  Follow'
<1>0. /\ Kept /\ Kept' /\ UNCHANGED <<definitions, inputs, properties>>
      /\ EvaluateDefinition(a, definitions[a], NoInput, states, properties, watched, inbox)
      /\ a \in sweep.left
  BY DEF WorkInv, Inv, SweepSummary, graph
<1>1. definitions[a] # Nil
  BY <1>0 DEF WorkInv, Inv, LoopsOK, Defined
<1>2. AllCurrent
  BY <1>0, AtRest DEF OneLoop
<1> QED
  BY <1>0, <1>1, <1>2, AllCurrentLoop DEF Follow

\* One iteration of evaluateAncestorsLocked.
LEMMA FollowAncestor ==
  ASSUME Forest, SummariesAcyclic, WorkInv, WorkInv', ConfigsWritten', Follow,
         EvaluateAncestor
  PROVE  Follow'
<1>0. /\ Kept /\ Kept' /\ Hooks'
      /\ UNCHANGED <<definitions, inputs, properties>>
      /\ queue # <<>> /\ queue \in Seq(Alerts)
  BY DEF WorkInv, Inv, EvaluateAncestor, graph, Subjects
<1>1. CASE AllCurrent
  <2> DEFINE s == Head(queue)
             fresh == s \notin seen /\ definitions[s] # Nil
  <2>1. s \in Alerts
    BY <1>0
  <2>2. /\ fresh => EvaluateDefinition(s, definitions[s], NoInput, states, properties,
                                       watched, inbox)
        /\ ~fresh => UNCHANGED states
    BY DEF EvaluateAncestor
  <2> HIDE DEF s
  <2>3. CASE fresh
    BY <1>0, <1>1, <2>1, <2>2, <2>3, AllCurrentLoop DEF Follow
  <2>4. CASE ~fresh
    <3>1. \A x \in Alerts : Alike(states[x], states'[x])
      BY <2>2, <2>4, AlikeEquivalence
    <3> QED
      BY <1>0, <1>1, <3>1, AllCurrentKept DEF Follow
  <2> QED
    BY <2>3, <2>4
<1>2. CASE Climbing
  <2>1. PICK s \in Alerts :
            /\ IsSummary(definitions[s])
            /\ \A x \in Alerts : Listed(queue, x) => x = s
            /\ EvaluateDefinition(s, definitions[s], NoInput, states, properties,
                                  watched, inbox)
            /\ queue' = parents'[s] /\ Upward'
    BY <1>2, UpwardStep DEF Climbing
  <2>2. ASSUME NEW x \in Alerts PROVE Current(x)' \/ Listed(queue', x)
    <3>1. ~IsLeaf(definitions[s]) /\ definitions[s] # Nil
      BY <2>1 DEF IsLeaf, IsSummary
    <3>2. x # s => Current(x)
      BY <1>2, <2>1 DEF Climbing
    <3> QED
      BY <1>0, <2>1, <3>1, <3>2, EvaluatedOne
  <2> QED
    BY <2>1, <2>2 DEF Follow, Climbing
<1> QED
  BY <1>0, <1>1, <1>2 DEF Follow, OneLeaf

\* reconcilePropertyLocked up to its loop.
LEMMA FollowProperty ==
  ASSUME ClassesApart, WorkInv, WorkInv', ConfigsWritten, SteadyClasses, OneLoop, AllCurrent,
         NEW p \in PropertyNames, HandleProperty(p)
  PROVE  Follow'
<1>0. /\ Kept /\ Kept' /\ properties \in [PropertyNames -> Properties \cup {Nil}]
      /\ UNCHANGED <<definitions, inputs, states, queue, seen>>
      /\ queue = <<>> /\ refresh = {} /\ seen = {}
  BY DEF WorkInv, Inv, Kept, PropertiesOK, HandleProperty, Unlocked, graph, OneLoop
<1> DEFINE raw == Head(propertyQ[p])
           class == IF Decoded(raw) THEN raw ELSE Nil
<1>a. \A x \in Alerts : Alike(states[x], states'[x])
  BY <1>0, AlikeEquivalence
<1>b. properties' = properties => Follow'
  BY <1>0, <1>a, AllCurrentKept DEF Follow
<1> SUFFICES ASSUME ReconcileProperty(p, raw) PROVE Follow'
  BY <1>b DEF HandleProperty
<1>1. /\ properties' = [properties EXCEPT ![p] = class]
      /\ refresh' = {a \in Alerts : /\ IsLeaf(definitions[a])
                                    /\ References(definitions[a], p)
                                    /\ inputs[a] # NoInput}
  BY DEF HandleProperty, ReconcileProperty
<1>2. CASE Steady(p)
  <2>1. raw = InitialProperty[p]
    <3>1. propertyQ[p] # <<>> /\ propertyQ[p] \in Seq(Properties \cup {Garbage, Mistyped})
      BY DEF HandleProperty, WorkInv, Inv, FeedsOK
    <3>2. 1 \in DOMAIN propertyQ[p] /\ raw = propertyQ[p][1]
      BY <3>1
    <3> QED
      BY <1>2, <3>2 DEF SteadyClasses
  <2>2. properties[p] = class
    BY <1>2, <2>1 DEF SteadyClasses, HandleProperty
  <2>3. properties' = properties
    BY <1>0, <1>1, <2>2
  <2> QED
    BY <1>b, <2>3
<1>3. CASE ~Steady(p)
  <2> HIDE DEF class
  <2>1. ASSUME NEW x \in Alerts, x \notin refresh' PROVE Current(x)'
    <3> SUFFICES ASSUME definitions[x] # Nil, ~Unevaluable(definitions[x], inputs[x])
                 PROVE  Alike(states[x], Result(definitions[x], inputs[x], properties', states))
      BY <1>0 DEF Current
    <3>1. DefinitionValid(definitions[x], x) /\ definitions[x] \in Config
      BY <1>0 DEF Kept, DefinitionsOK, DefinitionValid
    <3>2. Evaluate(definitions[x], inputs[x], properties', states)
            = Evaluate(definitions[x], inputs[x], properties, states)
      <4>1. CASE IsLeaf(definitions[x])
        <5>1. inputs[x] # NoInput
          BY <3>1, <4>1, NothingToEvaluate
        <5>2. ~References(definitions[x], p)
          BY <1>1, <2>1, <4>1, <5>1
        <5>3. \A q \in PropertyNames : q # p => properties'[q] = properties[q]
          BY <1>0, <1>1
        <5> QED
          BY <3>1, <4>1, <5>2, <5>3, Unreferenced
      <4>2. CASE ~IsLeaf(definitions[x])
        <5>1. definitions[x].type = "summary"
          BY <4>2 DEF IsLeaf
        <5> QED
          BY <5>1 DEF Evaluate
      <4> QED
        BY <4>1, <4>2
    <3>3. Alike(states[x], Result(definitions[x], inputs[x], properties, states))
      BY DEF AllCurrent, Current
    <3> QED
      BY <3>2, <3>3 DEF Result
  <2>2. CASE refresh' = {}
    BY <2>1, <2>2 DEF Follow, AllCurrent
  <2>3. CASE refresh' # {}
    <3>1. PICK x \in Alerts : x \in refresh'
      BY <1>1, <2>3
    <3>2. ASSUME NEW y \in refresh' PROVE y = x
      <4>1. /\ y \in Alerts /\ References(definitions[x], p) /\ References(definitions[y], p)
            /\ definitions[x] # Nil /\ definitions[y] # Nil
        BY <1>1, <3>1, <3>2 DEF IsLeaf
      <4>2. definitions[x] \in Written(x) /\ definitions[y] \in Written(y)
        BY <4>1 DEF ConfigsWritten
      <4> QED
        BY <1>3, <4>1, <4>2 DEF ClassesApart
    <3>3. refresh' = {x}
      BY <3>1, <3>2
    <3> QED
      BY <1>0, <2>1, <3>3 DEF Follow, OneLeaf
  <2> QED
    BY <2>2, <2>3
<1> QED
  BY <1>2, <1>3

\* The first configs are those of InitialConfig.
LEMMA WrittenInit == Init => ConfigsWritten
<1> SUFFICES ASSUME Init PROVE ConfigsWritten
  OBVIOUS
<1>1. ASSUME NEW a \in Alerts
      PROVE  /\ definitions[a] = Nil /\ DOMAIN configQ[a] = {} /\ configAdded[a] \notin Config
             /\ retainedConfig[a] \in Config => retainedConfig[a] \in Written(a)
  BY GarbageAssumption DEF Init, Written
<1> QED
  BY <1>1 DEF ConfigsWritten

\* Configs reach the definitions as they were written.
LEMMA WrittenStep == WorkInv /\ ConfigsWritten /\ [Next]_vars => ConfigsWritten'
<1> SUFFICES ASSUME WorkInv, ConfigsWritten, [Next]_vars PROVE ConfigsWritten'
  OBVIOUS
<1>0. /\ FeedsOK /\ definitions \in [Alerts -> Config \cup {Nil}]
      /\ retainedConfig \in [Alerts -> Config \cup {Garbage, Mistyped, Nil}]
      /\ configQ \in [Alerts -> Seq(Config \cup {Garbage, Mistyped})]
      /\ configAdded \in [Alerts -> Config \cup {Garbage, Mistyped, Nil}]
  BY DEF WorkInv, Inv, FeedsOK, Kept, DefinitionsOK
<1>a. UNCHANGED <<definitions, retainedConfig, configQ, configAdded>> => ConfigsWritten'
  BY DEF ConfigsWritten
<1>b. ASSUME NEW a \in Alerts, NEW raw \in Config \cup {Garbage},
             raw \in Config => raw \in Written(a), ReconcileConfig(a, raw), NEW x \in Alerts
      PROVE  definitions'[x] # Nil => definitions'[x] \in Written(x)
  <2>1. CASE definitions' = [definitions EXCEPT ![a] = Nil]
    BY <1>0, <2>1 DEF ConfigsWritten
  <2>2. CASE definitions' = [definitions EXCEPT ![a] = raw] /\ raw \in Config
    BY <1>0, <1>b, <2>2 DEF ConfigsWritten
  <2> QED
    BY <1>b, <2>1, <2>2 DEF ReconcileConfig, RejectConfig, AcceptSummary, AcceptLeaf,
       Accepted, Enabled
<1>c. ASSUME LoadConfig \/ \E a \in Alerts : HandleConfig(a)
      PROVE  \A x \in Alerts : definitions'[x] # Nil => definitions'[x] \in Written(x)
  <2>1. CASE AlertsSame
    BY <2>1 DEF AlertsSame, graph, ConfigsWritten
  <2>2. ASSUME NEW a \in Alerts, NEW raw \in Offered(a), ReconcileConfig(a, raw)
        PROVE  \A x \in Alerts : definitions'[x] # Nil => definitions'[x] \in Written(x)
    <3>1. raw \in Config \cup {Garbage} /\ (raw \in Config => raw \in Written(a))
      BY <2>2 DEF Offered, ConfigsWritten
    <3> QED
      BY <1>b, <2>2, <3>1
  <2> QED
    BY <1>0, <1>c, <2>1, <2>2, ConfigTaken
<1>1. CASE LoadConfig
  BY <1>1, <1>c DEF LoadConfig, others, ConfigsWritten
<1>2. ASSUME NEW a \in Alerts, HandleConfig(a) PROVE ConfigsWritten'
  <2>1. UNCHANGED retainedConfig
    BY <1>2 DEF HandleConfig, others
  <2>2. CASE configAdded' = [configAdded EXCEPT ![a] = Nil] /\ UNCHANGED configQ
    BY <1>0, <1>2, <1>c, <2>1, <2>2, GarbageAssumption DEF ConfigsWritten
  <2>3. CASE /\ configQ[a] # <<>> /\ UNCHANGED configAdded
             /\ configQ' = [configQ EXCEPT ![a] = Tail(@)]
    <3>1. PICK q \in Seq(Config \cup {Garbage, Mistyped}) : q = configQ[a] /\ q # <<>>
      BY <1>0, <2>3
    <3>2. \A i \in DOMAIN Tail(q) : Tail(q)[i] \in Config => Tail(q)[i] \in Written(a)
      <4>1. \A i \in DOMAIN Tail(q) : i + 1 \in DOMAIN q /\ Tail(q)[i] = q[i + 1]
        BY <3>1
      <4> QED
        BY <3>1, <4>1 DEF ConfigsWritten
    <3>3. ASSUME NEW x \in Alerts
          PROVE  \A i \in DOMAIN configQ'[x] :
                    configQ'[x][i] \in Config => configQ'[x][i] \in Written(x)
      <4>1. CASE x = a
        BY <1>0, <2>3, <3>1, <3>2, <4>1
      <4>2. CASE x # a
        BY <1>0, <2>3, <4>2 DEF ConfigsWritten
      <4> QED
        BY <4>1, <4>2
    <3> QED
      BY <1>2, <1>c, <2>1, <2>3, <3>3 DEF ConfigsWritten
  <2> QED
    BY <1>2, <2>2, <2>3 DEF HandleConfig
<1>3. ASSUME NEW a \in Alerts, NEW raw \in ConfigChoices[a], PublishConfig(a, raw)
      PROVE  ConfigsWritten'
  <2>1. /\ raw \in Config \cup {Garbage, Mistyped}
        /\ raw \in Config => raw \in Written(a)
    BY PayloadsAssumption DEF Written
  <2>2. /\ UNCHANGED definitions /\ retainedConfig' = [retainedConfig EXCEPT ![a] = raw]
        /\ configQ' = configQ \/ configQ' = [configQ EXCEPT ![a] = Append(configQ[a], raw)]
        /\ configAdded' = configAdded \/ configAdded' = [configAdded EXCEPT ![a] = raw]
    BY <1>3 DEF PublishConfig, graph
  <2>3. ASSUME NEW x \in Alerts
        PROVE  /\ retainedConfig'[x] \in Config => retainedConfig'[x] \in Written(x)
               /\ configAdded'[x] \in Config => configAdded'[x] \in Written(x)
    BY <1>0, <2>1, <2>2 DEF ConfigsWritten
  <2>4. ASSUME NEW x \in Alerts
        PROVE  \A i \in DOMAIN configQ'[x] :
                    configQ'[x][i] \in Config => configQ'[x][i] \in Written(x)
    <3>1. CASE configQ' = configQ \/ x # a
      BY <1>0, <2>2, <3>1 DEF ConfigsWritten
    <3>2. CASE configQ' = [configQ EXCEPT ![a] = Append(configQ[a], raw)] /\ x = a
      <4>1. PICK q \in Seq(Config \cup {Garbage, Mistyped}) : q = configQ[a]
        BY <1>0
      <4>2. \A i \in DOMAIN q : q[i] \in Config => q[i] \in Written(a)
        BY <4>1 DEF ConfigsWritten
      <4>3. \A i \in DOMAIN Append(q, raw) : Append(q, raw)[i] = raw
                \/ (i \in DOMAIN q /\ Append(q, raw)[i] = q[i])
        BY <2>1
      <4>4. configQ'[a] = Append(q, raw)
        BY <1>0, <3>2, <4>1
      <4> QED
        BY <2>1, <3>2, <4>2, <4>3, <4>4
    <3> QED
      BY <2>2, <3>1, <3>2
  <2> QED
    BY <2>2, <2>3, <2>4 DEF ConfigsWritten
<1>4. CASE Crash
  BY <1>4, GarbageAssumption DEF Crash, others, ConfigsWritten
<1>5. CASE SubscribeGlobals
  <2>1. /\ UNCHANGED <<definitions, retainedConfig, configQ>>
        /\ \/ UNCHANGED configAdded
           \/ \E a \in Alerts : configAdded' = [configAdded EXCEPT ![a] = retainedConfig[a]]
    BY <1>5 DEF SubscribeGlobals, LastAnnounced, graph, others
  <2> QED
    BY <1>0, <1>a, <2>1 DEF ConfigsWritten
<1>6. CASE \/ LoadStates \/ LoadProperties \/ BeginSweep \/ EvaluateAncestor
           \/ \E p \in PropertyNames : HandleProperty(p)
           \/ \E a \in Alerts : \/ HandleInput(a) \/ HandleState(a) \/ HandleCreated(a)
                                \/ HandleAdded(a) \/ RefreshDefinition(a) \/ SweepSummary(a)
  BY <1>6, <1>a DEF LoadStates, LoadProperties, BeginSweep, EvaluateAncestor,
     HandleProperty, HandleInput, HandleState, HandleCreated, HandleAdded, RefreshDefinition,
     SweepSummary, graph, others, feeds
<1>7. CASE \/ \E a \in Alerts : \/ \E value \in InputChoices[a] : PublishInput(a, value)
                                \/ \E s \in ForeignStates[a] : PublishForeign(a, s)
           \/ \E a \in Acknowledgers : ReadAlert(a) \/ AcknowledgeAlert(a)
           \/ \E p \in PropertyNames : \E raw \in PropertyChoices[p] : PublishProperty(p, raw)
  BY <1>7, <1>a DEF PublishInput, PublishForeign, WriteState, ReadAlert, AcknowledgeAlert,
     PublishProperty, graph, others, feeds
<1>8. CASE UNCHANGED vars
  BY <1>8, <1>a DEF vars, graph, others, feeds
<1> QED
  BY <1>1, <1>2, <1>3, <1>4, <1>5, <1>6, <1>7, <1>8 DEF Next, Handlers, Environment

\* Nobody changes the properties of a steady class.
LEMMA SteadyStep == WorkInv /\ SteadyClasses /\ [Next]_vars => SteadyClasses'
<1> SUFFICES ASSUME WorkInv, SteadyClasses, [Next]_vars, NEW p \in PropertyNames, Steady(p)
             PROVE  /\ retainedProperty'[p] = InitialProperty[p]
                    /\ \A i \in DOMAIN propertyQ'[p] : propertyQ'[p][i] = InitialProperty[p]
                    /\ phase' \notin {"down", "properties"} =>
                         properties'[p] = IF Decoded(InitialProperty[p])
                                          THEN InitialProperty[p] ELSE Nil
  BY DEF SteadyClasses
<1> DEFINE first == InitialProperty[p]
           class == IF Decoded(first) THEN first ELSE Nil
<1>0. /\ properties \in [PropertyNames -> Properties \cup {Nil}]
      /\ retainedProperty \in [PropertyNames -> Properties \cup {Garbage, Mistyped, Nil}]
      /\ propertyQ \in [PropertyNames -> Seq(Properties \cup {Garbage, Mistyped})]
      /\ retainedProperty[p] = first
      /\ \A i \in DOMAIN propertyQ[p] : propertyQ[p][i] = first
      /\ phase \notin {"down", "properties"} => properties[p] = class
  BY DEF WorkInv, Inv, FeedsOK, Kept, PropertiesOK, SteadyClasses
<1>1. CASE LoadProperties
  BY <1>0, <1>1 DEF LoadProperties, others, feeds, Steady
<1>2. CASE LoadStates
  BY <1>0, <1>2 DEF LoadStates, others, feeds
<1>3. CASE BeginSweep
  BY <1>0, <1>3 DEF BeginSweep, others, feeds
<1>4. CASE SubscribeGlobals
  <2>1. /\ UNCHANGED <<retainedProperty, properties>> /\ phase = "sweep"
        /\ propertyQ'[p] = IF retainedProperty[p] = Nil THEN <<>> ELSE <<retainedProperty[p]>>
    BY <1>4 DEF SubscribeGlobals, others
  <2> QED
    BY <1>0, <2>1
<1>5. ASSUME NEW q \in PropertyNames, HandleProperty(q)
      PROVE  /\ retainedProperty'[p] = first
             /\ \A i \in DOMAIN propertyQ'[p] : propertyQ'[p][i] = first
             /\ phase' \notin {"down", "properties"} => properties'[p] = class
  <2> DEFINE raw == Head(propertyQ[q])
             new == IF Decoded(raw) THEN raw ELSE Nil
  <2>1. /\ UNCHANGED <<retainedProperty, phase>> /\ phase = "running" /\ propertyQ[q] # <<>>
        /\ UNCHANGED properties \/ properties' = [properties EXCEPT ![q] = new]
        /\ propertyQ' = [propertyQ EXCEPT ![q] = Tail(propertyQ[q])]
    BY <1>5 DEF HandleProperty, ReconcileProperty, loading, others
  <2>2. CASE p # q
    <3> HIDE DEF new
    <3> QED
      BY <1>0, <2>1, <2>2
  <2>3. CASE p = q
    <3>1. PICK s \in Seq(Properties \cup {Garbage, Mistyped}) : s = propertyQ[p] /\ s # <<>>
      BY <1>0, <2>1, <2>3
    <3>2. Head(s) = s[1] /\ 1 \in DOMAIN s
      BY <3>1
    <3>3. \A i \in DOMAIN Tail(s) : i + 1 \in DOMAIN s /\ Tail(s)[i] = s[i + 1]
      BY <3>1
    <3>4. raw = first /\ \A i \in DOMAIN Tail(s) : Tail(s)[i] = first
      BY <1>0, <2>3, <3>1, <3>2, <3>3
    <3>5. propertyQ'[p] = Tail(s)
      BY <1>0, <2>1, <2>3, <3>1
    <3>6. new = class
      BY <3>4
    <3> HIDE DEF new, class
    <3>7. properties'[p] = class
      BY <1>0, <2>1, <2>3, <3>6
    <3> QED
      BY <1>0, <2>1, <3>4, <3>5, <3>7
  <2> QED
    BY <2>2, <2>3
<1>6. ASSUME NEW q \in PropertyNames, NEW raw \in PropertyChoices[q], PublishProperty(q, raw)
      PROVE  /\ retainedProperty'[p] = first
             /\ \A i \in DOMAIN propertyQ'[p] : propertyQ'[p][i] = first
             /\ phase' \notin {"down", "properties"} => properties'[p] = class
  <2>1. p # q
    BY <1>6 DEF Steady
  <2>2. /\ UNCHANGED <<phase, properties>> /\ retainedProperty'[p] = retainedProperty[p]
        /\ propertyQ'[p] = propertyQ[p]
    BY <1>0, <1>6, <2>1 DEF PublishProperty, loading
  <2> QED
    BY <1>0, <2>2
<1>7. CASE Crash
  BY <1>0, <1>7 DEF Crash, others
<1>8. CASE \/ EvaluateAncestor \/ LoadConfig
           \/ \E a \in Alerts : \/ HandleConfig(a) \/ HandleInput(a) \/ HandleState(a)
                                \/ HandleCreated(a) \/ HandleAdded(a) \/ RefreshDefinition(a)
                                \/ SweepSummary(a)
  <2>1. UNCHANGED <<phase, properties, retainedProperty, propertyQ>>
    BY <1>8 DEF EvaluateAncestor, LoadConfig, HandleConfig, HandleInput, HandleState,
       HandleCreated, HandleAdded, RefreshDefinition, SweepSummary, loading, others, feeds
  <2> QED
    BY <1>0, <2>1
<1>9. CASE \/ \E a \in Alerts : \/ \E value \in InputChoices[a] : PublishInput(a, value)
                                \/ \E raw \in ConfigChoices[a] : PublishConfig(a, raw)
                                \/ \E s \in ForeignStates[a] : PublishForeign(a, s)
           \/ \E a \in Acknowledgers : ReadAlert(a) \/ AcknowledgeAlert(a)
           \/ UNCHANGED vars
  <2>1. UNCHANGED <<phase, properties, retainedProperty, propertyQ>>
    BY <1>9 DEF PublishInput, PublishConfig, PublishForeign, WriteState, ReadAlert,
       AcknowledgeAlert, loading, others, feeds, vars
  <2> QED
    BY <1>0, <2>1
<1> HIDE DEF class
<1> QED
  BY <1>1, <1>2, <1>3, <1>4, <1>5, <1>6, <1>7, <1>8, <1>9 DEF Next, Handlers, Environment, class

\* No loop begins before the others have ended.
LEMMA OneLoopStep == OneLoop /\ [Next]_vars => OneLoop'
<1> SUFFICES ASSUME OneLoop, [Next]_vars PROVE OneLoop'
  OBVIOUS
<1>0. /\ queue = <<>> /\ refresh = {} => seen = {}
      /\ sweep.left # {} => queue = <<>> /\ refresh = {}
  BY DEF OneLoop
<1>1. ASSUME sweep.left = {}, UNCHANGED sweep, seen' = {} PROVE OneLoop'
  BY <1>1 DEF OneLoop
<1>2. UNCHANGED handler => OneLoop'
  BY DEF OneLoop, handler
<1>3. ASSUME NEW a, NEW raw, Unlocked, ReconcileConfig(a, raw) PROVE OneLoop'
  BY <1>1, <1>3 DEF Unlocked, ReconcileConfig, RejectConfig, AcceptSummary, AcceptLeaf, Ancestors
<1>4. ASSUME NEW a, NEW incoming, NEW Q, Unlocked, StateArrives(a, incoming, Q) PROVE OneLoop'
  BY <1>1, <1>2, <1>4 DEF Unlocked, StateArrives, ReconcileState, AdoptState, AcknowledgeTree,
     Republish, Ignore, Discard, Ancestors
<1>5. CASE EvaluateAncestor
  BY <1>0, <1>5 DEF EvaluateAncestor, OneLoop
<1>6. ASSUME NEW a \in Alerts, RefreshDefinition(a) PROVE OneLoop'
  BY <1>0, <1>6 DEF RefreshDefinition, OneLoop
<1>7. ASSUME NEW a \in Alerts, SweepSummary(a) PROVE OneLoop'
  BY <1>0, <1>7 DEF SweepSummary, OneLoop
<1>8. CASE BeginSweep
  BY <1>0, <1>8 DEF BeginSweep, OneLoop, Unlocked
<1>9. CASE LoadConfig
  BY <1>2, <1>3, <1>9 DEF LoadConfig, handler
<1>10. ASSUME NEW a \in Alerts, HandleConfig(a) \/ HandleState(a) \/ HandleAdded(a) PROVE OneLoop'
  BY <1>2, <1>3, <1>4, <1>10 DEF HandleConfig, ConfigArrives, HandleState, HandleAdded
<1>11. ASSUME NEW a \in Alerts, HandleInput(a) PROVE OneLoop'
  BY <1>1, <1>2, <1>11 DEF HandleInput, AcceptInput, Unlocked, Ancestors
<1>12. ASSUME NEW p \in PropertyNames, HandleProperty(p) PROVE OneLoop'
  BY <1>0, <1>1, <1>12 DEF HandleProperty, Unlocked
<1>13. CASE Crash
  BY <1>13 DEF Crash, OneLoop, NoSweep
<1>14. CASE \/ LoadStates \/ LoadProperties \/ SubscribeGlobals \/ Environment \/ UNCHANGED vars
            \/ \E a \in Alerts : HandleCreated(a)
  BY <1>2, <1>14 DEF LoadStates, LoadProperties, SubscribeGlobals, Environment, HandleCreated,
     PublishInput, PublishConfig, PublishForeign, WriteState, ReadAlert, AcknowledgeAlert,
     PublishProperty, vars
<1> QED
  BY <1>5, <1>6, <1>7, <1>8, <1>9, <1>10, <1>11, <1>12, <1>13, <1>14 DEF Next, Handlers

\* The part of the invariant that is about summaries in a forest.
ForestInv == ConfigsWritten /\ SteadyClasses /\ OneLoop /\ Follow

\* Every step keeps the alerts current, or goes on to those that are not.
LEMMA FollowStep ==
  ASSUME Forest, ClassesApart, ServiceInv, ServiceInv', AcyclicInv, ForestInv,
         ConfigsWritten', [Next]_vars
  PROVE  Follow'
<1>0. /\ WorkInv /\ WorkInv' /\ InputsTotal /\ NoneDefined /\ Kept /\ Kept' /\ Hooks
      /\ SummariesAcyclic /\ ConfigsWritten /\ ConfigsWritten' /\ SteadyClasses /\ OneLoop
      /\ Follow
  BY DEF ServiceInv, WorkInv, LeavesInv, Inv, AcyclicInv, ForestInv
<1>a. Unlocked => AllCurrent
  BY <1>0, AtRest DEF Unlocked
<1>b. ASSUME \A a \in Alerts : definitions'[a] = Nil PROVE Follow'
  BY <1>b DEF Follow, AllCurrent, Current
<1>c. ASSUME UNCHANGED <<definitions, inputs, properties, states, queue, seen, refresh>>
      PROVE  Follow'
  <2>1. ASSUME NEW x PROVE Current(x) => Current(x)'
    BY <1>c DEF Current
  <2>2. ASSUME NEW x, NEW s PROVE Behind(x, s) => Behind(x, s)'
    BY <1>c DEF Behind
  <2>3. AllCurrent => AllCurrent'
    BY <2>1 DEF AllCurrent
  <2>4. OneLeaf => OneLeaf'
    BY <1>c, <2>1 DEF OneLeaf
  <2>5. Climbing => Climbing'
    BY <1>c, <2>1, <2>2 DEF Climbing, Upward
  <2> QED
    BY <1>0, <2>3, <2>4, <2>5 DEF Follow
<1>1. CASE LoadConfig \/ \E a \in Alerts : HandleConfig(a)
  <2>1. FeedsOK
    BY <1>0 DEF WorkInv, Inv
  <2>2. AlertsSame /\ UNCHANGED properties => Follow'
    BY <1>c DEF AlertsSame, graph, handler
  <2>3. ASSUME NEW a \in Alerts, NEW raw \in Offered(a), ReconcileConfig(a, raw), Unlocked,
               UNCHANGED properties
        PROVE  Follow'
    BY <1>0, <1>a, <2>3, FollowConfig DEF Offered
  <2> QED
    BY <1>1, <2>1, <2>2, <2>3, ConfigTaken
<1>3. CASE Crash
  BY <1>3, <1>b DEF Crash
<1>4. CASE LoadStates \/ LoadProperties
  BY <1>0, <1>4, <1>b DEF LoadStates, LoadProperties, NoneDefined, graph
<1>5. CASE EvaluateAncestor
  BY <1>0, <1>5, FollowAncestor
<1>6. ASSUME NEW p \in PropertyNames, HandleProperty(p) PROVE Follow'
  BY <1>0, <1>6, <1>a, FollowProperty DEF HandleProperty
<1>7. ASSUME NEW a \in Alerts, HandleInput(a) PROVE Follow'
  BY <1>0, <1>7, <1>a, FollowInput DEF HandleInput
<1>8. ASSUME NEW a \in Alerts, HandleState(a) \/ HandleAdded(a) PROVE Follow'
  <2>1. UNCHANGED <<definitions, inputs, parents, properties, refresh>>
    BY <1>8 DEF HandleState, HandleAdded, StateArrives, ReconcileState, AdoptState, AcknowledgeTree,
       Republish, Ignore, Discard, Ancestors, graph, handler
  <2>2. PICK incoming, Q : Unlocked /\ StateArrives(a, incoming, Q)
    BY <1>8 DEF HandleState, HandleAdded
  <2> QED
    BY <1>0, <1>a, <2>1, <2>2, FollowState
<1>9. ASSUME NEW a \in Alerts, RefreshDefinition(a) PROVE Follow'
  BY <1>0, <1>9, FollowRefresh
<1>10. ASSUME NEW a \in Alerts, SweepSummary(a) PROVE Follow'
  BY <1>0, <1>10, FollowSweep
<1>11. CASE BeginSweep \/ SubscribeGlobals \/ \E a \in Alerts : HandleCreated(a)
  BY <1>11, <1>c DEF BeginSweep, SubscribeGlobals, HandleCreated, graph, handler
<1>12. CASE Environment \/ UNCHANGED vars
  <2>1. UNCHANGED <<definitions, inputs, properties, states, queue, seen, refresh>>
    BY <1>12 DEF Environment, PublishInput, PublishConfig, PublishForeign, WriteState,
       ReadAlert, AcknowledgeAlert, PublishProperty, graph, handler, vars
  <2> QED
    BY <1>c, <2>1
<1> QED
  BY <1>1, <1>3, <1>4, <1>5, <1>6, <1>7, <1>8, <1>9, <1>10, <1>11, <1>12
  DEF Next, Handlers

\* In every reachable state.
LEMMA ForestInvariance ==
  ASSUME Forest, ClassesApart
  PROVE  Spec => [](ServiceInv /\ AcyclicInv /\ ForestInv)
<1>1. Init => AcyclicInv
  BY DEF Init, AcyclicInv, SummariesAcyclic, SummaryCycle, IsSummary
<1>2. ServiceInv => loaded \in Nat
  BY DEF ServiceInv, WorkInv, Inv, FeedsOK
<1>3. Init => ForestInv
  <2> SUFFICES ASSUME Init PROVE ForestInv
    OBVIOUS
  <2>1. ConfigsWritten
    BY WrittenInit
  <2>2. SteadyClasses
    BY DEF Init, SteadyClasses
  <2>3. OneLoop
    BY DEF Init, OneLoop, NoSweep
  <2>4. Follow
    BY DEF Init, Follow, AllCurrent, Current
  <2> QED
    BY <2>1, <2>2, <2>3, <2>4 DEF ForestInv
<1>4. ServiceInv /\ ServiceInv' /\ AcyclicInv /\ ForestInv /\ [Next]_vars => ForestInv'
  <2> SUFFICES ASSUME ServiceInv, ServiceInv', AcyclicInv, ForestInv, [Next]_vars
               PROVE  ForestInv'
    OBVIOUS
  <2>1. ConfigsWritten' /\ SteadyClasses' /\ OneLoop'
    BY WrittenStep, SteadyStep, OneLoopStep DEF ServiceInv, ForestInv
  <2>2. Follow'
    BY <2>1, FollowStep
  <2> QED
    BY <2>1, <2>2 DEF ForestInv
<1> QED
  BY <1>1, <1>2, <1>3, <1>4, ServiceInvariance, AcyclicStep, PTL DEF Spec

\* Where nobody puts an alert into two summaries or changes a class that two
\* alerts use, a summary of known members is active, whenever reconcileMu is
\* free, exactly when a member is, and shows the member the priorities select:
\* evaluateAncestorsLocked needs no second visit, and no acknowledgement,
\* foreign state, config update or restart leaves a summary behind.
THEOREM SummariesFollow ==
  ASSUME Forest, ClassesApart
  PROVE  Spec => []SummaryFollowsMembers
<1>1. ServiceInv /\ ForestInv => SummaryFollowsMembers
  <2> SUFFICES ASSUME ServiceInv, ForestInv, Unlocked, NEW a \in Summaries, Known(a)
               PROVE  LET e == EvaluateSummary(definitions[a], states)
                      IN  /\ states[a] # Nil
                          /\ states[a].active = e.active
                          /\ e.active => /\ states[a].dominant = e.dominant
                                         /\ states[a].presentation = e.presentation
    BY DEF SummaryFollowsMembers
  <2> DEFINE c == definitions[a]
             e == EvaluateSummary(c, states)
  <2>1. /\ a \in Alerts /\ IsSummary(c) /\ c \in Config /\ DefinitionValid(c, a)
        /\ ValidStates(states) /\ properties \in [PropertyNames -> Properties \cup {Nil}]
    BY DEF Summaries, IsSummary, ServiceInv, WorkInv, Inv, Kept, DefinitionsOK, DefinitionValid,
       PropertiesOK
  <2>2. e # Nil
    BY <2>1, SummaryFails DEF Known
  <2>3. Result(c, inputs[a], properties, states) = e
    BY <2>1, <2>2 DEF Result, Evaluate, IsSummary
  <2>4. e \in Evaluation
    BY <2>1, <2>3, ResultTyped
  <2>5. Alike(states[a], e)
    <3>1. Current(a)
      BY <2>1, AtRest DEF ForestInv, Unlocked, AllCurrent
    <3>2. c # Nil /\ ~Unevaluable(c, inputs[a])
      BY <2>1 DEF IsSummary, Unevaluable
    <3> QED
      BY <2>3, <3>1, <3>2 DEF Current
  <2>6. states[a] \in State \cup {Nil}
    BY <2>1 DEF ValidStates
  <2> HIDE DEF e
  <2>7. states[a] # Nil /\ states[a] \in State
    BY <2>2, <2>5, <2>6 DEF Alike
  <2>8. states[a].active = e.active
    BY <2>4, <2>5, <2>7 DEF Alike, State, Evaluation
  <2> QED
    BY <2>5, <2>7, <2>8 DEF Alike, e
<1> QED
  BY <1>1, ForestInvariance, PTL

-----------------------------------------------------------------------------
(* Summaries cover what their members wait for.  The loops are those that  *)
(* keep a summary current; what they may leave out is now a summary that   *)
(* is not pending above a member that is.                                  *)

\* A state whose acknowledgement could still be given.
Awaits(s) == s # Nil /\ s.pending /\ s.episode # 0

\* Summary a is pending while a member waits for an acknowledgement.
Covered(a) ==
    IsSummary(definitions[a]) /\ Known(a) =>
        \A m \in MemberSet(definitions[a]) :
            Awaits(states[m]) => states[a] # Nil /\ states[a].pending

\* No alert that a loop still has to visit excepted.
AllCovered == \A a \in Alerts : Covered(a)
Cover == AllCovered \/ (Upward /\ \A a \in Alerts : Covered(a) \/ Listed(queue, a))

\* What evaluateDefinitionLocked does to the pending flag and the episode.
LEMMA EvaluatePending ==
  ASSUME EpisodesOK, PropertiesOK, NEW a \in Alerts, NEW c, NEW input,
         DefinitionValid(c, a), ~Unevaluable(c, input),
         NEW base, ValidStates(base), NEW W, NEW Q,
         EvaluateDefinition(a, c, input, base, properties, W, Q)
  PROVE  LET f == Result(c, input, properties, base)
         IN  /\ states'[a] # Nil
             /\ f.pending => states'[a].pending
             /\ base[a] # Nil /\ (f.active <=> base[a].active) =>
                    /\ states'[a].pending <=> base[a].pending \/ f.pending
                    /\ states'[a].episode = base[a].episode
<1> DEFINE f == Result(c, input, properties, base)
           next == ApplyEvaluation(base[a], f, episodes[a] + 1)
<1>1. Apply(a, f, base, W, Q)
  BY DEF EvaluateDefinition, Result
<1>2. f \in Evaluation /\ Sane(f) /\ f # Nil
  BY ResultTyped DEF PropertiesOK
<1>3. base[a] \in State \cup {Nil} /\ (base[a] # Nil => Validate(base[a]))
      /\ episodes[a] + 1 \in Nat \ {0}
  BY DEF ValidStates, EpisodesOK
<1> HIDE DEF f
<1>4. next # Nil
  BY <1>2, <1>3, ApplyNeverRefuses
<1>5. next = Lifecycle(base[a], f, episodes[a] + 1)
  BY <1>4 DEF ApplyEvaluation
<1>6. /\ f.pending => next.pending
      /\ base[a] # Nil /\ (f.active <=> base[a].active) =>
            /\ next.pending <=> base[a].pending \/ f.pending
            /\ next.episode = base[a].episode
  <2> DEFINE prev == IF base[a] = Nil THEN ZeroState ELSE base[a]
             starting == f.active /\ ~prev.active
  <2>1. /\ starting =>
            /\ next.episode = episodes[a] + 1
            /\ next.pending <=> \/ f.pending
                                \/ f.presentation.requiresAck /\ ~f.acknowledged
        /\ ~starting => /\ next.episode = prev.episode
                        /\ next.pending <=> prev.pending \/ f.pending
    BY <1>5, LifecyclePending
  <2>2. base[a] # Nil => prev = base[a]
    OBVIOUS
  <2> HIDE DEF prev, next
  <2> QED
    BY <2>1, <2>2
<1>7. states' = [base EXCEPT ![a] = next]
  BY <1>1, <1>4 DEF Apply
<1> HIDE DEF next
<1>8. states'[a] = next
  BY <1>7 DEF ValidStates
<1> QED
  BY <1>4, <1>6, <1>8 DEF f

\* A summary of known members evaluates to pending exactly when one of them is;
\* everything else evaluates to not pending.
LEMMA ResultPending ==
  ASSUME NEW a, NEW c, DefinitionValid(c, a), NEW input, NEW props,
         NEW st, ValidStates(st)
  PROVE  Result(c, input, props, st).pending <=>
            /\ IsSummary(c)
            /\ \A m \in MemberSet(c) : st[m] # Nil
            /\ \E m \in MemberSet(c) : st[m].pending
<1> DEFINE e == Evaluate(c, input, props, st)
<1>0. c \in Config /\ c # Nil /\ Inactive.pending = FALSE
  BY GarbageAssumption DEF DefinitionValid, Inactive
<1>1. Result(c, input, props, st) = IF e = Nil THEN Inactive ELSE e
  BY DEF Result
<1>2. CASE IsSummary(c)
  <2>1. e = EvaluateSummary(c, st)
    BY <1>2 DEF Evaluate, IsSummary
  <2>2. e = Nil <=> \E m \in MemberSet(c) : st[m] = Nil
    BY <1>0, <2>1, SummaryFails
  <2>3. ASSUME e # Nil PROVE e.pending <=> \E m \in MemberSet(c) : st[m].pending
    <3> DEFINE raised == {m \in MemberSet(c) : Raising(st[m])}
    <3>1. ~\E m \in MemberSet(c) : st[m] = Nil \/ ~Validate(st[m])
      BY <2>1, <2>3 DEF EvaluateSummary
    <3>2. CASE raised = {}
      <4>1. e = Inactive
        BY <2>1, <3>1, <3>2 DEF EvaluateSummary
      <4> QED
        BY <1>0, <3>2, <4>1 DEF Raising
    <3>3. CASE raised # {}
      <4> DEFINE top == {m \in raised : \A x \in raised : ~Dominates(st[x], st[m])}
                 first == CHOOSE i \in DOMAIN c.members :
                            /\ c.members[i] \in top
                            /\ \A j \in DOMAIN c.members : c.members[j] \in top => i <= j
                 pending == \E m \in raised : st[m].pending
      <4>1. e = [active |-> \E m \in raised : st[m].active,
                 pending |-> pending,
                 acknowledged |-> ~pending,
                 presentation |-> st[c.members[first]].presentation,
                 dominant |-> c.members[first],
                 members |-> raised]
        BY <2>1, <3>1, <3>3 DEF EvaluateSummary
      <4>2. pending <=> \E m \in MemberSet(c) : st[m].pending
        BY DEF Raising
      <4> HIDE DEF raised, first, pending
      <4> QED
        BY <4>1, <4>2
    <3> QED
      BY <3>2, <3>3
  <2> QED
    BY <1>0, <1>1, <1>2, <2>2, <2>3
<1>3. CASE ~IsSummary(c)
  <2>1. e = Nil \/ e.pending = FALSE
    BY <1>0, <1>3 DEF Evaluate, EvaluateBinary, EvaluateValue, Raised, Good, Inactive,
       IsSummary, Config
  <2> QED
    BY <1>0, <1>1, <1>3, <2>1
<1> QED
  BY <1>2, <1>3

\* A step that keeps the pending flag of a summary, and makes no member wait that
\* did not, keeps the summary covered.
LEMMA CoveredKept ==
  ASSUME NEW x \in Alerts, Covered(x), definitions'[x] = definitions[x],
         states[x] # Nil /\ states[x].pending => states'[x] # Nil /\ states'[x].pending,
         \A m \in MemberSet(definitions[x]) :
            /\ states'[m] # Nil => states[m] # Nil
            /\ Awaits(states'[m]) => Awaits(states[m])
  PROVE  Covered(x)'
<1> SUFFICES ASSUME IsSummary(definitions[x]), \A m \in MemberSet(definitions[x]) : states'[m] # Nil,
                    NEW m \in MemberSet(definitions[x]), Awaits(states'[m])
             PROVE  states'[x] # Nil /\ states'[x].pending
  BY DEF Covered, Known, Awaits
<1>1. Known(x)
  BY DEF Known
<1>2. Awaits(states[m])
  OBVIOUS
<1> QED
  BY <1>1, <1>2 DEF Covered

\* Only a summary needs covering.
LEMMA CoveredOthers ==
  ASSUME NEW x \in Alerts, ~IsSummary(definitions'[x])
  PROVE  Covered(x)'
  BY DEF Covered

\* An alert that is evaluated is covered afterwards.
LEMMA CoveredEvaluated ==
  ASSUME Kept, NEW a \in Alerts, NEW c, NEW input, DefinitionValid(c, a),
         NEW base, ValidStates(base), NEW W, NEW Q,
         EvaluateDefinition(a, c, input, base, properties, W, Q), definitions'[a] = c
  PROVE  Covered(a)'
<1> SUFFICES ASSUME IsSummary(c), \A m \in MemberSet(c) : states'[m] # Nil,
                    NEW m \in MemberSet(c), Awaits(states'[m])
             PROVE  states'[a] # Nil /\ states'[a].pending
  BY DEF Covered, Known, Awaits
<1>0. c \in Config /\ EpisodesOK /\ PropertiesOK /\ ~Unevaluable(c, input)
  BY DEF DefinitionValid, Kept, IsSummary, Unevaluable
<1>1. ASSUME NEW y \in MemberSet(c) PROVE y \in Alerts /\ states'[y] = base[y]
  <2>1. y \in Alerts /\ y # a
    BY <1>0, <1>1, MembersFinite DEF DefinitionValid, ValidConfig, ValidMembers, MemberSet,
       IsSummary
  <2> QED
    BY <2>1, EvaluateOthers
<1>2. Result(c, input, properties, base).pending
  BY <1>1, ResultPending DEF Awaits
<1> QED
  BY <1>0, <1>2, EvaluatePending

\* A step that changes alert a leaves the summaries covered that a is no
\* member of.
LEMMA UncoverOne ==
  ASSUME Kept, Hooks', NEW a \in Alerts, NEW x \in Alerts, x # a, Covered(x),
         definitions'[x] = definitions[x],
         states[x] # Nil /\ states[x].pending => states'[x] # Nil /\ states'[x].pending,
         \A m \in MemberSet(definitions[x]) : m # a => states'[m] = states[m]
  PROVE  Covered(x)' \/ Listed(parents'[a], x)
<1>1. CASE IsSummary(definitions[x]) /\ a \in MemberSet(definitions[x])
  BY <1>1 DEF Hooks
<1>2. CASE IsSummary(definitions[x]) /\ a \notin MemberSet(definitions[x])
  BY <1>2, CoveredKept
<1>3. CASE ~IsSummary(definitions[x])
  BY <1>3, CoveredOthers
<1> QED
  BY <1>1, <1>2, <1>3

\* Evaluating a current and covered alert again keeps every summary covered: it
\* can only make the alert pending for a member that has no episode, and then no
\* summary is above the alert.
LEMMA CoverAgain ==
  ASSUME WorkInv, NamedBelow, NEW a \in Alerts, Current(a), AllCovered, definitions[a] # Nil,
         NEW input, input = inputs[a] \/ input = NoInput, NEW W, NEW Q,
         EvaluateDefinition(a, definitions[a], input, states, properties, W, Q),
         UNCHANGED definitions
  PROVE  AllCovered'
<1> DEFINE c == definitions[a]
           f == Result(c, input, properties, states)
<1>0. /\ Kept /\ Hooks /\ ValidStates(states) /\ EpisodesOK /\ PropertiesOK /\ DefinitionValid(c, a)
      /\ c \in Config /\ properties \in [PropertyNames -> Properties \cup {Nil}]
  BY DEF WorkInv, Inv, Kept, DefinitionsOK, DefinitionValid, PropertiesOK
<1>1. CASE Unevaluable(c, input)
  <2>1. states' = states
    BY <1>1 DEF EvaluateDefinition
  <2> QED
    BY <2>1 DEF AllCovered, Covered, Known, Summaries
<1>2. CASE ~Unevaluable(c, input)
  <2>1. IsLeaf(c) => input = inputs[a]
    BY <1>0, <1>2, NothingToEvaluate
  <2>2. ~Unevaluable(c, inputs[a])
    BY <1>0, <1>2, <2>1 DEF Unevaluable, IsLeaf
  <2>3. Alike(states[a], Result(c, inputs[a], properties, states))
    BY <2>2 DEF Current
  <2>4. Alike(Result(c, input, properties, states), Result(c, inputs[a], properties, states))
    <3>1. \A m \in MemberSet(c) : Alike(states[m], states[m])
      BY AlikeEquivalence
    <3> QED
      BY <1>0, <2>1, <3>1, SameResults
  <2>5. f # Nil
    BY <1>0, ResultTyped
  <2>6. states[a] # Nil /\ (f.active <=> states[a].active)
    BY <2>3, <2>4, <2>5 DEF Alike
  <2>7. /\ states'[a] # Nil
        /\ states'[a].pending <=> states[a].pending \/ f.pending
        /\ states'[a].episode = states[a].episode
    BY <1>0, <1>2, <2>6, EvaluatePending
  <2>8. \A y \in Alerts : y # a => states'[y] = states[y]
    BY <1>0, EvaluateOthers
  <2>9. ASSUME NEW x \in Alerts PROVE Covered(x)'
    <3>1. CASE x = a
      BY <1>0, <3>1, CoveredEvaluated
    <3>2. CASE x # a /\ ~IsSummary(definitions[x])
      BY <3>2, CoveredOthers
    <3>3. CASE x # a /\ IsSummary(definitions[x])
      <4>1. MemberSet(definitions[x]) \in SUBSET Alerts
        BY <1>0, <3>3, MembersFinite DEF Kept, DefinitionsOK, IsSummary
      <4>2. ASSUME a \in MemberSet(definitions[x]), Awaits(states'[a])
            PROVE  Awaits(states[a])
        <5> SUFFICES ASSUME f.pending PROVE states[a].pending
          BY <2>6, <2>7, <4>2 DEF Awaits
        <5>1. IsSummary(c) /\ \A m \in MemberSet(c) : states[m] # Nil
          BY <1>0, ResultPending
        <5>2. PICK m \in MemberSet(c) : states[m].pending
          BY <1>0, ResultPending
        <5>3. Awaits(states[m])
          BY <3>3, <4>2, <5>1, <5>2 DEF NamedBelow, Summaries, Awaits
        <5> QED
          BY <5>1, <5>3 DEF AllCovered, Covered, Known
      <4>3. \A m \in MemberSet(definitions[x]) :
                /\ states'[m] # Nil => states[m] # Nil
                /\ Awaits(states'[m]) => Awaits(states[m])
        BY <2>6, <2>8, <4>1, <4>2
      <4> QED
        BY <2>8, <3>3, <4>3, CoveredKept DEF AllCovered
    <3> QED
      BY <3>1, <3>2, <3>3
  <2> QED
    BY <2>9 DEF AllCovered
<1> QED
  BY <1>1, <1>2

\* With no work in hand every summary is covered.
LEMMA CoverAtRest ==
  ASSUME Cover, queue = <<>>
  PROVE  AllCovered
<1>1. ASSUME NEW a \in Alerts PROVE ~Listed(queue, a)
  BY DEF Listed
<1> QED
  BY <1>1 DEF Cover, AllCovered

\* evaluateDefinitionLocked leaves alert a covered, and the others but for its
\* parents.
LEMMA CoverOne ==
  ASSUME Kept, Hooks', NEW a \in Alerts, definitions[a] # Nil, NEW input, NEW W, NEW Q,
         EvaluateDefinition(a, definitions[a], input, states, properties, W, Q),
         UNCHANGED definitions, NEW x \in Alerts, x # a => Covered(x)
  PROVE  Covered(x)' \/ Listed(parents'[a], x)
<1>0. DefinitionValid(definitions[a], a) /\ ValidStates(states)
  BY DEF Kept, DefinitionsOK, DefinitionValid
<1>1. CASE x = a
  BY <1>0, <1>1, CoveredEvaluated
<1>2. CASE x # a
  <2>1. \A y \in Alerts : y # a => states'[y] = states[y]
    BY <1>0, EvaluateOthers
  <2>2. CASE IsSummary(definitions[x])
    <3>1. MemberSet(definitions[x]) \in SUBSET Alerts
      BY <2>2, MembersFinite DEF Kept, DefinitionsOK, IsSummary
    <3> QED
      BY <1>2, <2>1, <3>1, UncoverOne
  <2>3. CASE ~IsSummary(definitions[x])
    BY <2>3, CoveredOthers
  <2> QED
    BY <2>2, <2>3
<1> QED
  BY <1>1, <1>2

\* The same for a handler that goes on with the parents.
LEMMA CoverUp ==
  ASSUME Forest, Hooks', ConfigsWritten', NEW a \in Alerts, refresh' = {},
         queue' = parents'[a], seen' = {},
         \A x \in Alerts : Covered(x)' \/ Listed(parents'[a], x)
  PROVE  Cover'
  BY UpwardFrom DEF Cover

\* handleInput.
LEMMA CoverInput ==
  ASSUME Forest, WorkInv, WorkInv', ConfigsWritten', AllCovered, NEW a \in Alerts, HandleInput(a)
  PROVE  Cover'
<1>0. /\ Kept /\ Hooks' /\ refresh = {} /\ UNCHANGED <<definitions, parents>>
  BY DEF WorkInv, Inv, HandleInput, Unlocked
<1>1. CASE IsLeaf(definitions[a])
  <2>1. /\ EvaluateDefinition(a, definitions[a], Head(inputQ[a]), states, properties,
                              watched, inbox)
        /\ queue' = parents'[a] /\ seen' = {} /\ refresh' = {}
    BY <1>0, <1>1 DEF HandleInput, AcceptInput, Ancestors
  <2>2. definitions[a] # Nil
    BY <1>1 DEF IsLeaf
  <2>3. ASSUME NEW x \in Alerts PROVE Covered(x)' \/ Listed(parents'[a], x)
    BY <1>0, <2>1, <2>2, CoverOne DEF AllCovered
  <2> QED
    BY <1>0, <2>1, <2>3, CoverUp
<1>2. CASE ~IsLeaf(definitions[a])
  <2>1. UNCHANGED states
    BY <1>2 DEF HandleInput, AcceptInput
  <2> QED
    BY <1>0, <2>1 DEF Cover, AllCovered, Covered, Known
<1> QED
  BY <1>1, <1>2

\* One iteration of the loop of reconcilePropertyLocked.
LEMMA CoverRefresh ==
  ASSUME Forest, WorkInv, WorkInv', ConfigsWritten', Follow, Cover, NamedBelow,
         NEW a \in Alerts, RefreshDefinition(a)
  PROVE  Cover'
<1>0. /\ Kept /\ Hooks' /\ UNCHANGED <<definitions, parents>>
      /\ EvaluateDefinition(a, definitions[a], inputs[a], states, properties, watched, inbox)
      /\ a \in refresh /\ refresh' = refresh \ {a} /\ queue' = parents'[a]
      /\ seen' = IF refresh' = {} /\ queue' = <<>> THEN {} ELSE seen
  BY DEF WorkInv, Inv, RefreshDefinition, graph
<1>1. definitions[a] # Nil
  BY <1>0 DEF WorkInv, Inv, LoopsOK, Defined
<1>2. AllCovered
  BY <1>0 DEF Cover, Upward
<1>3. CASE AllCurrent
  <2>1. Current(a)
    BY <1>3 DEF AllCurrent
  <2> QED
    BY <1>0, <1>1, <1>2, <2>1, CoverAgain DEF Cover
<1>4. CASE OneLeaf
  <2>1. refresh' = {} /\ seen' = {}
    BY <1>0, <1>4 DEF OneLeaf
  <2>2. ASSUME NEW x \in Alerts PROVE Covered(x)' \/ Listed(parents'[a], x)
    BY <1>0, <1>1, <1>2, CoverOne DEF AllCovered
  <2> QED
    BY <1>0, <2>1, <2>2, CoverUp
<1> QED
  BY <1>0, <1>3, <1>4 DEF Follow, Climbing, Upward

\* One summary of the sweep.
LEMMA CoverSweep ==
  ASSUME WorkInv, OneLoop, Follow, Cover, NamedBelow, NEW a \in Alerts, SweepSummary(a)
  PROVE  Cover'
<1>0. /\ UNCHANGED definitions /\ a \in sweep.left
      /\ EvaluateDefinition(a, definitions[a], NoInput, states, properties, watched, inbox)
  BY DEF SweepSummary, graph
<1>1. definitions[a] # Nil
  BY <1>0 DEF WorkInv, Inv, LoopsOK, Defined
<1>2. Current(a) /\ AllCovered
  BY <1>0, AtRest, CoverAtRest DEF OneLoop, AllCurrent
<1> QED
  BY <1>0, <1>1, <1>2, CoverAgain DEF Cover

\* One iteration of evaluateAncestorsLocked.
LEMMA CoverAncestor ==
  ASSUME Forest, SummariesAcyclic, WorkInv, WorkInv', ConfigsWritten', Follow, Cover,
         NamedBelow, EvaluateAncestor
  PROVE  Cover'
<1>0. /\ Kept /\ Hooks' /\ UNCHANGED definitions /\ queue # <<>> /\ queue \in Seq(Alerts)
  BY DEF WorkInv, Inv, EvaluateAncestor, graph, Subjects
<1>1. CASE Upward
  <2>1. PICK s \in Alerts :
            /\ IsSummary(definitions[s])
            /\ \A x \in Alerts : Listed(queue, x) => x = s
            /\ EvaluateDefinition(s, definitions[s], NoInput, states, properties,
                                  watched, inbox)
            /\ queue' = parents'[s] /\ Upward'
    BY <1>1, UpwardStep
  <2>2. ASSUME NEW x \in Alerts PROVE Covered(x)' \/ Listed(queue', x)
    <3>1. definitions[s] # Nil /\ (x # s => Covered(x))
      BY <2>1 DEF IsSummary, Cover, AllCovered
    <3> QED
      BY <1>0, <2>1, <3>1, CoverOne
  <2> QED
    BY <2>1, <2>2 DEF Cover
<1>2. CASE ~Upward
  <2>1. AllCovered /\ AllCurrent
    BY <1>0, <1>2 DEF Cover, Follow, Climbing, OneLeaf
  <2> DEFINE s == Head(queue)
             fresh == s \notin seen /\ definitions[s] # Nil
  <2>2. s \in Alerts
    BY <1>0
  <2>3. /\ fresh => EvaluateDefinition(s, definitions[s], NoInput, states, properties,
                                       watched, inbox)
        /\ ~fresh => UNCHANGED states
    BY DEF EvaluateAncestor
  <2> HIDE DEF s
  <2>4. CASE fresh
    <3>1. Current(s)
      BY <2>1, <2>2 DEF AllCurrent
    <3> QED
      BY <1>0, <2>1, <2>2, <2>3, <2>4, <3>1, CoverAgain DEF Cover
  <2>5. CASE ~fresh
    BY <1>0, <2>1, <2>3, <2>5 DEF Cover, AllCovered, Covered, Known
  <2> QED
    BY <2>4, <2>5
<1> QED
  BY <1>1, <1>2

\* acknowledgeTreeLocked: a summary is acknowledged together with the members
\* that wait.
LEMMA CoverAcknowledge ==
  ASSUME WorkInv, AllCovered, NEW a \in Alerts, NEW Q, AcknowledgeTree(a, Q),
         UNCHANGED definitions
  PROVE  AllCovered'
<1> DEFINE done == {x \in AckTree(a) : states[x] # Nil /\ Acknowledgeable(states[x])}
<1>0. states \in [Alerts -> State \cup {Nil}]
      /\ (\A x \in Alerts : states[x] # Nil => Validate(states[x]))
      /\ \A x \in Alerts : IsSummary(definitions[x]) => MemberSet(definitions[x]) \in SUBSET Alerts
  BY MembersFinite DEF WorkInv, Inv, Kept, ValidStates, DefinitionsOK, IsSummary
<1>1. states' = [x \in Alerts |-> IF x \in done THEN Acknowledge(states[x]) ELSE states[x]]
  BY DEF AcknowledgeTree
<1>2. ASSUME NEW x \in Alerts, x \in done
      PROVE  states'[x] # Nil /\ ~states'[x].pending
  <2> DEFINE s == states[x]
  <2>1. states'[x] = [s EXCEPT !.pending = FALSE, !.acknowledged = TRUE, !.ack = TRUE]
    BY <1>1, <1>2 DEF Acknowledge
  <2>2. s \in State
    BY <1>0, <1>2
  <2> HIDE DEF s
  <2>3. states'[x] \in State /\ ~states'[x].pending
    BY <2>1, <2>2 DEF State
  <2> QED
    BY <2>3, NilIsNoRecord
<1>3. ASSUME NEW x \in Alerts, x \notin done PROVE states'[x] = states[x]
  BY <1>1, <1>3
<1> HIDE DEF done
<1>4. ASSUME NEW x \in Alerts PROVE Covered(x)'
  <2> SUFFICES ASSUME IsSummary(definitions[x]),
                      \A m \in MemberSet(definitions[x]) : states'[m] # Nil,
                      NEW m \in MemberSet(definitions[x]), Awaits(states'[m])
               PROVE  states'[x] # Nil /\ states'[x].pending
    BY DEF Covered, Known, Awaits
  <2>1. m \in Alerts /\ m \notin done /\ Awaits(states[m])
    BY <1>0, <1>2, <1>3 DEF Awaits
  <2>2. Known(x)
    BY <1>0, <1>3 DEF Known, done
  <2>3. states[x] # Nil /\ states[x].pending
    BY <2>1, <2>2 DEF AllCovered, Covered
  <2>4. x \notin done
    <3> SUFFICES ASSUME x \in AckTree(a) PROVE m \in done
      BY <2>1 DEF done
    <3>1. m \in AckTree(a)
      BY <2>1 DEF AckTree, Awaits, Raising
    <3> QED
      BY <1>0, <2>1, <3>1 DEF done, Awaits, Acknowledgeable
  <2> QED
    BY <1>3, <2>3, <2>4
<1> QED
  BY <1>4 DEF AllCovered

\* A summary has a state as soon as it is current.
LEMMA CurrentState ==
  ASSUME Kept, NEW a \in Alerts, Current(a), IsSummary(definitions[a])
  PROVE  states[a] # Nil
<1>1. DefinitionValid(definitions[a], a) /\ ValidStates(states)
      /\ properties \in [PropertyNames -> Properties \cup {Nil}]
  BY DEF Kept, DefinitionsOK, DefinitionValid, PropertiesOK, IsSummary
<1>2. Result(definitions[a], inputs[a], properties, states) # Nil
  BY <1>1, ResultTyped
<1>3. definitions[a] # Nil /\ ~Unevaluable(definitions[a], inputs[a])
  BY DEF IsSummary, Unevaluable
<1> QED
  BY <1>2, <1>3 DEF Current, Alike

\* A state message: the alert that takes another state is no summary that is
\* current, and its parents follow.
LEMMA CoverState ==
  ASSUME Forest, WorkInv, WorkInv', ConfigsWritten', Unlocked, AllCurrent, AllCovered,
         NEW a \in Alerts, NEW incoming, NEW Q, StateArrives(a, incoming, Q),
         UNCHANGED <<definitions, parents, refresh>>
  PROVE  Cover'
<1>0. Kept /\ Hooks' /\ states \in [Alerts -> State \cup {Nil}] /\ refresh' = {}
  BY DEF WorkInv, Inv, Kept, ValidStates, Unlocked
<1>1. CASE AcknowledgeTree(a, Q)
  BY <1>1, CoverAcknowledge DEF Cover
<1>2. CASE UNCHANGED states
  BY <1>2 DEF Cover, AllCovered, Covered, Known
<1>3. CASE /\ states' = [states EXCEPT ![a] = incoming]
           /\ definitions[a] = Nil \/ states[a] = Nil
           /\ Ancestors(parents[a])
  <2>1. ~IsSummary(definitions[a])
    BY <1>0, <1>3, CurrentState DEF AllCurrent, IsSummary
  <2>2. \A x \in Alerts : x # a => states'[x] = states[x]
    BY <1>0, <1>3
  <2>3. ASSUME NEW x \in Alerts PROVE Covered(x)' \/ Listed(parents'[a], x)
    <3>1. CASE x = a \/ ~IsSummary(definitions[x])
      BY <2>1, <3>1, CoveredOthers
    <3>2. CASE x # a /\ IsSummary(definitions[x])
      <4>1. MemberSet(definitions[x]) \in SUBSET Alerts
        BY <1>0, <3>2, MembersFinite DEF Kept, DefinitionsOK, IsSummary
      <4> QED
        BY <1>0, <2>2, <3>2, <4>1, UncoverOne DEF AllCovered
    <3> QED
      BY <3>1, <3>2
  <2>4. queue' = parents'[a] /\ seen' = {}
    BY <1>3 DEF Ancestors
  <2> QED
    BY <1>0, <2>3, <2>4, CoverUp
<1> QED
  BY <1>1, <1>2, <1>3 DEF StateArrives, ReconcileState, AdoptState, Republish, Ignore, Discard

\* reconcileConfigLocked.
LEMMA CoverConfig ==
  ASSUME Forest, WorkInv, WorkInv', ConfigsWritten', Unlocked, AllCurrent, AllCovered,
         NEW a \in Alerts, NEW raw \in Config \cup {Garbage}, ReconcileConfig(a, raw)
  PROVE  Cover'
<1>0. /\ Kept /\ Kept' /\ Hooks' /\ ValidStates(states)
      /\ definitions \in [Alerts -> Config \cup {Nil}] /\ refresh' = {} /\ seen' = {}
  BY DEF WorkInv, Inv, Kept, DefinitionsOK, Unlocked, ReconcileConfig, RejectConfig,
     AcceptSummary, AcceptLeaf, Ancestors
<1>1. PICK c : definitions' = [definitions EXCEPT ![a] = c]
  BY DEF ReconcileConfig, RejectConfig, AcceptSummary, AcceptLeaf
<1>2. /\ definitions'[a] = c
      /\ \A x \in Alerts : x # a => definitions'[x] = definitions[x]
  BY <1>0, <1>1
<1>3. ASSUME NEW x \in Alerts, IsSummary(definitions[x])
      PROVE  MemberSet(definitions[x]) \in SUBSET Alerts
  BY <1>0, <1>3, MembersFinite DEF IsSummary
<1>4. ASSUME \A x \in Alerts : x # a => states'[x] = states[x]
      PROVE  \A x \in Alerts : x # a => Covered(x)' \/ Listed(parents'[a], x)
  <2> SUFFICES ASSUME NEW x \in Alerts, x # a PROVE Covered(x)' \/ Listed(parents'[a], x)
    OBVIOUS
  <2>1. CASE ~IsSummary(definitions[x])
    BY <1>2, <2>1, CoveredOthers
  <2>2. CASE IsSummary(definitions[x])
    BY <1>0, <1>2, <1>3, <1>4, <2>2, UncoverOne DEF AllCovered
  <2> QED
    BY <2>1, <2>2
<1>5. CASE RejectConfig(a, raw)
  <2>1. definitions'[a] = Nil /\ queue' = parents'[a]
    BY <1>0, <1>5 DEF RejectConfig, Ancestors
  <2>2. Covered(a)'
    BY <2>1, CoveredOthers DEF IsSummary
  <2>3. \A x \in Alerts : x # a => states'[x] = states[x]
    <3> DEFINE next == ApplyEvaluation(states[a], Inactive, episodes[a] + 1)
    <3>1. states' = states \/ states' = [states EXCEPT ![a] = next]
      BY <1>5 DEF RejectConfig, Apply
    <3> HIDE DEF next
    <3> QED
      BY <1>0, <3>1 DEF ValidStates
  <2>4. \A x \in Alerts : Covered(x)' \/ Listed(parents'[a], x)
    BY <1>4, <2>2, <2>3
  <2> QED
    BY <1>0, <2>1, <2>4, CoverUp
<1>6. ASSUME Accepted(raw, a) PROVE DefinitionValid(raw, a) /\ raw # Nil
  BY <1>6, GarbageAssumption DEF Accepted, Enabled, DefinitionValid
<1>7. CASE AcceptLeaf(a, raw)
  <2>1. PICK W, input : /\ EvaluateDefinition(a, raw, input, states, properties, W, inbox)
                        /\ queue' = IF input = NoInput THEN <<>> ELSE parents'[a]
    BY <1>7 DEF AcceptLeaf, Ancestors
  <2>2. DefinitionValid(raw, a) /\ definitions'[a] = raw /\ raw \in Config /\ IsLeaf(raw)
    BY <1>0, <1>6, <1>7 DEF AcceptLeaf, DefinitionValid
  <2>3. \A x \in Alerts : x # a => states'[x] = states[x]
    BY <1>0, <2>1, <2>2, EvaluateOthers
  <2>4. Covered(a)'
    BY <2>2, CoveredOthers DEF IsLeaf, IsSummary
  <2>5. CASE input # NoInput
    <3>1. \A x \in Alerts : Covered(x)' \/ Listed(parents'[a], x)
      BY <1>4, <2>3, <2>4
    <3> QED
      BY <1>0, <2>1, <2>5, <3>1, CoverUp
  <2>6. CASE input = NoInput
    <3>1. states' = states
      BY <2>1, <2>2, <2>6, NothingToEvaluate DEF EvaluateDefinition
    <3>2. ASSUME NEW x \in Alerts, x # a PROVE Covered(x)'
      BY <1>2, <3>1, <3>2 DEF AllCovered, Covered, Known
    <3> QED
      BY <2>4, <3>2 DEF Cover, AllCovered
  <2> QED
    BY <2>5, <2>6
<1>8. CASE AcceptSummary(a, raw)
  <2>0. PICK F, W : EvaluateDefinition(a, raw, NoInput, CaughtUp(raw, F), properties, W, inbox)
    BY <1>8 DEF AcceptSummary
  <2> DEFINE base == CaughtUp(raw, F)
  <2>1. EvaluateDefinition(a, raw, NoInput, base, properties, W, inbox)
    BY <2>0
  <2>2. /\ DefinitionValid(raw, a) /\ IsSummary(raw) /\ definitions'[a] = raw /\ raw # Nil
        /\ queue' = parents'[a]
    BY <1>0, <1>6, <1>8 DEF AcceptSummary, Ancestors
  <2>3. ValidStates(base)
    BY <1>0, CaughtUpValid
  <2>4. \A x \in Alerts : states[x] # Nil \/ x \notin MemberSet(raw) => base[x] = states[x]
    BY DEF CaughtUp
  <2> HIDE DEF base
  <2>5. \A x \in Alerts : x # a => states'[x] = base[x]
    BY <1>0, <2>1, <2>2, <2>3, EvaluateOthers
  <2>6. Covered(a)'
    BY <1>0, <2>1, <2>2, <2>3, CoveredEvaluated
  <2>7. ASSUME NEW x \in Alerts, x # a PROVE Covered(x)' \/ Listed(parents'[a], x)
    <3>1. CASE ~IsSummary(definitions[x])
      BY <1>2, <2>7, <3>1, CoveredOthers
    <3>2. CASE IsSummary(definitions[x])
      <4>1. states[x] # Nil => states'[x] = states[x]
        BY <2>4, <2>5, <2>7
      <4>2. ASSUME NEW m \in MemberSet(definitions[x]), m # a
            PROVE  states'[m] = states[m]
        <5>1. definitions[x] \in Written(x) /\ raw \in Written(a)
          BY <1>2, <2>2, <2>7, <3>2 DEF ConfigsWritten, IsSummary
        <5>2. m \notin MemberSet(raw)
          BY <2>2, <2>7, <3>2, <4>2, <5>1 DEF Forest, IsSummary
        <5> QED
          BY <1>3, <2>4, <2>5, <3>2, <4>2, <5>2
      <4> QED
        BY <1>0, <1>2, <2>7, <4>1, <4>2, UncoverOne DEF AllCovered
    <3> QED
      BY <3>1, <3>2
  <2>8. \A x \in Alerts : Covered(x)' \/ Listed(parents'[a], x)
    BY <2>6, <2>7
  <2> QED
    BY <1>0, <2>2, <2>8, CoverUp
<1> QED
  BY <1>5, <1>7, <1>8 DEF ReconcileConfig

\* Every step keeps the summaries covered, or goes on to those that are not.
LEMMA CoverStep ==
  ASSUME Forest, ServiceInv, ServiceInv', AcyclicInv, ForestInv, ConfigsWritten',
         Cover, NamedBelow, [Next]_vars
  PROVE  Cover'
<1>0. /\ WorkInv /\ WorkInv' /\ NoneDefined /\ SummariesAcyclic /\ OneLoop /\ Follow
  BY DEF ServiceInv, WorkInv, LeavesInv, Inv, AcyclicInv, ForestInv
<1>a. Unlocked => AllCurrent /\ AllCovered
  BY <1>0, AtRest, CoverAtRest DEF Unlocked
<1>b. ASSUME \A a \in Alerts : definitions'[a] = Nil PROVE Cover'
  BY <1>b DEF Cover, AllCovered, Covered, IsSummary
<1>c. ASSUME UNCHANGED <<definitions, states, queue, seen, refresh>> PROVE Cover'
  <2>1. ASSUME NEW x PROVE Covered(x) => Covered(x)'
    BY <1>c DEF Covered, Known
  <2>2. ASSUME NEW x, NEW s PROVE Behind(x, s) => Behind(x, s)'
    BY <1>c DEF Behind
  <2>3. Upward => Upward'
    BY <1>c, <2>2 DEF Upward
  <2> QED
    BY <1>c, <2>1, <2>3 DEF Cover, AllCovered
<1>1. CASE LoadConfig \/ \E a \in Alerts : HandleConfig(a)
  <2>1. FeedsOK
    BY <1>0 DEF WorkInv, Inv
  <2>2. AlertsSame => Cover'
    BY <1>c DEF AlertsSame, graph, handler
  <2>3. ASSUME NEW a \in Alerts, NEW raw \in Offered(a), ReconcileConfig(a, raw), Unlocked
        PROVE  Cover'
    BY <1>0, <1>a, <2>3, CoverConfig DEF Offered
  <2> QED
    BY <1>1, <2>1, <2>2, <2>3, ConfigTaken
<1>3. CASE Crash
  BY <1>3, <1>b DEF Crash
<1>4. CASE LoadStates \/ LoadProperties
  BY <1>0, <1>4, <1>b DEF LoadStates, LoadProperties, NoneDefined, graph
<1>5. CASE EvaluateAncestor
  BY <1>0, <1>5, CoverAncestor
<1>6. ASSUME NEW p \in PropertyNames, HandleProperty(p) PROVE Cover'
  BY <1>6, <1>a DEF HandleProperty, graph, Cover, AllCovered, Covered, Known
<1>7. ASSUME NEW a \in Alerts, HandleInput(a) PROVE Cover'
  BY <1>0, <1>7, <1>a, CoverInput DEF HandleInput
<1>8. ASSUME NEW a \in Alerts, HandleState(a) \/ HandleAdded(a) PROVE Cover'
  <2>1. UNCHANGED <<definitions, parents, refresh>>
    BY <1>8 DEF HandleState, HandleAdded, StateArrives, ReconcileState, AdoptState, AcknowledgeTree,
       Republish, Ignore, Discard, Ancestors, graph, handler
  <2>2. PICK incoming, Q : Unlocked /\ StateArrives(a, incoming, Q)
    BY <1>8 DEF HandleState, HandleAdded
  <2> QED
    BY <1>0, <1>a, <2>1, <2>2, CoverState
<1>9. ASSUME NEW a \in Alerts, RefreshDefinition(a) PROVE Cover'
  BY <1>0, <1>9, CoverRefresh
<1>10. ASSUME NEW a \in Alerts, SweepSummary(a) PROVE Cover'
  BY <1>0, <1>10, CoverSweep
<1>11. CASE BeginSweep \/ SubscribeGlobals \/ \E a \in Alerts : HandleCreated(a)
  BY <1>11, <1>c DEF BeginSweep, SubscribeGlobals, HandleCreated, graph, handler
<1>12. CASE Environment \/ UNCHANGED vars
  <2>1. UNCHANGED <<definitions, states, queue, seen, refresh>>
    BY <1>12 DEF Environment, PublishInput, PublishConfig, PublishForeign, WriteState,
       ReadAlert, AcknowledgeAlert, PublishProperty, graph, handler, vars
  <2> QED
    BY <1>c, <2>1
<1> QED
  BY <1>1, <1>3, <1>4, <1>5, <1>6, <1>7, <1>8, <1>9, <1>10, <1>11, <1>12
  DEF Next, Handlers

\* Where nobody puts an alert into two summaries or changes a class that two
\* alerts use, and as long as no alert two levels below a summary is pending
\* without an episode, a summary of known members is pending whenever
\* reconcileMu is free and a member waits for an acknowledgement:
\* acknowledgeTreeLocked reaches every such member of the summaries it
\* acknowledges, and evaluateAncestorsLocked everything above a new one.
THEOREM SummariesCover ==
  ASSUME Forest, ClassesApart
  PROVE  Spec /\ []NamedBelow => []SummaryCoversPending
<1>1. Init => Cover
  BY DEF Init, Cover, AllCovered, Covered, IsSummary
<1>2. ServiceInv /\ ServiceInv' /\ AcyclicInv /\ ForestInv /\ ForestInv' /\ NamedBelow /\ Cover
        /\ [Next]_vars => Cover'
  BY CoverStep DEF ForestInv
<1>3. Cover => SummaryCoversPending
  <2> SUFFICES ASSUME Cover, Unlocked PROVE AllCovered => SummaryCoversPending
    BY CoverAtRest DEF Unlocked, SummaryCoversPending
  <2> QED
    BY DEF AllCovered, Covered, Awaits, Known, Summaries, SummaryCoversPending
<1> QED
  BY <1>1, <1>2, <1>3, ForestInvariance, PTL DEF Spec

-----------------------------------------------------------------------------
(* What the subject of one alert carries, and where the alert takes its    *)
(* states from.                                                            *)

\* Message m waits in an inbox.
Holds(box, m) ==
    Listed(box.live, m) \/ (m = box.added /\ m \notin {Nil, Announcement})

\* Message m is under way on the subject of alert a, or the last one there.
Carries(a, m) == m # Nil /\ (Holds(inbox[a], m) \/ m = retained[a])

\* In a step nothing but the last message comes into the inbox of alert a, and
\* what becomes the last message is its state, an acknowledgement an operator
\* has prepared, or a state of somebody else.
Traffic(a) ==
    /\ \A m : Holds(inbox'[a], m) => Holds(inbox[a], m) \/ m = retained'[a]
    /\ \/ retained'[a] = retained[a]
       \/ states'[a] # Nil /\ retained'[a] = Message(states'[a], "service")
       \/ draft[a] # Nil /\ retained'[a] = Message(draft[a], "operator")
       \/ \E s \in ForeignStates[a] : retained'[a] = Message(s, "other")

\* A publication adds one message to an inbox.
LEMMA DeliveredHolds ==
  ASSUME NEW a, NEW m \in Messages, NEW box \in Box, NEW W, NEW x,
         Holds(Delivered(a, m, box, W), x)
  PROVE  Holds(box, x) \/ x = m
<1>1. PICK live \in Seq(Messages) : live = box.live
  BY DEF Box
<1>2. Listed(Append(live, m), x) <=> Listed(live, x) \/ x = m
  BY AppendLists
<1> QED
  BY <1>1, <1>2 DEF Holds, Delivered

\* publishStateLocked.
LEMMA PublishTraffic ==
  ASSUME BusOK, NEW P, NEW st, \A x \in P \cap Alerts : st[x] \in State,
         NEW W, NEW Q \in [Alerts -> Box], Publish(P, st, W, Q),
         NEW a \in Alerts, \A m : Holds(Q[a], m) => Holds(inbox[a], m),
         states'[a] = st[a]
  PROVE  Traffic(a) /\ older' = older
<1>1. PICK F \in SUBSET P : PublishSome(P, F, st, W, Q)
  BY DEF Publish
<1>2. older' = older
  BY <1>1 DEF PublishSome
<1>3. CASE a \in P \ F
  <2>1. PICK m \in Messages : m = Message(st[a], "service")
    BY <1>3 DEF Message, Messages
  <2>2. retained'[a] = m /\ inbox'[a] = Delivered(a, m, Q[a], W)
    BY <1>1, <1>3, <2>1 DEF PublishSome
  <2>3. \A x : Holds(inbox'[a], x) => Holds(Q[a], x) \/ x = m
    BY <2>2, DeliveredHolds
  <2>4. st[a] # Nil
    BY <1>3, NilIsNoRecord
  <2> QED
    BY <1>2, <2>1, <2>2, <2>3, <2>4 DEF Traffic
<1>4. CASE a \notin P \ F
  <2>1. retained'[a] = retained[a] /\ inbox'[a] = Q[a]
    BY <1>1, <1>4 DEF PublishSome
  <2> QED
    BY <1>2, <2>1 DEF Traffic
<1> QED
  BY <1>3, <1>4

\* A step that leaves the bus alone.
LEMMA NoTraffic ==
  ASSUME NEW a, inbox'[a] = inbox[a], retained'[a] = retained[a]
  PROVE  Traffic(a)
  BY DEF Traffic

\* applyLocked.
LEMMA ApplyTraffic ==
  ASSUME BusOK, EpisodesOK, NEW b \in Alerts, NEW e \in Evaluation,
         NEW base, ValidStates(base), NEW W, Apply(b, e, base, W, inbox),
         NEW a \in Alerts
  PROVE  Traffic(a) /\ older' = older /\ episodes[a] <= episodes'[a]
<1> DEFINE next == ApplyEvaluation(base[b], e, episodes[b] + 1)
           st == [base EXCEPT ![b] = next]
<1>0. inbox \in [Alerts -> Box] /\ episodes \in [Alerts -> Nat]
  BY DEF BusOK, EpisodesOK
<1>1. CASE next = Nil
  BY <1>0, <1>1, NoTraffic DEF Apply
<1>2. CASE next # Nil
  <2>1. /\ states' = st
        /\ Publish(Unpublished(b, next, base), st, W, inbox)
        /\ \/ episodes' = episodes
           \/ episodes' = [episodes EXCEPT ![b] = episodes[b] + 1]
    BY <1>2 DEF Apply
  <2>2. next \in State
    <3>1. base[b] \in State \cup {Nil} /\ episodes[b] + 1 \in Nat
      BY <1>0 DEF ValidStates
    <3> QED
      BY <1>2, <3>1, ApplyEvaluationValid, Zenon
  <2> HIDE DEF next
  <2>3. \A x \in Unpublished(b, next, base) \cap Alerts : st[x] \in State
    BY <2>2 DEF Unpublished, ValidStates
  <2> HIDE DEF st
  <2>4. Traffic(a) /\ older' = older
    BY <1>0, <2>1, <2>3, PublishTraffic
  <2>5. episodes[a] <= episodes'[a]
    BY <1>0, <2>1
  <2> QED
    BY <2>4, <2>5
<1> QED
  BY <1>1, <1>2

\* evaluateDefinitionLocked.
LEMMA EvaluateTraffic ==
  ASSUME BusOK, EpisodesOK, PropertiesOK, NEW b \in Alerts, NEW c, NEW input,
         DefinitionValid(c, b), NEW base, ValidStates(base), NEW W,
         EvaluateDefinition(b, c, input, base, properties, W, inbox),
         NEW a \in Alerts
  PROVE  Traffic(a) /\ older' = older /\ episodes[a] <= episodes'[a]
<1>1. CASE Unevaluable(c, input)
  BY <1>1, NoTraffic DEF EvaluateDefinition, EpisodesOK
<1>2. CASE ~Unevaluable(c, input)
  <2> DEFINE f == Result(c, input, properties, base)
  <2>1. Apply(b, f, base, W, inbox)
    BY <1>2 DEF EvaluateDefinition, Result
  <2>2. f \in Evaluation
    BY ResultTyped DEF PropertiesOK
  <2> HIDE DEF f
  <2> QED
    BY <2>1, <2>2, ApplyTraffic
<1> QED
  BY <1>1, <1>2

\* reconcileConfigLocked.
LEMMA ConfigTraffic ==
  ASSUME Kept, NEW b \in Alerts, NEW raw \in Config \cup {Garbage},
         ReconcileConfig(b, raw), NEW a \in Alerts
  PROVE  Traffic(a) /\ older' = older /\ episodes[a] <= episodes'[a]
<1>0. BusOK /\ EpisodesOK /\ PropertiesOK /\ ValidStates(states)
  BY DEF Kept
<1>1. CASE RejectConfig(b, raw)
  BY <1>0, <1>1, ApplyTraffic, InactiveSane DEF RejectConfig
<1>2. CASE AcceptSummary(b, raw)
  <2>1. DefinitionValid(raw, b)
    BY <1>2 DEF AcceptSummary, Accepted, Enabled, DefinitionValid
  <2>2. PICK F, W : EvaluateDefinition(b, raw, NoInput, CaughtUp(raw, F), properties, W, inbox)
    BY <1>2 DEF AcceptSummary
  <2>3. ValidStates(CaughtUp(raw, F))
    BY CaughtUpValid
  <2> QED
    BY <1>0, <2>1, <2>2, <2>3, EvaluateTraffic
<1>3. CASE AcceptLeaf(b, raw)
  <2>1. DefinitionValid(raw, b)
    BY <1>3 DEF AcceptLeaf, Accepted, Enabled, DefinitionValid
  <2>2. PICK W, input : EvaluateDefinition(b, raw, input, states, properties, W, inbox)
    BY <1>3 DEF AcceptLeaf
  <2> QED
    BY <1>0, <2>1, <2>2, EvaluateTraffic
<1> QED
  BY <1>1, <1>2, <1>3 DEF ReconcileConfig

\* The step hands message m of alert b to the handler of the states watch.
Handles(b, m) ==
    \/ HandleState(b) /\ m = Head(inbox[b].live)
    \/ HandleAdded(b) /\ m = inbox[b].added

\* Message m of alert b is handled, and Q is what is left.
Taken(b, m, Q) ==
    /\ m \in Messages /\ Q \in [Alerts -> Box] /\ StateArrives(b, m.state, Q)
    /\ Holds(inbox[b], m) /\ Handles(b, m) /\ retained[b] # Nil
    /\ \/ /\ Q[b].live = inbox[b].live /\ inbox[b].added = m
          /\ m \notin {Nil, Announcement} /\ Q[b].added = Nil
       \/ /\ inbox[b].live # <<>> /\ m = Head(inbox[b].live)
          /\ Q[b].live = Tail(inbox[b].live)
    /\ \A a \in Alerts : \A x : Holds(Q[a], x) => Holds(inbox[a], x)

\* The messages of a subject that were not taken stay; the taken one was there.
LEMMA TakeHolds ==
  ASSUME BusOK, GuardedAll, NEW b \in Alerts, HandleState(b) \/ HandleAdded(b)
  PROVE  \E m, Q : Taken(b, m, Q)
<1>1. inbox[b] \in Box
  BY DEF BusOK
<1>2. CASE HandleState(b)
  <2>1. PICK m, Q : /\ m = Head(inbox[b].live) /\ Q = [inbox EXCEPT ![b].live = Tail(@)]
                    /\ StateArrives(b, m.state, Q)
    BY <1>2 DEF HandleState
  <2>2. inbox[b].live # <<>>
    BY <1>2 DEF HandleState
  <2>3. retained[b] # Nil /\ Q \in [Alerts -> Box] /\ \A x \in Alerts : x # b => Q[x] = inbox[x]
    BY <2>1, <2>2, TakeLive
  <2>4. PICK live \in Seq(Messages) : live = inbox[b].live /\ live # <<>>
    BY <1>1, <2>2 DEF Box
  <2>5. Q[b].live = Tail(inbox[b].live) /\ Q[b].added = inbox[b].added
    BY <1>1, <2>1 DEF BusOK, Box
  <2>6. /\ 1 \in DOMAIN live /\ Head(live) = live[1] /\ Head(live) \in Messages
        /\ \A i \in DOMAIN Tail(live) : i + 1 \in DOMAIN live /\ Tail(live)[i] = live[i + 1]
    BY <2>4
  <2>7. \A x : Listed(Tail(live), x) => Listed(live, x)
    BY <2>6 DEF Listed
  <2>8. m \in Messages /\ Holds(inbox[b], m) /\ Handles(b, m)
    BY <1>2, <2>1, <2>4, <2>6 DEF Holds, Listed, Handles
  <2>9. \A a \in Alerts : \A x : Holds(Q[a], x) => Holds(inbox[a], x)
    BY <2>3, <2>4, <2>5, <2>7 DEF Holds
  <2> QED
    BY <2>1, <2>2, <2>3, <2>5, <2>8, <2>9 DEF Taken
<1>3. CASE HandleAdded(b)
  <2>1. PICK m, Q : /\ m = inbox[b].added /\ Q = [inbox EXCEPT ![b].added = Nil]
                    /\ StateArrives(b, m.state, Q)
    BY <1>3 DEF HandleAdded
  <2>2. inbox[b].added \notin {Nil, Announcement}
    BY <1>3 DEF HandleAdded
  <2>3. retained[b] # Nil /\ Q \in [Alerts -> Box] /\ \A x \in Alerts : x # b => Q[x] = inbox[x]
    BY <2>1, <2>2, TakeAdded
  <2>4. Q[b].live = inbox[b].live /\ Q[b].added = Nil
    BY <1>1, <2>1 DEF BusOK, Box
  <2>5. m \in Messages /\ Holds(inbox[b], m) /\ Handles(b, m)
    BY <1>1, <1>3, <2>1, <2>2 DEF Box, Holds, Handles
  <2>6. \A a \in Alerts : \A x : Holds(Q[a], x) => Holds(inbox[a], x)
    BY <2>3, <2>4 DEF Holds
  <2> QED
    BY <2>1, <2>2, <2>3, <2>4, <2>5, <2>6 DEF Taken
<1> QED
  BY <1>2, <1>3

\* reconcileStateLocked.
LEMMA StateTraffic ==
  ASSUME Kept, NEW b \in Alerts, NEW m, NEW Q, Taken(b, m, Q), NEW a \in Alerts
  PROVE  Traffic(a) /\ (a \in older => a \in older')
<1>0. /\ BusOK /\ ValidStates(states) /\ m \in Messages /\ Q \in [Alerts -> Box]
      /\ StateArrives(b, m.state, Q) /\ \A x : Holds(Q[a], x) => Holds(inbox[a], x)
  BY DEF Kept, Taken
<1>1. CASE AcknowledgeTree(b, Q)
  <2> DEFINE done == {x \in AckTree(b) : states[x] # Nil /\ Acknowledgeable(states[x])}
             st == [x \in Alerts |-> IF x \in done THEN Acknowledge(states[x])
                                                   ELSE states[x]]
  <2>1. states' = st /\ Publish(done, st, watched, Q)
    BY <1>1 DEF AcknowledgeTree
  <2>2. \A x \in done \cap Alerts : st[x] \in State
    BY <1>0, AcknowledgeValid DEF ValidStates
  <2> HIDE DEF done, st
  <2> QED
    BY <1>0, <2>1, <2>2, PublishTraffic
<1>2. CASE Ignore(Q) \/ Discard(b, Q)
  BY <1>0, <1>2 DEF Ignore, Discard, Traffic
<1>3. CASE Republish(b, Q) /\ states[b] # Nil
  <2>1. \A x \in {b} \cap Alerts : states[x] \in State
    BY <1>0, <1>3 DEF ValidStates
  <2>2. states' = states /\ Publish({b}, states, watched, Q)
    BY <1>3 DEF Republish
  <2> QED
    BY <1>0, <2>1, <2>2, PublishTraffic
<1>4. CASE AdoptState(b, m.state, Q) /\ Usable(m.state)
  <2>1. inbox' = Q /\ retained' = retained /\ (a \in older => a \in older')
    BY <1>4 DEF AdoptState
  <2> QED
    BY <1>0, <2>1 DEF Traffic
<1> QED
  BY <1>0, <1>1, <1>2, <1>3, <1>4 DEF StateArrives, ReconcileState, AdoptState

\* Somebody else publishes on the subject of alert b.
LEMMA WriteTraffic ==
  ASSUME BusOK, NEW b \in Alerts, NEW payload \in State \cup {Garbage, Mistyped},
         NEW by \in {"operator", "other"}, WriteState(b, payload, by), NEW a \in Alerts
  PROVE  /\ \A m : Holds(inbox'[a], m) => Holds(inbox[a], m) \/ m = retained'[a]
         /\ retained'[a] = retained[a] \/ (a = b /\ retained'[a] = Message(payload, by))
<1>1. PICK m \in Messages : m = Message(payload, by)
  BY DEF Message, Messages
<1>2. /\ retained' = [retained EXCEPT ![b] = m]
      /\ inbox' = [inbox EXCEPT ![b] = Delivered(b, m, inbox[b], watched)]
  BY <1>1 DEF WriteState
<1>3. CASE a = b
  <2>1. retained'[a] = m /\ inbox'[a] = Delivered(a, m, inbox[a], watched) /\ inbox[a] \in Box
    BY <1>2, <1>3 DEF BusOK
  <2>2. \A x : Holds(inbox'[a], x) => Holds(inbox[a], x) \/ x = m
    BY <2>1, DeliveredHolds
  <2> QED
    BY <1>1, <1>3, <2>1, <2>2
<1>4. CASE a # b
  BY <1>2, <1>4 DEF BusOK
<1> QED
  BY <1>3, <1>4

\* What the handlers find when they begin.
LEMMA InHand ==
  ASSUME ServiceInv
  PROVE  /\ Kept /\ BusOK /\ EpisodesOK /\ PropertiesOK /\ ValidStates(states) /\ GuardedAll
         /\ \A x \in Alerts : definitions[x] # Nil => DefinitionValid(definitions[x], x)
         /\ refresh \subseteq Defined /\ sweep.left \subseteq Defined
         /\ loaded \in 0..Len(Order) /\ queue \in Seq(Alerts)
<1>1. Kept /\ GuardedAll /\ loaded \in 0..Len(Order) /\ queue \in Seq(Alerts)
  BY DEF ServiceInv, WorkInv, Inv, FeedsOK, Hooks, Subjects, BusInv
<1>2. refresh \subseteq Defined /\ sweep.left \subseteq Defined
  BY DEF ServiceInv, WorkInv, Inv, LoopsOK
<1> QED
  BY <1>1, <1>2 DEF Kept, DefinitionsOK, DefinitionValid

\* What a step does to the subject of alert a, to its counter of episodes, and
\* to the memory of older: only a crash forgets that.
Crashed(a) == states'[a] = Nil /\ inbox'[a] = NoMessages /\ retained'[a] = retained[a]
Course(a) == /\ Traffic(a) /\ episodes[a] <= episodes'[a]
             /\ a \in older => a \in older' \/ Crashed(a)

LEMMA CourseStep ==
  ASSUME ServiceInv, [Next]_vars, NEW a \in Alerts
  PROVE  Course(a)
<1>0. /\ Kept /\ BusOK /\ EpisodesOK /\ PropertiesOK /\ ValidStates(states) /\ GuardedAll
      /\ \A x \in Alerts : definitions[x] # Nil => DefinitionValid(definitions[x], x)
      /\ refresh \subseteq Defined /\ sweep.left \subseteq Defined
      /\ loaded \in 0..Len(Order) /\ queue \in Seq(Alerts)
  BY InHand
<1>a. episodes[a] \in Nat /\ episodes[a] <= episodes[a]
  BY <1>0 DEF EpisodesOK
<1>b. ASSUME NEW b \in Alerts, NEW c, NEW input, DefinitionValid(c, b),
             EvaluateDefinition(b, c, input, states, properties, watched, inbox)
      PROVE  Course(a)
  BY <1>0, <1>b, EvaluateTraffic DEF Course
<1>c. UNCHANGED <<bus, episodes>> => Course(a)
  BY <1>a, NoTraffic DEF bus, Course
<1>d. ASSUME NEW b \in Alerts, NEW raw \in Config \cup {Garbage}, ReconcileConfig(b, raw)
      PROVE  Course(a)
  BY <1>0, <1>d, ConfigTraffic DEF Course
<1>1. CASE LoadConfig \/ \E b \in Alerts : HandleConfig(b)
  <2>1. FeedsOK
    BY DEF ServiceInv, WorkInv, Inv
  <2>2. AlertsSame => Course(a)
    BY <1>c DEF AlertsSame
  <2> QED
    BY <1>1, <1>d, <2>1, <2>2, ConfigTaken DEF Offered
<1>2. CASE SubscribeGlobals
  <2>1. UNCHANGED <<retained, older, episodes>>
    BY <1>2 DEF SubscribeGlobals
  <2>2. \/ inbox' = inbox
        \/ \E b \in Alerts : inbox' = [inbox EXCEPT ![b].added = Announcement]
    BY <1>2 DEF SubscribeGlobals, LastAnnounced
  <2>3. \A m : Holds(inbox'[a], m) => Holds(inbox[a], m)
    <3>1. CASE inbox'[a] = inbox[a]
      BY <3>1
    <3>2. CASE inbox'[a] = [inbox[a] EXCEPT !.added = Announcement]
      <4>1. inbox'[a].live = inbox[a].live /\ inbox'[a].added = Announcement
        BY <1>0, <3>2 DEF BusOK, Box
      <4> QED
        BY <4>1 DEF Holds
    <3> QED
      BY <1>0, <2>2, <3>1, <3>2 DEF BusOK
  <2> QED
    BY <1>a, <2>1, <2>3 DEF Course, Traffic
<1>3. CASE Crash
  <2>1. /\ states' = [x \in Alerts |-> Nil] /\ inbox' = [x \in Alerts |-> NoMessages]
        /\ retained' = retained /\ episodes' = episodes
    BY <1>3 DEF Crash
  <2>2. Crashed(a)
    BY <2>1 DEF Crashed
  <2>3. \A m : ~Holds(NoMessages, m)
    BY DEF Holds, Listed, NoMessages
  <2> QED
    BY <1>a, <2>1, <2>2, <2>3 DEF Course, Traffic
<1>4. CASE EvaluateAncestor
  <2> DEFINE s == Head(queue)
  <2>1. s \in Alerts
    BY <1>0, <1>4 DEF EvaluateAncestor
  <2>2. CASE s \notin seen /\ definitions[s] # Nil
    <3>1. EvaluateDefinition(s, definitions[s], NoInput, states, properties, watched, inbox)
      BY <1>4, <2>2 DEF EvaluateAncestor
    <3>2. DefinitionValid(definitions[s], s)
      BY <1>0, <2>1, <2>2
    <3> HIDE DEF s
    <3> QED
      BY <1>b, <2>1, <3>1, <3>2
  <2>3. CASE ~(s \notin seen /\ definitions[s] # Nil)
    BY <1>4, <1>c, <2>3 DEF EvaluateAncestor
  <2> QED
    BY <2>2, <2>3
<1>5. ASSUME NEW b \in Alerts, HandleInput(b) PROVE Course(a)
  <2>1. CASE IsLeaf(definitions[b])
    <3>1. PICK value : EvaluateDefinition(b, definitions[b], value, states, properties,
                                          watched, inbox)
      BY <1>5, <2>1 DEF HandleInput, AcceptInput
    <3>2. DefinitionValid(definitions[b], b)
      BY <1>0, <2>1 DEF IsLeaf
    <3> QED
      BY <1>b, <3>1, <3>2
  <2>2. CASE ~IsLeaf(definitions[b])
    BY <1>5, <1>c, <2>2 DEF HandleInput, AcceptInput
  <2> QED
    BY <2>1, <2>2
<1>6. ASSUME NEW b \in Alerts, RefreshDefinition(b) \/ SweepSummary(b) PROVE Course(a)
  <2>1. PICK input : EvaluateDefinition(b, definitions[b], input, states, properties,
                                        watched, inbox)
    BY <1>6 DEF RefreshDefinition, SweepSummary
  <2>2. DefinitionValid(definitions[b], b)
    BY <1>0, <1>6 DEF RefreshDefinition, SweepSummary, Defined
  <2> QED
    BY <1>b, <2>1, <2>2
<1>7. ASSUME NEW b \in Alerts, HandleState(b) \/ HandleAdded(b) PROVE Course(a)
  <2>1. PICK m, Q : Taken(b, m, Q)
    BY <1>0, <1>7, TakeHolds
  <2>2. UNCHANGED episodes
    BY <1>7 DEF HandleState, HandleAdded
  <2> QED
    BY <1>0, <1>a, <2>1, <2>2, StateTraffic DEF Course
<1>8. ASSUME NEW b \in Alerts, HandleCreated(b) PROVE Course(a)
  <2>1. /\ inbox' = [inbox EXCEPT ![b].added = retained[b]]
        /\ UNCHANGED <<retained, older, episodes>>
    BY <1>8 DEF HandleCreated
  <2>2. inbox'[b].live = inbox[b].live /\ inbox'[b].added = retained[b]
        /\ \A x \in Alerts : x # b => inbox'[x] = inbox[x]
    BY <1>0, <2>1 DEF BusOK, Box
  <2>3. \A m : Holds(inbox'[a], m) => Holds(inbox[a], m) \/ m = retained'[a]
    BY <2>1, <2>2 DEF Holds
  <2> QED
    BY <1>a, <2>1, <2>3 DEF Course, Traffic
<1>9. ASSUME NEW b \in Alerts, NEW s \in ForeignStates[b], PublishForeign(b, s) PROVE Course(a)
  <2>1. WriteState(b, s, "other") /\ s \in State \cup {Garbage, Mistyped}
    BY <1>9, PayloadsAssumption DEF PublishForeign
  <2>2. UNCHANGED <<older, episodes>>
    BY <2>1 DEF WriteState
  <2>3. /\ \A m : Holds(inbox'[a], m) => Holds(inbox[a], m) \/ m = retained'[a]
        /\ retained'[a] = retained[a] \/ (a = b /\ retained'[a] = Message(s, "other"))
    BY <1>0, <2>1, WriteTraffic
  <2>4. Traffic(a)
    BY <2>3 DEF Traffic
  <2> QED
    BY <1>a, <2>2, <2>4 DEF Course
<1>10. ASSUME NEW b \in Alerts, AcknowledgeAlert(b) PROVE Course(a)
  <2>1. /\ WriteState(b, draft[b], "operator")
        /\ draft[b] # Nil /\ draft[b] \in State \cup {Garbage, Mistyped}
    BY <1>10 DEF AcknowledgeAlert, ServiceInv, WorkInv, Inv, FeedsOK
  <2>2. UNCHANGED <<older, episodes>>
    BY <2>1 DEF WriteState
  <2>3. /\ \A m : Holds(inbox'[a], m) => Holds(inbox[a], m) \/ m = retained'[a]
        /\ retained'[a] = retained[a] \/ (a = b /\ retained'[a] = Message(draft[a], "operator"))
    BY <1>0, <2>1, WriteTraffic
  <2>4. Traffic(a)
    BY <2>1, <2>3 DEF Traffic
  <2> QED
    BY <1>a, <2>2, <2>4 DEF Course
<1>11. CASE \/ LoadStates \/ LoadProperties \/ BeginSweep
            \/ \E p \in PropertyNames : HandleProperty(p)
            \/ \E b \in Alerts : \/ \E value \in InputChoices[b] : PublishInput(b, value)
                                 \/ \E raw \in ConfigChoices[b] : PublishConfig(b, raw)
            \/ \E b \in Acknowledgers : ReadAlert(b)
            \/ \E p \in PropertyNames : \E raw \in PropertyChoices[p] : PublishProperty(p, raw)
            \/ UNCHANGED vars
  BY <1>11, <1>c DEF LoadStates, LoadProperties, BeginSweep, HandleProperty,
     PublishInput, PublishConfig, ReadAlert, PublishProperty, vars
<1> QED
  BY <1>1, <1>2, <1>3, <1>4, <1>5, <1>6, <1>7, <1>8, <1>9, <1>10, <1>11, PayloadsAssumption
  DEF Next, Handlers, Environment

\* Where the state of an alert that is no summary comes from: the last message
\* on the bus, or an older one it is remembered for; ...
Adopted(a) ==
    /\ definitions[a] = Nil \/ states[a] = Nil
    /\ \/ /\ retained[a] # Nil /\ Usable(retained[a].state)
          /\ states'[a] = retained[a].state
       \/ /\ a \in older'
          /\ \E m : Carries(a, m) /\ Usable(m.state) /\ states'[a] = m.state

\* ... an evaluation, which begins an episode or leaves it as pending as it is; ...
Evaluated(a) ==
    /\ states'[a] # Nil
    /\ \/ states'[a].episode = episodes[a] + 1 /\ episodes'[a] = episodes[a] + 1
       \/ LET prev == IF states[a] = Nil THEN ZeroState ELSE states[a]
          IN  states'[a].episode = prev.episode /\ (states'[a].pending <=> prev.pending)

\* ... or an acknowledgement of the alert or of one above it.
Settled(a) ==
    /\ states[a] # Nil /\ Acknowledgeable(states[a])
    /\ states'[a] = Acknowledge(states[a])
    /\ \E b \in Alerts : \E m, Q :
        /\ Taken(b, m, Q) /\ AcknowledgeTree(b, Q) /\ a \in AckTree(b)
        /\ states[b] # Nil /\ m.state \in State /\ Acknowledges(m.state, states[b])

Takes(a) ==
    \/ states'[a] = states[a] \/ states'[a] = Nil
    \/ Adopted(a) \/ Evaluated(a) \/ Settled(a)

\* applyLocked, for an evaluation that is not pending itself.
LEMMA ApplyTakes ==
  ASSUME EpisodesOK, ValidStates(states), NEW a \in Alerts, NEW e \in Evaluation, Sane(e),
         ~e.pending, NEW W, NEW Q, Apply(a, e, states, W, Q)
  PROVE  Evaluated(a)
<1> DEFINE next == ApplyEvaluation(states[a], e, episodes[a] + 1)
           prev == IF states[a] = Nil THEN ZeroState ELSE states[a]
           starting == e.active /\ ~prev.active
<1>1. states[a] \in State \cup {Nil} /\ (states[a] # Nil => Validate(states[a]))
      /\ episodes[a] \in Nat /\ episodes[a] + 1 \in Nat \ {0}
  BY DEF ValidStates, EpisodesOK
<1>2. next # Nil
  BY <1>1, ApplyNeverRefuses
<1>3. next = Lifecycle(states[a], e, episodes[a] + 1)
  BY <1>2 DEF ApplyEvaluation
<1>4. /\ starting => next.episode = episodes[a] + 1
      /\ ~starting => /\ next.episode = prev.episode
                      /\ next.pending <=> prev.pending \/ e.pending
  BY <1>3, LifecyclePending
<1>5. /\ states' = [states EXCEPT ![a] = next]
      /\ next.episode = episodes[a] + 1 => episodes' = [episodes EXCEPT ![a] = @ + 1]
  BY <1>2 DEF Apply
<1> HIDE DEF next, prev
<1>6. states'[a] = next
  BY <1>5 DEF ValidStates
<1>7. next.episode = episodes[a] + 1 => episodes'[a] = episodes[a] + 1
  BY <1>5 DEF EpisodesOK
<1>8. CASE starting
  BY <1>2, <1>4, <1>6, <1>7, <1>8 DEF Evaluated
<1>9. CASE ~starting
  <2>1. next.episode = prev.episode /\ (next.pending <=> prev.pending)
    BY <1>4, <1>9
  <2> QED
    BY <1>2, <1>6, <2>1 DEF Evaluated, prev
<1> QED
  BY <1>8, <1>9

\* evaluateDefinitionLocked of something that is no summary.
LEMMA EvaluateTakes ==
  ASSUME EpisodesOK, PropertiesOK, ValidStates(states), NEW a \in Alerts, NEW c, NEW input,
         DefinitionValid(c, a), ~IsSummary(c), NEW W, NEW Q,
         EvaluateDefinition(a, c, input, states, properties, W, Q)
  PROVE  Takes(a)
<1>1. CASE Unevaluable(c, input)
  BY <1>1 DEF EvaluateDefinition, Takes
<1>2. CASE ~Unevaluable(c, input)
  <2> DEFINE f == Result(c, input, properties, states)
  <2>1. Apply(a, f, states, W, Q)
    BY <1>2 DEF EvaluateDefinition, Result
  <2>2. f \in Evaluation /\ Sane(f)
    BY ResultTyped DEF PropertiesOK
  <2>3. ~f.pending
    BY ResultPending
  <2> HIDE DEF f
  <2> QED
    BY <2>1, <2>2, <2>3, ApplyTakes DEF Takes
<1> QED
  BY <1>1, <1>2

\* reconcileConfigLocked.
LEMMA ConfigTakes ==
  ASSUME Kept, NEW b \in Alerts, NEW raw \in Config \cup {Garbage},
         raw \in Config => raw \in Written(b), ReconcileConfig(b, raw),
         NEW a \in Alerts, ~Grouped(a)
  PROVE  Takes(a)
<1>0. EpisodesOK /\ PropertiesOK /\ ValidStates(states) /\ BusOK
  BY DEF Kept
<1>1. CASE RejectConfig(b, raw)
  <2>1. PICK W : Apply(b, Inactive, states, W, inbox)
    BY <1>1 DEF RejectConfig
  <2>2. CASE a = b
    <3>1. Inactive \in Evaluation /\ Sane(Inactive) /\ ~Inactive.pending
      BY InactiveSane DEF Inactive
    <3> QED
      BY <1>0, <2>1, <2>2, <3>1, ApplyTakes DEF Takes
  <2>3. CASE a # b
    <3>1. states'[a] = states[a]
      BY <1>0, <2>1, <2>3 DEF Apply, ValidStates
    <3> QED
      BY <3>1 DEF Takes
  <2> QED
    BY <2>2, <2>3
<1>2. CASE AcceptSummary(b, raw)
  <2>1. DefinitionValid(raw, b) /\ IsSummary(raw) /\ raw \in Written(b)
    BY <1>2 DEF AcceptSummary, Accepted, Enabled, DefinitionValid
  <2>2. a # b
    BY <2>1 DEF Grouped, IsSummary
  <2>3. PICK F, W : EvaluateDefinition(b, raw, NoInput, CaughtUp(raw, F), properties, W, inbox)
    BY <1>2 DEF AcceptSummary
  <2>4. states'[a] = CaughtUp(raw, F)[a]
    BY <2>2, <2>3, CaughtUpValid, EvaluateOthers
  <2> QED
    BY <2>4 DEF CaughtUp, Takes, Adopted
<1>3. CASE AcceptLeaf(b, raw)
  <2>1. DefinitionValid(raw, b) /\ ~IsSummary(raw)
    BY <1>3 DEF AcceptLeaf, Accepted, Enabled, DefinitionValid, IsLeaf, IsSummary
  <2>2. PICK W, input : EvaluateDefinition(b, raw, input, states, properties, W, inbox)
    BY <1>3 DEF AcceptLeaf
  <2>3. CASE a = b
    BY <1>0, <2>1, <2>2, <2>3, EvaluateTakes
  <2>4. CASE a # b
    <3>1. states'[a] = states[a]
      BY <1>0, <2>2, <2>4, EvaluateOthers
    <3> QED
      BY <3>1 DEF Takes
  <2> QED
    BY <2>3, <2>4
<1> QED
  BY <1>1, <1>2, <1>3 DEF ReconcileConfig

\* reconcileStateLocked.
LEMMA StateTakes ==
  ASSUME Kept, NEW b \in Alerts, NEW m, NEW Q, Taken(b, m, Q), NEW a \in Alerts
  PROVE  Takes(a)
<1>0. /\ ValidStates(states) /\ m \in Messages /\ StateArrives(b, m.state, Q)
      /\ Holds(inbox[b], m) /\ retained[b] # Nil
  BY DEF Kept, Taken
<1>1. CASE /\ AcknowledgeTree(b, Q) /\ states[b] # Nil
           /\ m.state \in State /\ Acknowledges(m.state, states[b])
  <2>1. \/ states'[a] = states[a]
        \/ /\ states[a] # Nil /\ Acknowledgeable(states[a]) /\ a \in AckTree(b)
           /\ states'[a] = Acknowledge(states[a])
    BY <1>1 DEF AcknowledgeTree
  <2> QED
    BY <1>1, <2>1 DEF Takes, Settled
<1>2. CASE Ignore(Q) \/ Discard(b, Q) \/ Republish(b, Q)
  BY <1>2 DEF Ignore, Discard, Republish, Takes
<1>3. CASE AdoptState(b, m.state, Q) /\ Usable(m.state)
           /\ (definitions[b] = Nil \/ states[b] = Nil)
  <2>1. /\ states' = [states EXCEPT ![b] = m.state]
        /\ older' = IF retained[b].state = m.state THEN older ELSE older \cup {b}
    BY <1>3 DEF AdoptState
  <2>2. CASE a = b
    <3>1. states'[a] = m.state
      BY <1>0, <2>1, <2>2 DEF ValidStates
    <3>2. CASE retained[b].state = m.state
      BY <1>0, <1>3, <2>2, <3>1, <3>2 DEF Takes, Adopted
    <3>3. CASE retained[b].state # m.state
      BY <1>0, <1>3, <2>1, <2>2, <3>1, <3>3, MessageAssumption DEF Takes, Adopted, Carries
    <3> QED
      BY <3>2, <3>3
  <2>3. CASE a # b
    BY <1>0, <2>1, <2>3 DEF ValidStates, Takes
  <2> QED
    BY <2>2, <2>3
<1> QED
  BY <1>0, <1>1, <1>2, <1>3 DEF StateArrives, ReconcileState, AdoptState, Messages

LEMMA TakesStep ==
  ASSUME ServiceInv, ConfigsWritten, [Next]_vars, NEW a \in Alerts, ~Grouped(a)
  PROVE  Takes(a)
<1>0. /\ Kept /\ BusOK /\ EpisodesOK /\ PropertiesOK /\ ValidStates(states) /\ GuardedAll
      /\ \A x \in Alerts : definitions[x] # Nil => DefinitionValid(definitions[x], x)
      /\ refresh \subseteq Defined /\ sweep.left \subseteq Defined
      /\ loaded \in 0..Len(Order) /\ queue \in Seq(Alerts)
  BY InHand
<1>b. ASSUME NEW b \in Alerts, NEW input, definitions[b] # Nil,
             EvaluateDefinition(b, definitions[b], input, states, properties, watched, inbox)
      PROVE  Takes(a)
  <2>1. CASE a = b
    <3>1. ~IsSummary(definitions[b])
      BY <1>b, <2>1 DEF ConfigsWritten, Grouped, IsSummary
    <3>2. DefinitionValid(definitions[b], b)
      BY <1>0, <1>b
    <3> QED
      BY <1>0, <1>b, <2>1, <3>1, <3>2, EvaluateTakes
  <2>2. CASE a # b
    <3>1. states'[a] = states[a]
      BY <1>0, <1>b, <2>2, EvaluateOthers
    <3> QED
      BY <3>1 DEF Takes
  <2> QED
    BY <2>1, <2>2
<1>c. UNCHANGED states => Takes(a)
  BY DEF Takes
<1>1. CASE LoadConfig \/ \E b \in Alerts : HandleConfig(b)
  <2>1. FeedsOK
    BY DEF ServiceInv, WorkInv, Inv
  <2>2. AlertsSame => Takes(a)
    BY <1>c DEF AlertsSame
  <2>3. ASSUME NEW b \in Alerts, NEW raw \in Offered(b), ReconcileConfig(b, raw)
        PROVE  Takes(a)
    <3>1. raw \in Config \cup {Garbage} /\ (raw \in Config => raw \in Written(b))
      BY <2>3 DEF Offered, ConfigsWritten
    <3> QED
      BY <1>0, <2>3, <3>1, ConfigTakes
  <2> QED
    BY <1>1, <2>1, <2>2, <2>3, ConfigTaken
<1>3. CASE Crash
  <2>1. states'[a] = Nil
    BY <1>3 DEF Crash
  <2> QED
    BY <2>1 DEF Takes
<1>4. CASE LoadStates
  <2>1. definitions[a] = Nil
    BY <1>4 DEF LoadStates, ServiceInv, LeavesInv, NoneDefined
  <2>2. states'[a] = Nil \/ (/\ retained[a] # Nil /\ Usable(retained[a].state)
                             /\ states'[a] = retained[a].state)
    BY <1>4 DEF LoadStates
  <2> QED
    BY <2>1, <2>2 DEF Takes, Adopted
<1>5. CASE EvaluateAncestor
  <2> DEFINE s == Head(queue)
  <2>1. s \in Alerts
    BY <1>0, <1>5 DEF EvaluateAncestor
  <2>2. CASE s \notin seen /\ definitions[s] # Nil
    <3>1. EvaluateDefinition(s, definitions[s], NoInput, states, properties, watched, inbox)
      BY <1>5, <2>2 DEF EvaluateAncestor
    <3> QED
      BY <1>b, <2>1, <2>2, <3>1
  <2>3. CASE ~(s \notin seen /\ definitions[s] # Nil)
    BY <1>5, <1>c, <2>3 DEF EvaluateAncestor
  <2> QED
    BY <2>2, <2>3
<1>6. ASSUME NEW b \in Alerts, HandleInput(b) PROVE Takes(a)
  <2>1. CASE IsLeaf(definitions[b])
    <3>1. PICK value : EvaluateDefinition(b, definitions[b], value, states, properties,
                                          watched, inbox)
      BY <1>6, <2>1 DEF HandleInput, AcceptInput
    <3> QED
      BY <1>b, <2>1, <3>1 DEF IsLeaf
  <2>2. CASE ~IsLeaf(definitions[b])
    BY <1>6, <1>c, <2>2 DEF HandleInput, AcceptInput
  <2> QED
    BY <2>1, <2>2
<1>7. ASSUME NEW b \in Alerts, RefreshDefinition(b) \/ SweepSummary(b) PROVE Takes(a)
  <2>1. PICK input : EvaluateDefinition(b, definitions[b], input, states, properties,
                                        watched, inbox)
    BY <1>7 DEF RefreshDefinition, SweepSummary
  <2>2. definitions[b] # Nil
    BY <1>0, <1>7 DEF RefreshDefinition, SweepSummary, Defined
  <2> QED
    BY <1>b, <2>1, <2>2
<1>8. ASSUME NEW b \in Alerts, HandleState(b) \/ HandleAdded(b) PROVE Takes(a)
  BY <1>0, <1>8, TakeHolds, StateTakes
<1>9. CASE \/ LoadProperties \/ BeginSweep \/ SubscribeGlobals
           \/ \E p \in PropertyNames : HandleProperty(p)
           \/ \E b \in Alerts : HandleCreated(b)
           \/ Environment \/ UNCHANGED vars
  BY <1>9, <1>c DEF LoadProperties, BeginSweep, SubscribeGlobals, HandleProperty, HandleCreated,
     Environment, PublishInput, PublishConfig, PublishForeign, WriteState, ReadAlert,
     AcknowledgeAlert, PublishProperty, vars
<1> QED
  BY <1>1, <1>3, <1>4, <1>5, <1>6, <1>7, <1>8, <1>9 DEF Next, Handlers

\* What an operator prepares is the last state on the bus, acknowledged.
Drafted(a) ==
    \/ draft'[a] = draft[a] \/ draft'[a] = Nil
    \/ /\ retained[a] # Nil /\ retained[a].state \in State /\ retained[a].state.pending
       /\ draft'[a] = [retained[a].state EXCEPT !.acknowledged = TRUE]

LEMMA DraftedStep ==
  ASSUME ServiceInv, [Next]_vars, NEW a \in Alerts
  PROVE  Drafted(a)
<1>0. draft \in [Alerts -> State \cup {Nil}] /\ retained \in [Alerts -> Messages \cup {Nil}]
  BY DEF ServiceInv, WorkInv, Inv, FeedsOK, Kept, BusOK
<1>1. ASSUME NEW b \in Alerts, ReadAlert(b) PROVE Drafted(a)
  <2>1. /\ retained[b] # Nil /\ Usable(retained[b].state) /\ retained[b].state.pending
        /\ draft' = [draft EXCEPT ![b] = [retained[b].state EXCEPT !.acknowledged = TRUE]]
    BY <1>1 DEF ReadAlert
  <2>2. retained[b].state \in State
    BY <1>0, <2>1 DEF Messages, Usable, Decoded
  <2> DEFINE d == [retained[b].state EXCEPT !.acknowledged = TRUE]
  <2>3. draft'[a] = IF a = b THEN d ELSE draft[a]
    BY <1>0, <2>1
  <2> QED
    BY <2>1, <2>2, <2>3 DEF Drafted
<1>2. ASSUME NEW b \in Alerts, AcknowledgeAlert(b) PROVE Drafted(a)
  <2>1. draft' = [draft EXCEPT ![b] = Nil]
    BY <1>2 DEF AcknowledgeAlert
  <2> QED
    BY <1>0, <2>1 DEF Drafted
<1>3. UNCHANGED draft => Drafted(a)
  BY DEF Drafted
<1>4. CASE Handlers
  BY <1>3, <1>4 DEF Handlers, LoadStates, LoadProperties, LoadConfig, BeginSweep,
     SubscribeGlobals, EvaluateAncestor, HandleProperty, HandleConfig, HandleInput, HandleState,
     HandleCreated, HandleAdded, RefreshDefinition, SweepSummary, environment
<1>5. CASE Crash \/ UNCHANGED vars
  BY <1>3, <1>5 DEF Crash, vars, environment
<1>6. CASE Environment
  BY <1>1, <1>2, <1>3, <1>6, PayloadsAssumption DEF Environment, PublishInput, PublishConfig,
     PublishForeign, PublishProperty
<1> QED
  BY <1>4, <1>5, <1>6 DEF Next

-----------------------------------------------------------------------------
(* Two levels of summaries over leaves: leaves that are pending always     *)
(* name their episode, so the hypothesis of SummariesCover holds.          *)

\* Whatever there is of alert a names its episode when it is pending.
Names(a) ==
    /\ Named(states[a]) /\ Named(draft[a])
    /\ \A m : Carries(a, m) => Named(m.state)

LEMMA NamesStep ==
  ASSUME OthersNamed, ServiceInv, ConfigsWritten, [Next]_vars, NEW a \in Alerts, ~Grouped(a),
         Names(a)
  PROVE  Names(a)'
<1>0. /\ states[a] \in State \cup {Nil} /\ episodes[a] \in Nat
      /\ Garbage \notin State /\ Mistyped \notin State
      /\ Takes(a) /\ Traffic(a) /\ Drafted(a)
  BY TakesStep, CourseStep, DraftedStep, GarbageAssumption
  DEF ServiceInv, WorkInv, Inv, Kept, ValidStates, EpisodesOK, Course
<1>1. Named(states'[a])
  <2>1. CASE Adopted(a)
    BY <2>1 DEF Adopted, Names, Carries
  <2>2. CASE Evaluated(a)
    <3>1. CASE states'[a].episode = episodes[a] + 1
      BY <1>0, <3>1 DEF Named
    <3>2. CASE states[a] = Nil /\ states'[a].episode = ZeroState.episode
               /\ (states'[a].pending <=> ZeroState.pending)
      BY <3>2 DEF Named, ZeroState
    <3>3. CASE states[a] # Nil /\ states'[a].episode = states[a].episode
               /\ (states'[a].pending <=> states[a].pending)
      BY <1>0, <3>3 DEF Named, Names, Decoded
    <3> QED
      BY <2>2, <3>1, <3>2, <3>3 DEF Evaluated
  <2>3. CASE Settled(a)
    <3>1. states[a] \in State
      BY <1>0, <2>3 DEF Settled
    <3>2. ~states'[a].pending
      BY <2>3, <3>1 DEF Settled, Acknowledge, State
    <3> QED
      BY <3>2 DEF Named
  <2>4. CASE states'[a] = states[a] \/ states'[a] = Nil
    BY <2>4 DEF Names, Named, Decoded
  <2> QED
    BY <1>0, <2>1, <2>2, <2>3, <2>4 DEF Takes
<1>2. Named(draft'[a])
  <2>1. CASE draft'[a] = draft[a] \/ draft'[a] = Nil
    BY <2>1 DEF Names, Named, Decoded
  <2>2. ASSUME NEW s \in State, s = retained[a].state, retained[a] # Nil, s.pending,
               draft'[a] = [s EXCEPT !.acknowledged = TRUE]
        PROVE  Named(draft'[a])
    <3>1. s.episode # 0
      BY <1>0, <2>2, NilIsNoRecord DEF Names, Carries, Named, Decoded
    <3>2. draft'[a].episode = s.episode
      BY <2>2 DEF State
    <3> QED
      BY <3>1, <3>2 DEF Named
  <2> QED
    BY <1>0, <2>1, <2>2 DEF Drafted
<1>3. retained'[a] # Nil => Named(retained'[a].state)
  <2>1. ASSUME NEW s, NEW by, Named(s), retained'[a] = Message(s, by)
        PROVE  Named(retained'[a].state)
    BY <2>1 DEF Message
  <2>2. CASE retained'[a] = retained[a]
    BY <2>2 DEF Names, Carries
  <2>3. CASE \E s \in ForeignStates[a] : retained'[a] = Message(s, "other")
    BY <2>1, <2>3 DEF OthersNamed
  <2> QED
    BY <1>0, <1>1, <2>1, <2>2, <2>3 DEF Traffic, Names
<1>4. ASSUME NEW m, Carries(a, m)' PROVE Named(m.state)
  BY <1>0, <1>3, <1>4 DEF Carries, Traffic, Names
<1> QED
  BY <1>1, <1>2, <1>4 DEF Names, Named, Decoded

\* Leaves keep naming their episodes.
LeavesName == \A a \in Alerts : ~Grouped(a) => Names(a)

\* Where summaries of summaries are of leaves, and the others publish no state
\* that is pending without an episode, a summary is pending whenever reconcileMu
\* is free and a member waits for an acknowledgement, with no hypothesis on the
\* run: a restart can leave only summaries pending without an episode, and none
\* of those is two levels below another.
THEOREM SummariesCoverLeaves ==
  ASSUME Forest, ClassesApart, TwoLevels, OthersNamed
  PROVE  Spec => []SummaryCoversPending
<1>1. Init => LeavesName
  <2> SUFFICES ASSUME Init, NEW a \in Alerts PROVE Names(a)
    BY DEF LeavesName
  <2>1. /\ states[a] = Nil /\ draft[a] = Nil /\ inbox[a] = NoMessages
        /\ retained[a] = IF InitialState[a] = Nil THEN Nil
                         ELSE Message(InitialState[a], "service")
    BY DEF Init
  <2>2. \A m : ~Holds(NoMessages, m)
    BY DEF Holds, Listed, NoMessages
  <2>3. retained[a] # Nil => Named(retained[a].state)
    BY <2>1 DEF Message, OthersNamed
  <2> QED
    BY <2>1, <2>2, <2>3 DEF Names, Carries, Named, Decoded
<1>2. ServiceInv /\ ForestInv /\ LeavesName /\ [Next]_vars => LeavesName'
  BY NamesStep DEF ForestInv, LeavesName, Grouped, Written
<1>3. ServiceInv /\ AcyclicInv /\ ForestInv /\ LeavesName => NamedBelow
  <2> SUFFICES ASSUME ServiceInv, AcyclicInv, ForestInv, LeavesName,
                      NEW t \in Summaries, NEW a \in Summaries, a \in MemberSet(definitions[t]),
                      NEW m \in MemberSet(definitions[a]),
                      states[m] # Nil, states[m].pending
               PROVE  states[m].episode # 0
    BY DEF NamedBelow
  <2>1. /\ t \in Alerts /\ IsSummary(definitions[t]) /\ definitions[t] \in Written(t)
        /\ a \in Alerts /\ IsSummary(definitions[a]) /\ definitions[a] \in Written(a)
    BY DEF Summaries, IsSummary, ForestInv, ConfigsWritten
  <2>2. m \in Alerts
    <3>1. definitions[a] \in Config
      BY <2>1 DEF Written
    <3> QED
      BY <3>1 DEF MemberSet, Config
  <2>3. m # t
    <3> SUFFICES ASSUME m = t PROVE SummaryCycle(definitions, t)
      BY <2>1 DEF AcyclicInv, SummariesAcyclic
    <3>1. {t, a} \in SUBSET Alerts /\ t \in {t, a}
      BY <2>1
    <3>2. \A x \in {t, a} : IsSummary(definitions[x]) /\ MemberSet(definitions[x]) \cap {t, a} # {}
      BY <2>1
    <3> QED
      BY <3>1, <3>2 DEF SummaryCycle
  <2>4. ~Grouped(m)
    BY <2>1, <2>2, <2>3 DEF TwoLevels, IsSummary
  <2>5. states[m] \notin {Garbage, Mistyped}
    BY <2>2, GarbageAssumption DEF ServiceInv, WorkInv, Inv, Kept, ValidStates
  <2> QED
    BY <2>2, <2>4, <2>5 DEF LeavesName, Names, Named, Decoded
<1>4. Spec /\ []NamedBelow => []SummaryCoversPending
  BY SummariesCover
<1> QED
  BY <1>1, <1>2, <1>3, <1>4, ForestInvariance, PTL DEF Spec

-----------------------------------------------------------------------------
(* Acknowledgements of leaves.  The echo of an acknowledged state would    *)
(* acknowledge its episode again; the alert is pending in that episode no  *)
(* more when the echo arrives.                                             *)

\* Message m says that episode n was acknowledged.
Closes(m, n) ==
    /\ m.by = "service" /\ Decoded(m.state) /\ m.state.acknowledged
    /\ m.state.episode = n /\ n # 0

\* What message m of alert a says, by who sent it.
Truthful(a, m) ==
    Decoded(m.state) =>
        /\ m.state.episode <= episodes[a]
        /\ m.by = "operator" => m.state.pending /\ m.state.acknowledged
        /\ m.by = "other" => m.state.episode = 0
        /\ m.by = "service" /\ m.state.episode # 0 => Validate(m.state)

\* State s is not pending in an episode that a message closes.
Over(a, s) ==
    \A m : Carries(a, m) /\ Decoded(s) /\ Closes(m, s.episode) => ~s.pending

Ledger(a) ==
    /\ Decoded(states[a]) => states[a].episode <= episodes[a]
    /\ Decoded(draft[a]) => /\ draft[a].pending /\ draft[a].acknowledged
                            /\ draft[a].episode <= episodes[a]
    /\ \A m : Carries(a, m) => Truthful(a, m)
    /\ a \notin older =>
        /\ Over(a, states[a])
        /\ retained[a] # Nil /\ retained[a].by = "service" => Over(a, retained[a].state)

\* A state that is adopted from the bus, last or older, was published by the
\* service or names no episode.
LEMMA AdoptedTruthful ==
  ASSUME NEW a, NEW m \in Messages, Truthful(a, m), Usable(m.state), m.state.episode # 0
  PROVE  m.by = "service"
  BY DEF Truthful, Usable, Validate, Messages

\* What a subject carries are messages.
LEMMA CarriesMessages ==
  ASSUME BusOK, NEW a \in Alerts, NEW m, Carries(a, m)
  PROVE  m \in Messages
<1>1. PICK live \in Seq(Messages) : live = inbox[a].live
  BY DEF BusOK, Box
<1>2. \A i \in DOMAIN live : live[i] \in Messages
  OBVIOUS
<1>3. inbox[a].added \in Messages \cup {Nil, Announcement} /\ retained[a] \in Messages \cup {Nil}
  BY DEF BusOK, Box
<1> QED
  BY <1>1, <1>2, <1>3 DEF Carries, Holds, Listed

\* The states of a leaf, of its operators and on its subject after a step.
LEMMA TruthfulStep ==
  ASSUME OthersNameNone, ServiceInv, ServiceInv', ConfigsWritten, [Next]_vars,
         NEW a \in Alerts, ~Grouped(a), Ledger(a)
  PROVE  /\ Decoded(states'[a]) => states'[a].episode <= episodes'[a]
         /\ Decoded(draft'[a]) => /\ draft'[a].pending /\ draft'[a].acknowledged
                                  /\ draft'[a].episode <= episodes'[a]
         /\ \A m : Carries(a, m)' => Truthful(a, m)'
<1>0. /\ states[a] \in State \cup {Nil} /\ states'[a] \in State \cup {Nil}
      /\ states'[a] # Nil => Validate(states'[a])
      /\ Garbage \notin State /\ Mistyped \notin State /\ Nil \notin State
      /\ episodes[a] \in Nat /\ episodes'[a] \in Nat /\ episodes[a] <= episodes'[a]
      /\ draft[a] \in State \cup {Nil} /\ draft'[a] \in State \cup {Nil}
      /\ retained'[a] \in Messages \cup {Nil}
      /\ Takes(a) /\ Traffic(a) /\ Drafted(a)
  BY TakesStep, CourseStep, DraftedStep, GarbageAssumption, NilIsNoRecord
  DEF ServiceInv, WorkInv, Inv, Kept, FeedsOK, ValidStates, EpisodesOK, BusOK, Course
<1>m. ASSUME NEW n, n \in Nat, n <= episodes[a] PROVE n <= episodes'[a]
  BY <1>0, <1>m
<1>s. \A s \in State : s.episode \in Nat
  BY DEF State
<1>1. Decoded(states'[a]) => states'[a].episode <= episodes'[a]
  <2> SUFFICES ASSUME states'[a] \in State PROVE states'[a].episode <= episodes'[a]
    BY <1>0 DEF Decoded
  <2>0. states'[a].episode \in Nat /\ Decoded(states'[a])
    BY <1>0, <1>s DEF Decoded
  <2>1. CASE Adopted(a)
    <3>1. PICK m : Carries(a, m) /\ states'[a] = m.state
      BY <2>1 DEF Adopted, Carries
    <3>2. states'[a].episode <= episodes[a]
      BY <2>0, <3>1 DEF Ledger, Truthful
    <3> QED
      BY <1>m, <2>0, <3>2
  <2>2. CASE Evaluated(a)
    <3>1. CASE states'[a].episode = episodes[a] + 1 /\ episodes'[a] = episodes[a] + 1
      BY <1>0, <3>1
    <3>2. CASE states[a] = Nil /\ states'[a].episode = ZeroState.episode
      BY <1>0, <3>2 DEF ZeroState
    <3>3. CASE states[a] # Nil /\ states'[a].episode = states[a].episode
      <4>1. states[a].episode <= episodes[a]
        BY <1>0, <3>3 DEF Ledger, Decoded
      <4> QED
        BY <1>m, <2>0, <3>3, <4>1
    <3> QED
      BY <2>2, <3>1, <3>2, <3>3 DEF Evaluated
  <2>3. CASE Settled(a)
    <3>1. states[a] \in State
      BY <1>0, <2>3 DEF Settled
    <3>2. states'[a].episode = states[a].episode
      BY <2>3, <3>1 DEF Settled, Acknowledge, State
    <3>3. states[a].episode <= episodes[a]
      BY <1>0, <3>1 DEF Ledger, Decoded
    <3> QED
      BY <1>m, <2>0, <3>2, <3>3
  <2>4. CASE states'[a] = states[a]
    <3>1. states[a].episode <= episodes[a]
      BY <2>0, <2>4 DEF Ledger
    <3> QED
      BY <1>m, <2>0, <2>4, <3>1
  <2> QED
    BY <1>0, <2>1, <2>2, <2>3, <2>4 DEF Takes
<1>2. Decoded(draft'[a]) => /\ draft'[a].pending /\ draft'[a].acknowledged
                            /\ draft'[a].episode <= episodes'[a]
  <2> SUFFICES ASSUME draft'[a] \in State
               PROVE  /\ draft'[a].pending /\ draft'[a].acknowledged
                      /\ draft'[a].episode <= episodes'[a]
    BY <1>0 DEF Decoded
  <2>0. draft'[a].episode \in Nat /\ Decoded(draft'[a])
    BY <1>0, <1>s DEF Decoded
  <2>1. CASE draft'[a] = draft[a]
    BY <1>m, <2>0, <2>1 DEF Ledger
  <2>2. ASSUME NEW s \in State, s = retained[a].state, retained[a] # Nil, s.pending,
               draft'[a] = [s EXCEPT !.acknowledged = TRUE]
        PROVE  /\ draft'[a].pending /\ draft'[a].acknowledged
               /\ draft'[a].episode <= episodes'[a]
    <3>1. s.episode <= episodes[a]
      BY <1>0, <2>2 DEF Ledger, Carries, Truthful, Decoded
    <3>2. draft'[a].episode = s.episode /\ draft'[a].pending /\ draft'[a].acknowledged
      BY <2>2 DEF State
    <3> QED
      BY <1>m, <2>0, <3>1, <3>2
  <2> QED
    BY <1>0, <2>1, <2>2 DEF Drafted
<1>3. ASSUME NEW m, Carries(a, m), Truthful(a, m), m \in Messages PROVE Truthful(a, m)'
  <2>1. Decoded(m.state) => m.state.episode \in Nat
    BY <1>3, <1>s DEF Messages, Decoded
  <2> QED
    BY <1>3, <1>m, <2>1 DEF Truthful
<1>4. retained'[a] # Nil => Truthful(a, retained[a])'
  <2>1. ASSUME NEW s, NEW by, retained'[a] = Message(s, by)
        PROVE  retained'[a].state = s /\ retained'[a].by = by
    BY <2>1 DEF Message
  <2>2. CASE retained'[a] = retained[a]
    BY <1>0, <1>3, <2>2 DEF Ledger, Carries, Truthful
  <2>3. CASE states'[a] # Nil /\ retained'[a] = Message(states'[a], "service")
    <3>1. retained'[a].state = states'[a] /\ retained'[a].by = "service"
      BY <2>1, <2>3
    <3> QED
      BY <1>0, <1>1, <2>3, <3>1 DEF Truthful
  <2>4. CASE draft[a] # Nil /\ retained'[a] = Message(draft[a], "operator")
    <3>1. retained'[a].state = draft[a] /\ retained'[a].by = "operator"
      BY <2>1, <2>4
    <3>2. draft[a].episode \in Nat /\ Decoded(draft[a])
      BY <1>0, <1>s, <2>4 DEF Decoded
    <3> QED
      BY <1>m, <3>1, <3>2 DEF Truthful, Ledger
  <2>5. ASSUME NEW s \in ForeignStates[a], retained'[a] = Message(s, "other")
        PROVE  Truthful(a, retained[a])'
    <3>1. retained'[a].state = s /\ retained'[a].by = "other"
      BY <2>1, <2>5
    <3>2. Decoded(s) => s.episode = 0
      BY DEF OthersNameNone
    <3> QED
      BY <1>0, <3>1, <3>2 DEF Truthful
  <2> QED
    BY <1>0, <2>2, <2>3, <2>4, <2>5 DEF Traffic
<1>5. ASSUME NEW m, Carries(a, m)' PROVE Truthful(a, m)'
  <2>1. CASE Holds(inbox[a], m)
    <3>1. Carries(a, m)
      BY <1>5, <2>1 DEF Carries
    <3>2. m \in Messages
      BY <3>1, CarriesMessages DEF ServiceInv, WorkInv, Inv, Kept
    <3> QED
      BY <1>3, <3>1, <3>2 DEF Ledger
  <2>2. CASE m = retained'[a]
    BY <1>4, <1>5, <2>2 DEF Carries, Truthful
  <2> QED
    BY <1>0, <1>5, <2>1, <2>2 DEF Carries, Traffic
<1> QED
  BY <1>1, <1>2, <1>5

\* No step makes a leaf pending in an episode that a message closes.
LEMMA LedgerStep ==
  ASSUME OthersNameNone, ServiceInv, ServiceInv', ConfigsWritten, [Next]_vars,
         NEW a \in Alerts, ~Grouped(a), Ledger(a)
  PROVE  Ledger(a)'
<1>0. /\ states[a] \in State \cup {Nil} /\ states'[a] \in State \cup {Nil}
      /\ states'[a] # Nil => Validate(states'[a])
      /\ Garbage \notin State /\ Mistyped \notin State /\ Nil \notin State
      /\ episodes[a] \in Nat
      /\ retained[a] \in Messages \cup {Nil}
      /\ Takes(a) /\ Traffic(a) /\ Course(a)
  BY TakesStep, CourseStep, GarbageAssumption, NilIsNoRecord
  DEF ServiceInv, WorkInv, Inv, Kept, ValidStates, EpisodesOK, BusOK, Course
<1>1. /\ Decoded(states'[a]) => states'[a].episode <= episodes'[a]
      /\ Decoded(draft'[a]) => /\ draft'[a].pending /\ draft'[a].acknowledged
                               /\ draft'[a].episode <= episodes'[a]
      /\ \A m : Carries(a, m)' => Truthful(a, m)'
  BY TruthfulStep
<1>a. \A m : Carries(a, m)' => Carries(a, m) \/ m = retained'[a]
  BY <1>0 DEF Carries, Traffic
<1>2. ASSUME a \in older, a \notin older'
      PROVE  /\ Over(a, states[a])'
             /\ retained'[a] # Nil /\ retained'[a].by = "service" => Over(a, retained[a].state)'
  <2>1. states'[a] = Nil /\ inbox'[a] = NoMessages
    BY <1>0, <1>2 DEF Course, Crashed
  <2>2. \A m : ~Holds(NoMessages, m)
    BY DEF Holds, Listed, NoMessages
  <2>3. \A m : Carries(a, m)' => m = retained'[a] /\ Truthful(a, m)'
    BY <1>1, <2>1, <2>2 DEF Carries
  <2>4. Over(a, states[a])'
    BY <2>1 DEF Over, Decoded
  <2>5. Over(a, retained[a].state)'
    BY <2>3 DEF Over, Closes, Truthful, Validate
  <2> QED
    BY <2>4, <2>5
<1>3. ASSUME a \notin older, a \notin older'
      PROVE  /\ Over(a, states[a])'
             /\ retained'[a] # Nil /\ retained'[a].by = "service" => Over(a, retained[a].state)'
  <2>0. /\ Over(a, states[a])
        /\ retained[a] # Nil /\ retained[a].by = "service" => Over(a, retained[a].state)
    BY <1>3 DEF Ledger
  <2>1. ASSUME NEW m, Carries(a, m), Decoded(states'[a]), Closes(m, states'[a].episode)
        PROVE  ~states'[a].pending
    <3>1. CASE Adopted(a)
      <4>1. /\ retained[a] # Nil /\ Usable(retained[a].state) /\ states'[a] = retained[a].state
            /\ Truthful(a, retained[a]) /\ retained[a] \in Messages
        BY <1>0, <1>3, <3>1 DEF Adopted, Ledger, Carries
      <4>2. retained[a].by = "service"
        BY <2>1, <4>1, AdoptedTruthful DEF Closes
      <4> QED
        BY <2>0, <2>1, <4>1, <4>2 DEF Over
    <3>2. CASE Evaluated(a)
      <4>1. states'[a].episode <= episodes[a]
        BY <2>1 DEF Ledger, Truthful, Closes
      <4>2. states'[a].episode # episodes[a] + 1
        BY <1>0, <4>1
      <4>3. states'[a].episode # 0
        BY <2>1 DEF Closes
      <4>4. CASE states[a] = Nil
        BY <3>2, <4>2, <4>3, <4>4 DEF Evaluated, ZeroState
      <4>5. CASE states[a] # Nil
        <5>1. states'[a].episode = states[a].episode /\ (states'[a].pending <=> states[a].pending)
          BY <3>2, <4>2, <4>5 DEF Evaluated
        <5>2. Decoded(states[a])
          BY <1>0, <4>5 DEF Decoded
        <5> QED
          BY <2>0, <2>1, <5>1, <5>2 DEF Over
      <4> QED
        BY <4>4, <4>5
    <3>3. CASE Settled(a)
      <4>1. states[a] \in State
        BY <1>0, <3>3 DEF Settled
      <4> QED
        BY <3>3, <4>1 DEF Settled, Acknowledge, State
    <3>4. CASE states'[a] = states[a]
      BY <2>0, <2>1, <3>4 DEF Over
    <3>5. CASE states'[a] = Nil
      BY <2>1, <3>5 DEF Decoded
    <3> QED
      BY <1>0, <3>1, <3>2, <3>3, <3>4, <3>5 DEF Takes
  <2>2. retained'[a] = retained[a]
        \/ (states'[a] # Nil /\ retained'[a].state = states'[a] /\ retained'[a].by = "service")
        \/ retained'[a].by # "service"
    <3>1. \A s, by : Message(s, by).state = s /\ Message(s, by).by = by
      BY DEF Message
    <3> QED
      BY <1>0, <3>1 DEF Traffic
  <2>3. ASSUME NEW m, Carries(a, m)', Decoded(states'[a]), Closes(m, states'[a].episode)
        PROVE  ~states'[a].pending
    <3>1. CASE Carries(a, m)
      BY <2>1, <2>3, <3>1
    <3>2. CASE m = retained'[a] /\ ~Carries(a, m)
      <4>1. retained'[a].state = states'[a] /\ states'[a] # Nil
        BY <2>2, <2>3, <3>2 DEF Closes, Carries
      <4> QED
        BY <1>0, <2>3, <3>2, <4>1 DEF Closes, Validate
    <3> QED
      BY <1>a, <2>3, <3>1, <3>2
  <2>4. Over(a, states[a])'
    BY <2>3 DEF Over
  <2>5. ASSUME retained'[a] # Nil, retained'[a].by = "service" PROVE Over(a, retained[a].state)'
    <3>1. CASE retained'[a] = retained[a]
      <4>1. \A m : Carries(a, m)' => Carries(a, m)
        BY <1>a, <2>5, <3>1 DEF Carries
      <4> QED
        BY <2>0, <2>5, <3>1, <4>1 DEF Over
    <3>2. CASE retained'[a].state = states'[a]
      BY <2>3, <3>2 DEF Over
    <3> QED
      BY <2>2, <2>5, <3>1, <3>2
  <2> QED
    BY <2>4, <2>5
<1> QED
  BY <1>1, <1>2, <1>3 DEF Ledger

\* No acknowledgement of another alert reaches one that is in no summary.
LEMMA AckAlone ==
  ASSUME ConfigsWritten, NEW a \in Alerts, Apart(a), NEW b \in Alerts, a \in AckTree(b)
  PROVE  a = b
<1> SUFFICES ASSUME a # b PROVE FALSE
  OBVIOUS
<1> DEFINE C == Alerts \ {a}
<1>1. C \in SUBSET Alerts /\ b \in C /\ a \notin C
  OBVIOUS
<1>2. ASSUME NEW x \in C, IsSummary(definitions[x]), NEW m \in MemberSet(definitions[x])
      PROVE  m \in C
  <2>1. definitions[x] \in Written(x) /\ definitions[x].type = "summary"
    BY <1>2 DEF ConfigsWritten, IsSummary
  <2>2. m \in Alerts
    BY <2>1 DEF Written, MemberSet, Config
  <2> QED
    BY <2>1, <2>2 DEF Apart
<1> HIDE DEF C
<1> QED
  BY <1>1, <1>2 DEF AckTree

\* An episode of such an alert is closed by an operator's message.
LEMMA AckStep ==
  ASSUME ServiceInv, ConfigsWritten, [Next]_vars,
         NEW a \in Alerts, a \notin older, Apart(a), Ledger(a), NoLongerPending(a)
  PROVE  AcknowledgedByOperator(a)
<1>0. /\ states[a] \in State /\ Decoded(states[a]) /\ episodes[a] \in Nat
      /\ ~Grouped(a) /\ BusOK /\ Takes(a)
  BY TakesStep, GarbageAssumption DEF Apart, NoLongerPending, ServiceInv, WorkInv, Inv, Kept,
     ValidStates, EpisodesOK, Decoded
<1>1. states[a].episode <= episodes[a] /\ Over(a, states[a])
  BY <1>0 DEF Ledger
<1>2. ~Evaluated(a)
  <2>1. states[a].episode # episodes[a] + 1
    BY <1>0, <1>1
  <2> QED
    BY <2>1 DEF Evaluated, NoLongerPending
<1>3. Settled(a)
  BY <1>0, <1>2 DEF Takes, Adopted, NoLongerPending
<1>b. PICK b \in Alerts : \E m, Q :
        /\ Taken(b, m, Q) /\ AcknowledgeTree(b, Q) /\ a \in AckTree(b)
        /\ m.state \in State /\ Acknowledges(m.state, states[b])
  BY <1>3 DEF Settled
<1>4. PICK m, Q :
        /\ Taken(b, m, Q) /\ AcknowledgeTree(b, Q) /\ a \in AckTree(b)
        /\ m.state \in State /\ Acknowledges(m.state, states[b])
  BY <1>b
<1>5. a = b
  BY <1>4, AckAlone
<1>6. /\ m \in Messages /\ Carries(a, m) /\ Handles(a, m) /\ Decoded(m.state)
      /\ m.state.acknowledged /\ m.state.episode = states[a].episode
      /\ states[a].episode # 0
  <2>1. m \in Messages /\ Holds(inbox[a], m) /\ Handles(a, m)
    BY <1>4, <1>5 DEF Taken
  <2>2. Decoded(m.state) /\ m # Nil
    BY <1>4, <2>1, NilIsNoRecord, GarbageAssumption, MessageAssumption DEF Decoded
  <2>3. states[a].episode # 0
    BY <1>3 DEF Settled, Acknowledgeable
  <2> QED
    BY <1>4, <1>5, <2>1, <2>2, <2>3 DEF Acknowledges, Carries
<1>7. m.by # "other"
  BY <1>6 DEF Ledger, Truthful
<1>8. m.by # "service"
  BY <1>0, <1>1, <1>6 DEF Over, Closes, NoLongerPending
<1>9. m.by = "operator"
  BY <1>6, <1>7, <1>8 DEF Messages
<1>10. OperatorAcknowledges(m, a)
  BY <1>0, <1>6, <1>9, NilIsNoRecord DEF OperatorAcknowledges
<1>11. a \in Below(a)
  BY DEF Below
<1> QED
  BY <1>6, <1>10, <1>11 DEF AcknowledgedByOperator, Handles

\* The ledgers of all alerts that are no summaries.
Ledgers == \A a \in Alerts : ~Grouped(a) => Ledger(a)

LEMMA LedgersInvariance ==
  ASSUME OthersNameNone
  PROVE  Spec => [](ServiceInv /\ ConfigsWritten /\ Ledgers)
<1>1. Init => Ledgers
  <2> SUFFICES ASSUME Init, NEW a \in Alerts PROVE Ledger(a)
    BY DEF Ledgers
  <2>1. /\ states[a] = Nil /\ draft[a] = Nil /\ inbox[a] = NoMessages /\ episodes[a] = 0
        /\ retained[a] = IF InitialState[a] = Nil THEN Nil
                         ELSE Message(InitialState[a], "service")
    BY DEF Init
  <2>2. \A m : ~Holds(NoMessages, m)
    BY DEF Holds, Listed, NoMessages
  <2>3. \A m : Carries(a, m) => m = Message(InitialState[a], "service")
    BY <2>1, <2>2 DEF Carries
  <2>4. Decoded(InitialState[a]) => InitialState[a].episode = 0
    BY DEF OthersNameNone
  <2>5. \A m : Carries(a, m) => m.by = "service" /\ (Decoded(m.state) => m.state.episode = 0)
    BY <2>3, <2>4 DEF Message
  <2>6. \A m : Carries(a, m) => Truthful(a, m)
    BY <2>1, <2>5 DEF Truthful
  <2>7. \A s : Over(a, s)
    BY <2>5 DEF Over, Closes
  <2> QED
    BY <2>1, <2>6, <2>7 DEF Ledger, Decoded
<1>2. ServiceInv /\ ConfigsWritten /\ [Next]_vars => ConfigsWritten'
  BY WrittenStep DEF ServiceInv
<1>3. ServiceInv /\ ServiceInv' /\ ConfigsWritten /\ Ledgers /\ [Next]_vars => Ledgers'
  BY LedgerStep DEF Ledgers, Grouped, Written
<1> QED
  BY <1>1, <1>2, <1>3, WrittenInit, ServiceInvariance, PTL DEF Spec

\* Where nobody but the service and the operators publishes a state that names
\* an episode, an episode of an alert outside of all summaries stops being
\* pending only because the service handles an operator's acknowledgement of
\* that episode: no evaluation, no echo of the acknowledged state, no restart
\* that loads an earlier state and no foreign state closes it.  (An alert that
\* took an older state than the last on the bus is excepted until the service
\* restarts.)
THEOREM LeavesAckedByOperators ==
  ASSUME OthersNameNone
  PROVE  Spec => [][\A a \in Alerts \ older : Apart(a) /\ NoLongerPending(a)
            => AcknowledgedByOperator(a)]_vars
<1>1. ServiceInv /\ ConfigsWritten /\ Ledgers /\ [Next]_vars =>
        [\A a \in Alerts \ older : Apart(a) /\ NoLongerPending(a)
            => AcknowledgedByOperator(a)]_vars
  BY AckStep DEF Ledgers, Apart
<1> QED
  BY <1>1, LedgersInvariance, PTL DEF Spec

\* Where there are only such alerts, AckNeedsOperator holds.
THEOREM AcknowledgementsNeedOperators ==
  ASSUME OthersNameNone, \A a \in Alerts : Apart(a)
  PROVE  Spec => AckNeedsOperator
<1>1. [\A a \in Alerts \ older : Apart(a) /\ NoLongerPending(a)
            => AcknowledgedByOperator(a)]_vars =>
        [\A a \in Alerts \ older : NoLongerPending(a)
            => AcknowledgedByOperator(a)]_vars
  OBVIOUS
<1> QED
  BY <1>1, LeavesAckedByOperators, PTL DEF AckNeedsOperator
=============================================================================
