---------------------------- MODULE AlertEvaluator ----------------------------
(***************************************************************************)
(* alert/evaluator.go, alert/model.go and the validation rules of          *)
(* alert/protocol.go: what one alert evaluates to, and how an evaluation   *)
(* or an acknowledgement changes its runtime state.                        *)
(*                                                                         *)
(* An alert is named by the common part of its three subjects:             *)
(* x.alert_config, x.alert (output) and x (source).  Text, colour and the  *)
(* other display fields are left out; a timestamp is whether it is set;    *)
(* the member list of a state is a set; an episode is a number, 0 being    *)
(* the empty episode_id.                                                   *)
(***************************************************************************)
EXTENDS Integers, Sequences

CONSTANTS
    Alerts,         \* alert names
    PropertyNames,  \* AlertProperties.<name> subjects
    Nil             \* Go's nil, an empty string, an absent map entry

ASSUME NilAssumption == Nil \notin Alerts /\ Nil \notin PropertyNames

Properties == [priority : Nat, requiresAck : BOOLEAN]

\* The resolved property in a state; NoPresentation is that of a good state.
Presentation ==
    [property : PropertyNames \cup {Nil}, priority : Nat, requiresAck : BOOLEAN]
NoPresentation == [property |-> Nil, priority |-> 0, requiresAck |-> FALSE]

State ==
    [active : BOOLEAN, pending : BOOLEAN, acknowledged : BOOLEAN,
     came : BOOLEAN, went : BOOLEAN, ack : BOOLEAN,
     presentation : Presentation, dominant : Alerts \cup {Nil},
     members : SUBSET Alerts, episode : Nat]

Evaluation ==
    [active : BOOLEAN, pending : BOOLEAN, acknowledged : BOOLEAN,
     presentation : Presentation, dominant : Alerts \cup {Nil},
     members : SUBSET Alerts]

\* Go's zero State, from which a first evaluation starts.
ZeroState ==
    [active |-> FALSE, pending |-> FALSE, acknowledged |-> FALSE,
     came |-> FALSE, went |-> FALSE, ack |-> FALSE,
     presentation |-> NoPresentation, dominant |-> Nil,
     members |-> {}, episode |-> 0]

\* Evaluation{Acknowledged: true}, what makeInactiveLocked applies.
Inactive ==
    [active |-> FALSE, pending |-> FALSE, acknowledged |-> TRUE,
     presentation |-> NoPresentation, dominant |-> Nil, members |-> {}]

ASSUME NilIsNoRecord == Nil \notin State /\ Nil \notin Evaluation

-----------------------------------------------------------------------------
(* Configurations.  Every config record has the fields of all variants;    *)
(* those of the other variants are empty.                                  *)

\* An interval bound that is Nil is unbounded.
Interval ==
    [min : {Nil} \cup Int, max : {Nil} \cup Int, active : BOOLEAN,
     property : PropertyNames \cup {Nil}]

Config ==
    [type : {"binary", "value", "summary"}, enabled : BOOLEAN,
     badValue : {0, 1}, property : PropertyNames \cup {Nil},
     valueType : {"int64", "float64"}, intervals : Seq(Interval),
     members : Seq(Alerts)]

ValidIntervals(intervals) ==
    /\ intervals # <<>>
    /\ intervals[1].min = Nil
    /\ intervals[Len(intervals)].max = Nil
    /\ \A i \in DOMAIN intervals :
        LET min == intervals[i].min
            max == intervals[i].max
        IN  /\ intervals[i].active <=> intervals[i].property # Nil
            /\ min # Nil /\ max # Nil => min < max
            /\ i > 1 => /\ min # Nil
                        /\ intervals[i - 1].max # Nil
                        /\ intervals[i - 1].max = min

ValidMembers(members, a) ==
    /\ members # <<>>
    /\ \A i, j \in DOMAIN members : members[i] = members[j] => i = j
    /\ \A i \in DOMAIN members : members[i] # a

\* Config.Validate and ValidateForSubject for the config of alert a.  (A
\* payload of any other shape does not decode.)
ValidConfig(c, a) ==
    CASE c.type = "binary" -> c.property # Nil
      [] c.type = "value" -> ValidIntervals(c.intervals)
      [] OTHER -> ValidMembers(c.members, a)

References(c, property) ==
    \/ c.type = "binary" /\ c.property = property
    \/ c.type = "value"
       /\ \E i \in DOMAIN c.intervals : c.intervals[i].property = property

-----------------------------------------------------------------------------
(* Evaluation.  Nil is an error result.                                    *)

\* resolvePresentation and the Evaluation built around it.
Raised(property, properties) ==
    IF properties[property] = Nil
    THEN Nil
    ELSE [Inactive EXCEPT
            !.active = TRUE,
            !.acknowledged = FALSE,
            !.presentation =
                [property |-> property,
                 priority |-> properties[property].priority,
                 requiresAck |-> properties[property].requiresAck]]

Good == [Inactive EXCEPT !.acknowledged = FALSE]

\* An input is [type, v]; a bool is 0 or 1.
EvaluateBinary(c, input, properties) ==
    IF input.v = c.badValue THEN Raised(c.property, properties) ELSE Good

\* A value lies in [min, max).
Contains(interval, v) ==
    /\ interval.min # Nil => v >= interval.min
    /\ interval.max # Nil => v < interval.max

\* The interval loops of EvaluateInt64 and EvaluateFloat64, and the type test
\* of EvaluateValue.
EvaluateValue(c, input, properties) ==
    LET hits == {i \in DOMAIN c.intervals : Contains(c.intervals[i], input.v)}
    IN  IF input.type # c.valueType \/ hits = {}
        THEN Nil
        ELSE LET i == CHOOSE k \in hits : \A h \in hits : k <= h
             IN  IF c.intervals[i].active
                 THEN Raised(c.intervals[i].property, properties)
                 ELSE Good

\* State.Validate.
Validate(s) ==
    /\ ~(s.pending /\ s.acknowledged)
    /\ s.active => s.episode # 0 /\ s.came /\ ~s.went
    /\ s.went => s.came
    /\ s.ack => s.acknowledged
    /\ s.presentation.property = Nil => s.presentation = NoPresentation
    /\ s.dominant # Nil => s.dominant \in s.members

\* Whether x replaces y as the dominant member when it comes later.
Dominates(x, y) ==
    \/ x.active /\ ~y.active
    \/ x.active = y.active /\ x.presentation.priority > y.presentation.priority

Raising(s) == s.active \/ s.pending

MemberSet(c) == {c.members[i] : i \in DOMAIN c.members}

\* Go's loop keeps the first of the members that nothing dominates.
EvaluateSummary(c, states) ==
    LET raised == {m \in MemberSet(c) : Raising(states[m])}
        top == {m \in raised : \A x \in raised : ~Dominates(states[x], states[m])}
        first == CHOOSE i \in DOMAIN c.members :
                    /\ c.members[i] \in top
                    /\ \A j \in DOMAIN c.members : c.members[j] \in top => i <= j
        pending == \E m \in raised : states[m].pending
    IN  IF \E m \in MemberSet(c) : states[m] = Nil \/ ~Validate(states[m])
        THEN Nil
        ELSE IF raised = {}
        THEN Inactive
        ELSE [active |-> \E m \in raised : states[m].active,
              pending |-> pending,
              acknowledged |-> ~pending,
              presentation |-> states[c.members[first]].presentation,
              dominant |-> c.members[first],
              members |-> raised]

-----------------------------------------------------------------------------
(* Lifecycle.                                                              *)

\* Mutant: a new episode keeps the went time of the one before.
LifecycleKeepsWent(previous, e, id) ==
    LET prev == IF previous = Nil THEN ZeroState ELSE previous
        starting == e.active /\ ~prev.active
    IN  [ZeroState EXCEPT
            !.active = e.active, !.acknowledged = TRUE, !.came = starting \/ prev.came,
            !.went = prev.went \/ (prev.active /\ ~e.active),
            !.presentation = e.presentation,
            !.episode = IF starting THEN id ELSE prev.episode]

\* The state ApplyEvaluation builds before its final Validate.
Lifecycle(previous, e, id) ==
    LET prev == IF previous = Nil THEN ZeroState ELSE previous
        starting == e.active /\ ~prev.active
        pending == IF starting
                   THEN \/ e.pending
                        \/ e.presentation.requiresAck /\ ~e.acknowledged
                   ELSE prev.pending \/ e.pending
    IN  [active |-> e.active,
         pending |-> pending,
         acknowledged |-> /\ ~pending
                          /\ \/ starting
                             \/ e.active /\ prev.acknowledged
                             \/ ~e.active /\ (\/ e.acknowledged
                                              \/ ~e.presentation.requiresAck),
         came |-> starting \/ prev.came,
         went |-> ~starting /\ (prev.went \/ (prev.active /\ ~e.active)),
         ack |-> ~starting /\ ~pending /\ prev.ack,
         presentation |-> e.presentation,
         dominant |-> e.dominant,
         members |-> e.members,
         episode |-> IF starting THEN id ELSE prev.episode]

\* Nil is an error: the caller keeps the previous state.
ApplyEvaluation(previous, e, id) ==
    LET next == Lifecycle(previous, e, id)
    IN  IF (previous # Nil /\ ~Validate(previous)) \/ ~Validate(next)
        THEN Nil
        ELSE next

Acknowledgeable(s) == Validate(s) /\ s.episode # 0 /\ s.pending

\* Acknowledge for the state's own episode, as acknowledgeOneLocked calls it.
Acknowledge(s) ==
    IF Acknowledgeable(s)
    THEN [s EXCEPT !.pending = FALSE, !.acknowledged = TRUE, !.ack = TRUE]
    ELSE s

=============================================================================
