------------------------------ MODULE MCAlertDag ------------------------------
(* Two leaves and two summaries, for the runs that show where the service    *)
(* departs from its documentation.                                           *)
EXTENDS AlertService

CONSTANTS plant, line, pump, motor, Alarm, Warning

Blank == [enabled |-> TRUE, valueType |-> "int64", badValue |-> 1, property |-> Nil,
          intervals |-> <<>>, members |-> <<>>, type |-> "binary"]
Binary == [Blank EXCEPT !.type = "binary", !.property = Alarm]
Summary(members) == [Blank EXCEPT !.type = "summary", !.members = members]
Band(min, max, property) ==
    [min |-> min, max |-> max, active |-> property # Nil, property |-> property]
Level ==
    [Blank EXCEPT !.type = "value", !.valueType = "int64",
        !.intervals = <<Band(Nil, 1, Nil), Band(1, 2, Warning),
                        Band(2, Nil, Alarm)>>]
Bool(v) == [type |-> "bool", v |-> v]
Int64(v) == [type |-> "int64", v |-> v]
Class(p) == [priority |-> 100, requiresAck |-> p = Alarm]

InAnyOrder == CHOOSE q \in [1..Cardinality(Alerts) -> Alerts] :
                \A a \in Alerts : \E i \in DOMAIN q : q[i] = a
Quiet == [a \in Alerts |-> [ZeroState EXCEPT !.acknowledged = TRUE]]
Nobody == [a \in Alerts |-> {}]
Classes == [p \in PropertyNames |-> Class(p)]
NoClasses == [p \in PropertyNames |-> {}]

\* plant holds line and pump, line holds pump; plant is hooked to pump first.
PlantFirst == <<pump, plant, line>>
Diamond == [a \in Alerts |-> CASE a = plant -> Summary(<<pump, line>>)
                              [] a = line -> Summary(<<pump>>)
                              [] OTHER -> Binary]
\* line holds both leaves.
Pair == [a \in Alerts |-> IF a = line THEN Summary(<<pump, motor>>) ELSE Binary]
Levels == [a \in Alerts |-> Level]

AllGood == [a \in Alerts |-> Bool(0)]
AnyBool == [a \in Alerts |-> {Bool(0), Bool(1)}]
Low == [a \in Alerts |-> Int64(0)]
AnyLevel == [a \in Alerts |-> {Int64(v) : v \in 0..2}]
=============================================================================
