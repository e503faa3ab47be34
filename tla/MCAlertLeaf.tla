------------------------------ MODULE MCAlertLeaf ------------------------------
(* One value alert with a good and a bad range; everything may happen to it. *)
EXTENDS AlertService

CONSTANTS tank, Alarm

Band(min, max, property) ==
    [min |-> min, max |-> max, active |-> property # Nil, property |-> property]
Level(enabled) ==
    [type |-> "value", enabled |-> enabled, valueType |-> "int64",
     badValue |-> 0, property |-> Nil, members |-> <<>>,
     intervals |-> <<Band(Nil, 1, Nil), Band(1, Nil, Alarm)>>]
Number(type, v) == [type |-> type, v |-> v]
Class(requiresAck) == [priority |-> 100, requiresAck |-> requiresAck]

MCOrder == <<tank>>
MCInitialConfig == [a \in Alerts |-> Level(TRUE)]
MCInitialProperty == [p \in PropertyNames |-> Class(TRUE)]
MCInitialState == [a \in Alerts |-> Nil]
MCInitialInput == [a \in Alerts |-> Number("int64", 1)]
MCConfigChoices == [a \in Alerts |-> {Level(TRUE), Level(FALSE), Mistyped}]
MCPropertyChoices == [p \in PropertyNames |-> {Garbage, Class(FALSE)}]
MCInputChoices ==
    [a \in Alerts |-> {Number("int64", 0), Number("int64", 1), Number("float64", 0)}]
MCForeignStates ==
    [a \in Alerts |-> {Garbage, Mistyped, [ZeroState EXCEPT !.acknowledged = TRUE]}]
MCAcknowledgers == Alerts

\* What the theorem about AckNeedsOperator supposes.
ASSUME LeafAssumption == OthersNameNone /\ \A a \in Alerts : Apart(a)
=============================================================================
