------------------------------ MODULE MCAlertTree ------------------------------
(* A summary of a summary: plant over the line and a pump, line over a motor. *)
(* The config of the line may be withdrawn, or be made to contain the plant.  *)
EXTENDS AlertService

CONSTANTS plant, line, pump, motor, Alarm

Blank == [enabled |-> TRUE, valueType |-> "int64", badValue |-> 1, property |-> Nil,
          intervals |-> <<>>, members |-> <<>>, type |-> "binary"]
Binary == [Blank EXCEPT !.type = "binary", !.property = Alarm]
Summary(members) == [Blank EXCEPT !.type = "summary", !.members = members]
Bool(v) == [type |-> "bool", v |-> v]

MCOrder == <<line, motor, plant, pump>>
MCInitialConfig ==
    [a \in Alerts |-> CASE a = plant -> Summary(<<line, pump>>)
                        [] a = line -> Summary(<<motor>>)
                        [] OTHER -> Binary]
MCInitialProperty == [p \in PropertyNames |-> [priority |-> 100, requiresAck |-> TRUE]]
MCInitialState == [a \in Alerts |-> [ZeroState EXCEPT !.acknowledged = TRUE]]
MCInitialInput == [a \in Alerts |-> IF a \in {pump, motor} THEN Bool(0) ELSE NoInput]
MCConfigChoices ==
    [a \in Alerts |-> IF a = line
                      THEN {[Summary(<<motor>>) EXCEPT !.enabled = FALSE],
                            Summary(<<plant>>), Summary(<<motor>>)}
                      ELSE {}]
MCPropertyChoices == [p \in PropertyNames |-> {}]
MCInputChoices ==
    [a \in Alerts |-> CASE a \in {pump, motor} -> {Bool(0), Bool(1)}
                        [] OTHER -> {}]
MCForeignStates == [a \in Alerts |-> {}]
MCAcknowledgers == {plant, motor}
MCRegistered == {<<line, "config">>, <<pump, "alert">>}

\* Bound on the schedules: the registry repeats an announcement at a restart, that
\* of a config when one operation can still meet it, that of a state when none can.
Repeated ==
    phase # "running" /\ phase' = "running" =>
        /\ crashes = 0 \/ ops < MaxOps - 1 => UNCHANGED configAdded
        /\ crashes = 0 \/ ops < MaxOps => UNCHANGED inbox

\* What the theorems about SummaryFollowsMembers and SummaryCoversPending suppose.
ASSUME TreeAssumption == Forest /\ ClassesApart /\ TwoLevels /\ OthersNamed
=============================================================================
