--------------------------- MODULE MCModbusService ---------------------------
(***************************************************************************)
(* Instances of ModbusService.  Main: two connections and two points, one  *)
(* that moves and one that is repaired; or one point whose descriptor is   *)
(* published while it is still being read.  One: one connection and one    *)
(* point.                                                                  *)
(***************************************************************************)
EXTENDS ModbusService, TLC

At(c, register, onChange) ==
    [connection |-> c, register |-> register, parses |-> TRUE, onChange |-> onChange]

CONSTANTS c1, c2, p1, p2, e1, e2

Unparsable == [At(c1, "coil", FALSE) EXCEPT !.parses = FALSE]

Steady ==
    (c1 :> e1) @@ (c2 :> e2)
        @@ (p1 :> At(c1, "holding", TRUE)) @@ (p2 :> Unparsable)
Arriving == [s \in Subjects |-> IF s = p1 THEN At(c1, "holding", TRUE) ELSE Nil]
MainInitials == {Steady, Arriving}
MainChoices ==
    (c1 :> {e2, Disabled}) @@ (c2 :> {})
        @@ (p1 :> {At(c2, "holding", TRUE), Disabled, Mistyped})
        @@ (p2 :> {At(c1, "coil", FALSE)})

\* Bound on the schedules: nothing changes before the reads of start-up are over.
Later == ops' # ops => \A r \in Readers : Done(r)

\* Nobody publishes c2, so it tells the two starts apart.
Arrives == retained[c2] = Nil

Publishes == Len(ingest') > Len(ingest)
NewMessage == ingest'[Len(ingest')]

\* Publications, device changes, failures and the end of the service.
Disturbances ==
    ops + failures + IF phase \in {"closing", "closed", "stopped"} THEN 1 ELSE 0

\* Bound on the schedules: the first start explores what follows on a change
\* when start-up is over, the second one the publications during start-up.
Scope ==
    IF Arrives
    THEN /\ Disturbances' <= 2
         /\ ops' # ops => Publishes /\ NewMessage.subject = p1
    ELSE /\ Disturbances' <= 3
         /\ phase = "loading" => failures' = 0
         /\ listed' # listed /\ <<"load", "connections">> \in listed'
            => \A kind \in Kinds : Done(<<"catchUp", kind>>)
         /\ Later
         /\ Publishes => NewMessage.at = NewMessage.id /\ NewMessage.raw # Mistyped
         /\ ingest # <<>> => ~Publishes /\ ingest' # ingest

Different == {(e1 :> 0) @@ (e2 :> 1)}

MCRank == (c1 :> 1) @@ (c2 :> 2) @@ (p1 :> 3) @@ (p2 :> 4)

OneInitials == { (c1 :> e1) @@ (p1 :> At(c1, "holding", FALSE))}
OneRank == (c1 :> 1) @@ (p1 :> 2)
StaleChoices == (c1 :> {e1, e2}) @@ (p1 :> {})
RaceChoices == (c1 :> {}) @@ (p1 :> {Disabled})
=============================================================================
