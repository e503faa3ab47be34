-------------------------------- MODULE Stream --------------------------------
(***************************************************************************)
(* Writers, the retain service and readers of both kinds on one bus.       *)
(***************************************************************************)
EXTENDS StreamSubscribe, ExactSubscribe

\* Every watch and every subscription is a NATS subscription of its own.
ASSUME ReaderAssumption == \A s \in Watchable : WatchOf[s] \notin Feeds

vars == <<busVars, subVars, exactVars>>

Init == BusInit /\ SubInit /\ ExactInit

Next ==
    \/ BusNext /\ UNCHANGED <<subVars, exactVars>>
    \/ SubNext /\ UNCHANGED exactVars
    \/ ExactNext /\ UNCHANGED subVars

\* The goroutines of a subscription run and its handler returns.
Fairness ==
    \A r \in Feeds : /\ WF_vars(CatchUp(r) /\ UNCHANGED exactVars)
                     /\ WF_vars(Live(r) /\ UNCHANGED exactVars)
                     /\ WF_vars(Closed(r) /\ UNCHANGED exactVars)

Spec == Init /\ [][Next]_vars /\ Fairness

TypeOK == BusTypeOK /\ SubTypeOK /\ ExactTypeOK
=============================================================================
