------------------------------- MODULE MCStream -------------------------------
(***************************************************************************)
(* Three writers on two clients, one subject and the registry, one reader  *)
(* of each kind.  Each start has the bounds for one question.              *)
(***************************************************************************)
EXTENDS Stream

CONSTANTS c1, c2, w1, w2, w3, x, created, feed, retain, watchX, k1, k2

MCClientOf == w1 :> c1 @@ w2 :> c2 @@ w3 :> c1
\* Two clocks, one of them ahead.
MCSkew == c1 :> 0 @@ c2 :> 1
MCRank == x :> 1 @@ created :> 2
MCFilters == {[listed |-> FALSE, subjects |-> {x}],
              [listed |-> TRUE, subjects |-> {x, created}]}

MCWatchOf == x :> watchX
MCWorkerOf == x :> k1

Value(s, about, at) == [subject |-> s, about |-> about, at |-> at, typed |-> TRUE]
Left(calls, faults, mistyped, subscriptions, watches) ==
    [calls |-> calls, faults |-> faults, mistyped |-> mistyped,
     subscriptions |-> subscriptions, watches |-> watches]

Old == <<Value(x, x, 1), Value(created, x, 2)>>

\* What a program finds, and what then happens: a new subject written by several,
\* read while it appears (both kinds of reader), and a subject with a value that
\* is read while others write it.
MCStarts ==
    {[log |-> <<>>, left |-> Left(2, 1, 0, 0, 0)],
     [log |-> <<>>, left |-> Left(1, 0, 0, 1, 0)],
     [log |-> <<>>, left |-> Left(1, 1, 0, 0, 2)],
     [log |-> Old, left |-> Left(1, 0, 1, 1, 0)],
     [log |-> Old, left |-> Left(2, 1, 0, 1, 0)],
     [log |-> Old, left |-> Left(2, 0, 0, 0, 4)]}
\* A subscription to a subject that has a value and is written once more.
MCStopStarts == {[log |-> Old, left |-> Left(1, 0, 0, 1, 0)]}
=============================================================================
