------------------------- MODULE AlertEvaluatorProofs -------------------------
(***************************************************************************)
(* What alert/evaluator.go computes, for every alert, property, config and *)
(* state: evaluations have the shape the lifecycle relies on, and the      *)
(* lifecycle turns a valid state into a valid state.                       *)
(***************************************************************************)
EXTENDS AlertEvaluator, FiniteSetTheorems, WellFoundedInduction, TLAPS

\* What the lifecycle needs of an evaluation.
Sane(e) ==
    /\ e.presentation.property = Nil => e.presentation = NoPresentation
    /\ e.dominant # Nil => e.dominant \in e.members
    /\ ~e.active /\ ~e.pending => e.acknowledged \/ ~e.presentation.requiresAck

\* The previous state the lifecycle starts from is valid.
LEMMA ZeroStateValid == ZeroState \in State /\ Validate(ZeroState)
  BY DEF ZeroState, State, Validate, Presentation, NoPresentation

LEMMA InactiveSane == Inactive \in Evaluation /\ Sane(Inactive)
  BY DEF Inactive, Evaluation, Sane, Presentation, NoPresentation

LEMMA GoodSane == Good \in Evaluation /\ Sane(Good)
  BY DEF Good, Inactive, Evaluation, Sane, Presentation, NoPresentation

\* The lifecycle rules of ApplyEvaluation build a state ...
LEMMA LifecycleTyped ==
  ASSUME NEW previous \in State \cup {Nil}, NEW e \in Evaluation, NEW id \in Nat
  PROVE  Lifecycle(previous, e, id) \in State
<1> DEFINE prev == IF previous = Nil THEN ZeroState ELSE previous
<1>1. prev \in State
  BY ZeroStateValid
<1> HIDE DEF prev
<1>2. e.active \in BOOLEAN /\ e.pending \in BOOLEAN /\ e.acknowledged \in BOOLEAN
  BY DEF Evaluation
<1> QED
  BY <1>1, <1>2 DEF Lifecycle, prev, State, Evaluation, Presentation

\* ... and keep it valid.
LEMMA LifecycleValid ==
  ASSUME NEW previous \in State \cup {Nil}, previous # Nil => Validate(previous),
         NEW e \in Evaluation, Sane(e), NEW id \in Nat \ {0}
  PROVE  /\ Lifecycle(previous, e, id) \in State
         /\ Validate(Lifecycle(previous, e, id))
<1> DEFINE prev == IF previous = Nil THEN ZeroState ELSE previous
           starting == e.active /\ ~prev.active
           pending == IF starting
                      THEN \/ e.pending
                           \/ e.presentation.requiresAck /\ ~e.acknowledged
                      ELSE prev.pending \/ e.pending
           next == Lifecycle(previous, e, id)
<1>1. prev \in State /\ Validate(prev)
  BY ZeroStateValid
<1>2. next = [active |-> e.active,
              pending |-> pending,
              acknowledged |-> /\ ~pending
                               /\ \/ starting
                                  \/ e.active /\ prev.acknowledged
                                  \/ ~e.active /\ (\/ e.acknowledged
                                                   \/ ~e.presentation.requiresAck),
              came |-> starting \/ prev.came,
              went |-> ~starting /\ (prev.went \/ (prev.active /\ ~e.active)),
              ack |-> ~starting /\ ~pending /\ prev.ack,
              presentation |-> e.presentation,
              dominant |-> e.dominant,
              members |-> e.members,
              episode |-> IF starting THEN id ELSE prev.episode]
  BY DEF Lifecycle
<1> HIDE DEF prev, next
<1>3. next \in State
  BY <1>1, <1>2 DEF State, Evaluation, Presentation
<1>4. Validate(next)
  BY <1>1, <1>2, <1>3 DEF Validate, State, Evaluation, Presentation, Sane
<1> QED
  BY <1>3, <1>4 DEF next

-----------------------------------------------------------------------------
(* The dominant member of a summary exists.                                *)

\* Dominance between states is irreflexive and transitive.
LEMMA DominatesOrder ==
  ASSUME NEW x \in State, NEW y \in State, NEW z \in State
  PROVE  /\ ~Dominates(x, x)
         /\ Dominates(x, y) /\ Dominates(y, z) => Dominates(x, z)
  BY DEF Dominates, State, Presentation

\* Among finitely many states one is dominated by none.
LEMMA MaximalState ==
  ASSUME NEW S, IsFiniteSet(S), S # {},
         NEW st, \A m \in S : st[m] \in State
  PROVE  \E m \in S : \A x \in S : ~Dominates(st[x], st[m])
<1> DEFINE Top(A) == \E m \in A : \A x \in A : ~Dominates(st[x], st[m])
           Bad == {A \in FiniteSubsetsOf(S) : A # {} /\ ~Top(A)}
           R == StrictSubsetOrdering(S)
<1>1. SUFFICES Bad = {}
  <2>1. S \in FiniteSubsetsOf(S)
    BY DEF FiniteSubsetsOf
  <2> QED
    BY <2>1
<1>2. SUFFICES ASSUME Bad # {} PROVE FALSE
  OBVIOUS
<1>3. PICK A \in Bad : \A B \in Bad : ~(<<B, A>> \in R)
  <2>1. IsWellFoundedOn(R, FiniteSubsetsOf(S))
    BY FS_StrictSubsetOrderingWellFounded
  <2> HIDE DEF R
  <2>2. Bad \subseteq FiniteSubsetsOf(S)
    OBVIOUS
  <2> HIDE DEF Bad
  <2> QED
    BY <1>2, <2>1, <2>2, WFMin
<1>4. A \subseteq S /\ IsFiniteSet(A) /\ A # {} /\ ~Top(A)
  BY DEF FiniteSubsetsOf
<1>5. PICK y \in A : TRUE
  BY <1>4
<1> DEFINE B == A \ {y}
<1>6. B \notin Bad
  BY <1>3, <1>4, <1>5 DEF StrictSubsetOrdering
<1>7. IsFiniteSet(B)
  BY <1>4, FS_RemoveElement
<1>8. B = {} \/ Top(B)
  BY <1>4, <1>6, <1>7 DEF FiniteSubsetsOf
<1>9. CASE B = {}
  <2>1. A = {y}
    BY <1>5, <1>9
  <2>2. ~Dominates(st[y], st[y])
    BY <1>4, <1>5, DominatesOrder
  <2> QED
    BY <1>4, <2>1, <2>2
<1>10. CASE Top(B)
  <2>1. PICK m \in B : \A x \in B : ~Dominates(st[x], st[m])
    BY <1>10
  <2>2. CASE Dominates(st[y], st[m])
    <3>1. \A x \in B : ~Dominates(st[x], st[y])
      BY <1>4, <1>5, <2>1, <2>2, DominatesOrder
    <3>2. ~Dominates(st[y], st[y])
      BY <1>4, <1>5, DominatesOrder
    <3>3. \A x \in A : ~Dominates(st[x], st[y])
      BY <3>1, <3>2
    <3> QED
      BY <1>4, <1>5, <3>3
  <2>3. CASE ~Dominates(st[y], st[m])
    <3>1. \A x \in A : ~Dominates(st[x], st[m])
      BY <2>1, <2>3
    <3> QED
      BY <1>4, <2>1, <3>1
  <2> QED
    BY <2>2, <2>3
<1> QED
  BY <1>8, <1>9, <1>10

\* A set of naturals that is not empty has a least element.
LEMMA LeastNatural ==
  ASSUME NEW T \in SUBSET Nat, T # {}
  PROVE  \E i \in T : \A j \in T : i <= j
<1>1. PICK R : IsWellFoundedOn(R, Nat) /\ R = {p \in Nat \X Nat : p[1] < p[2]}
  BY Zenon, NatLessThanWellFounded DEF OpToRel
<1>2. PICK i \in T : \A j \in T : ~(<<j, i>> \in R)
  BY <1>1, WFMin
<1>3. \A j \in T : ~(j < i)
  BY <1>1, <1>2
<1> QED
  BY <1>3

-----------------------------------------------------------------------------
(* What every kind of config evaluates to is sane.                         *)

\* An error, or an evaluation the lifecycle can take.
SaneResult(e) == e = Nil \/ (e \in Evaluation /\ Sane(e))

\* resolvePresentation yields a full presentation.
LEMMA RaisedSane ==
  ASSUME NEW p \in PropertyNames,
         NEW props \in [PropertyNames -> Properties \cup {Nil}]
  PROVE  SaneResult(Raised(p, props))
<1>1. CASE props[p] = Nil
  BY <1>1 DEF Raised, SaneResult
<1>2. CASE props[p] # Nil
  <2>1. props[p] \in Properties
    BY <1>2
  <2>2. Raised(p, props) =
          [active |-> TRUE, pending |-> FALSE, acknowledged |-> FALSE,
           presentation |-> [property |-> p, priority |-> props[p].priority,
                             requiresAck |-> props[p].requiresAck],
           dominant |-> Nil, members |-> {}]
    BY <1>2 DEF Raised, Inactive
  <2> QED
    BY <2>1, <2>2, NilAssumption
    DEF Properties, SaneResult, Sane, Evaluation, Presentation
<1> QED
  BY <1>1, <1>2

\* EvaluateBool, for a config that names its property.
LEMMA BinarySane ==
  ASSUME NEW c \in Config, c.property # Nil, NEW input,
         NEW props \in [PropertyNames -> Properties \cup {Nil}]
  PROVE  SaneResult(EvaluateBinary(c, input, props))
<1>1. c.property \in PropertyNames
  BY DEF Config
<1> QED
  BY <1>1, RaisedSane, GoodSane DEF EvaluateBinary, SaneResult

\* EvaluateValue: the interval a value lies in names a property when it is
\* an active one.
LEMMA ValueSane ==
  ASSUME NEW c \in Config, ValidIntervals(c.intervals), NEW input,
         NEW props \in [PropertyNames -> Properties \cup {Nil}]
  PROVE  SaneResult(EvaluateValue(c, input, props))
<1> DEFINE ivs == c.intervals
           hits == {i \in DOMAIN ivs : Contains(ivs[i], input.v)}
           i == CHOOSE k \in hits : \A h \in hits : k <= h
<1>0. ivs \in Seq(Interval)
  BY DEF Config
<1>1. CASE input.type # c.valueType \/ hits = {}
  BY <1>1 DEF EvaluateValue, SaneResult
<1>2. CASE ~(input.type # c.valueType \/ hits = {})
  <2>1. i \in hits
    <3>1. hits \in SUBSET Nat
      BY <1>0
    <3> HIDE DEF hits
    <3>2. \E k \in hits : \A h \in hits : k <= h
      BY <1>2, <3>1, LeastNatural
    <3> QED
      BY <3>2
  <2>2. ivs[i] \in Interval
    <3>1. i \in DOMAIN ivs
      BY <2>1
    <3> HIDE DEF i, ivs
    <3> QED
      BY <1>0, <3>1
  <2>3. ivs[i].active <=> ivs[i].property # Nil
    BY <2>1 DEF ValidIntervals
  <2>4. EvaluateValue(c, input, props) =
          IF ivs[i].active THEN Raised(ivs[i].property, props) ELSE Good
    BY <1>2 DEF EvaluateValue
  <2> HIDE DEF i, ivs
  <2>5. ivs[i].active => ivs[i].property \in PropertyNames
    BY <2>2, <2>3 DEF Interval
  <2> QED
    BY <2>4, <2>5, RaisedSane, GoodSane DEF SaneResult
<1> QED
  BY <1>1, <1>2

\* The members of a summary are finitely many.
LEMMA MembersFinite ==
  ASSUME NEW c \in Config
  PROVE  MemberSet(c) \in SUBSET Alerts /\ IsFiniteSet(MemberSet(c))
<1>1. c.members \in Seq(Alerts)
  BY DEF Config
<1>2. PICK n \in Nat : DOMAIN c.members = 1..n
  BY <1>1
<1>3. IsFiniteSet(1..n)
  BY <1>2, FS_Interval
<1>4. c.members \in Surjection(1..n, MemberSet(c))
  BY <1>1, <1>2 DEF Surjection, MemberSet
<1> QED
  BY <1>1, <1>3, <1>4, FS_Surjection DEF MemberSet

\* EvaluateSummary: the dominant member it selects is one of the members it
\* reports, and its presentation is that member's.  It fails only for a member
\* without a valid state.
LEMMA SummarySane ==
  ASSUME NEW c \in Config, NEW st \in [Alerts -> State \cup {Nil}]
  PROVE  /\ SaneResult(EvaluateSummary(c, st))
         /\ EvaluateSummary(c, st) = Nil =>
                \E m \in MemberSet(c) : st[m] = Nil \/ ~Validate(st[m])
<1> DEFINE raised == {m \in MemberSet(c) : Raising(st[m])}
           top == {m \in raised : \A x \in raised : ~Dominates(st[x], st[m])}
           at == {i \in DOMAIN c.members : c.members[i] \in top}
           first == CHOOSE i \in DOMAIN c.members :
                        /\ c.members[i] \in top
                        /\ \A j \in DOMAIN c.members : c.members[j] \in top => i <= j
           pending == \E m \in raised : st[m].pending
           unknown == \E m \in MemberSet(c) : st[m] = Nil \/ ~Validate(st[m])
<1>1. MemberSet(c) \in SUBSET Alerts /\ IsFiniteSet(MemberSet(c))
  BY MembersFinite
<1>2. CASE unknown
  BY <1>2 DEF EvaluateSummary, SaneResult
<1>3. CASE ~unknown /\ raised = {}
  BY <1>3, InactiveSane, NilIsNoRecord DEF EvaluateSummary, SaneResult
<1>4. CASE ~unknown /\ raised # {}
  <2>1. raised \in SUBSET Alerts /\ IsFiniteSet(raised)
    BY <1>1, FS_Subset
  <2>2. \A m \in MemberSet(c) : st[m] \in State /\ Validate(st[m])
    BY <1>1, <1>4
  <2>3. \E m \in raised : \A x \in raised : ~Dominates(st[x], st[m])
    <3>1. raised # {} /\ \A m \in raised : st[m] \in State
      BY <1>4, <2>2
    <3> HIDE DEF raised
    <3> QED
      BY <2>1, <3>1, MaximalState
  <2>4. at \in SUBSET Nat /\ at # {}
    <3>1. c.members \in Seq(Alerts)
      BY DEF Config
    <3>2. PICK m \in top : TRUE
      BY <2>3
    <3>3. m \in MemberSet(c)
      OBVIOUS
    <3> HIDE DEF top
    <3> QED
      BY <3>1, <3>2, <3>3 DEF MemberSet
  <2>5. first \in DOMAIN c.members /\ c.members[first] \in top
    <3>1. \E i \in at : \A j \in at : i <= j
      <4> HIDE DEF at
      <4> QED
        BY <2>4, LeastNatural
    <3> HIDE DEF top
    <3>2. \E i \in DOMAIN c.members :
              /\ c.members[i] \in top
              /\ \A j \in DOMAIN c.members : c.members[j] \in top => i <= j
      BY <3>1
    <3> QED
      BY <3>2
  <2> DEFINE m == c.members[first]
             e == [active |-> \E x \in raised : st[x].active,
                   pending |-> pending,
                   acknowledged |-> ~pending,
                   presentation |-> st[m].presentation,
                   dominant |-> m,
                   members |-> raised]
  <2>6. m \in raised /\ st[m] \in State /\ Validate(st[m])
    BY <2>2, <2>5
  <2>7. EvaluateSummary(c, st) = e
    BY <1>4 DEF EvaluateSummary
  <2> HIDE DEF m
  <2>8. e \in Evaluation
    BY <2>1, <2>6 DEF Evaluation, State
  <2>9. Sane(e)
    BY <2>6 DEF Sane, Validate
  <2> QED
    BY <2>7, <2>8, <2>9, NilIsNoRecord DEF SaneResult
<1> QED
  BY <1>2, <1>3, <1>4

-----------------------------------------------------------------------------
(* Steps of a state.                                                       *)

\* ApplyEvaluation refuses or yields a valid state.
LEMMA ApplyEvaluationValid ==
  ASSUME NEW previous \in State \cup {Nil}, NEW e \in Evaluation, NEW id \in Nat
  PROVE  LET next == ApplyEvaluation(previous, e, id)
         IN  next = Nil \/ (next \in State /\ Validate(next))
  BY LifecycleTyped DEF ApplyEvaluation

\* ApplyEvaluation refuses no sane evaluation of an alert in a valid state:
\* applyLocked never logs and keeps a stale state.
THEOREM ApplyNeverRefuses ==
  ASSUME NEW previous \in State \cup {Nil}, previous # Nil => Validate(previous),
         NEW e \in Evaluation, Sane(e), NEW id \in Nat \ {0}
  PROVE  ApplyEvaluation(previous, e, id) # Nil
  BY LifecycleValid, NilIsNoRecord DEF ApplyEvaluation

\* An acknowledgement keeps a valid state valid.
LEMMA AcknowledgeValid ==
  ASSUME NEW s \in State, Validate(s)
  PROVE  Acknowledge(s) \in State /\ Validate(Acknowledge(s))
<1>1. CASE ~Acknowledgeable(s)
  BY <1>1 DEF Acknowledge
<1>2. CASE Acknowledgeable(s)
  <2>1. Acknowledge(s) = [s EXCEPT !.pending = FALSE, !.acknowledged = TRUE, !.ack = TRUE]
    BY <1>2 DEF Acknowledge
  <2> QED
    BY <2>1 DEF State, Validate
<1> QED
  BY <1>1, <1>2

\* How an evaluation changes the pending flag and the episode.
LEMMA LifecyclePending ==
  ASSUME NEW previous, NEW e, NEW id
  PROVE  LET prev == IF previous = Nil THEN ZeroState ELSE previous
             starting == e.active /\ ~prev.active
             next == Lifecycle(previous, e, id)
         IN  /\ starting =>
                    /\ next.episode = id
                    /\ next.pending <=> \/ e.pending
                                        \/ e.presentation.requiresAck /\ ~e.acknowledged
             /\ ~starting => /\ next.episode = prev.episode
                             /\ next.pending <=> prev.pending \/ e.pending
<1> DEFINE prev == IF previous = Nil THEN ZeroState ELSE previous
           starting == e.active /\ ~prev.active
           pending == IF starting
                      THEN \/ e.pending
                           \/ e.presentation.requiresAck /\ ~e.acknowledged
                      ELSE prev.pending \/ e.pending
           episode == IF starting THEN id ELSE prev.episode
           next == Lifecycle(previous, e, id)
<1>1. next = [active |-> e.active,
              pending |-> pending,
              acknowledged |-> /\ ~pending
                               /\ \/ starting
                                  \/ e.active /\ prev.acknowledged
                                  \/ ~e.active /\ (\/ e.acknowledged
                                                   \/ ~e.presentation.requiresAck),
              came |-> starting \/ prev.came,
              went |-> ~starting /\ (prev.went \/ (prev.active /\ ~e.active)),
              ack |-> ~starting /\ ~pending /\ prev.ack,
              presentation |-> e.presentation,
              dominant |-> e.dominant,
              members |-> e.members,
              episode |-> episode]
  BY DEF Lifecycle
<1> HIDE DEF prev, next, starting, pending, episode
<1>2. next.pending = pending /\ next.episode = episode
  BY <1>1
<1>3. (next.pending <=> pending) /\ next.episode = episode
  BY <1>2
<1> QED
  BY <1>3 DEF pending, episode, prev, next, starting
=============================================================================
