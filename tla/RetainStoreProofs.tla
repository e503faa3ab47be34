-------------------------- MODULE RetainStoreProofs --------------------------
(***************************************************************************)
(* Proofs about RetainStore, for every set of subjects and every bound.    *)
(***************************************************************************)
EXTENDS RetainStore, TLAPS

\* Overlay is a function from subjects to payloads.
LEMMA OverlayType ==
    ASSUME NEW f \in [Subjects -> Nat], NEW g \in [Subjects -> Nat]
    PROVE  Overlay(f, g) \in [Subjects -> Nat]
BY DEF Overlay

\* The variables of the store keep their types in every step.
LEMMA TypeStep == TypeOK /\ [Next]_vars => TypeOK'
<1> SUFFICES ASSUME TypeOK, [Next]_vars PROVE TypeOK'
  OBVIOUS
<1> USE DEF TypeOK, memory, process, history
<1>1. CASE Open BY <1>1 DEF Open, Empty
<1>2. ASSUME NEW s \in Subjects, HandleIngest(s) PROVE TypeOK'
  BY <1>2 DEF HandleIngest
<1>3. ASSUME NEW s \in Subjects, Put(s) PROVE TypeOK'
  BY <1>3, NilAssumption DEF Put
<1>4. CASE FlushNothing BY <1>4 DEF FlushNothing, NextPlan, FlushEnabled
<1>5. CASE TakeBatch BY <1>5 DEF TakeBatch, Empty
<1>6. CASE Commit BY <1>6, OverlayType DEF Commit, Empty, NextPlan
<1>7. CASE FlushFails
  BY <1>7, OverlayType DEF FlushFails, Empty, NextPlan, Requeued
<1>8. CASE CloseServer BY <1>8 DEF CloseServer
<1>9. CASE CloseStore BY <1>9 DEF CloseStore
<1>10. CASE ReceiveStop BY <1>10 DEF ReceiveStop
<1>11. CASE CloseReturns BY <1>11 DEF CloseReturns
<1>12. CASE Exit BY <1>12 DEF Exit, Gone, Empty
<1>13. CASE Crash
  <2>1. subscribed' \in BOOLEAN /\ lastFailed' \in BOOLEAN
    BY <1>13, Zenon DEF Crash, Gone
  <2>2. QED BY <1>13, <2>1 DEF Crash, Gone, Empty
<1>14. CASE UNCHANGED vars BY <1>14 DEF vars
<1>15. QED
  BY <1>1, <1>2, <1>3, <1>4, <1>5, <1>6, <1>7, <1>8, <1>9, <1>10, <1>11,
     <1>12, <1>13, <1>14
     DEF Next, Ingest, Flush, Shutdown

\* The initial state of the store has its type.
LEMMA InitType == Init => TypeOK
<1> SUFFICES ASSUME Init PROVE TypeOK
  OBVIOUS
<1>1. subscribed \in BOOLEAN /\ lastFailed \in BOOLEAN
  BY Zenon DEF Init
<1>2. QED BY <1>1 DEF Init, TypeOK, Empty

\* Every reachable state of the store has its type.
THEOREM TypeCorrect == Spec => []TypeOK
BY InitType, TypeStep, PTL DEF Spec

-----------------------------------------------------------------------------
(***************************************************************************)
(* NothingForgotten.  It is inductive with two facts about the goroutine:  *)
(* between flushes there is no batch, and a process that is down holds no  *)
(* memory.                                                                 *)
(***************************************************************************)
BatchOnlyWhileWriting == flusher = "loop" => batch = Empty
FlusherOnlyWhileUp == flusher = "writing" => phase \in {"up", "closing"}
DoneIsIdle == plan = "done" => flusher = "loop"
NotHandlingWhenDown == phase = "down" => handling = Nil /\ ~subscribed

ForgottenInv ==
    /\ TypeOK
    /\ NothingForgotten
    /\ BatchOnlyWhileWriting
    /\ FlusherOnlyWhileUp
    /\ DoneIsIdle
    /\ NotHandlingWhenDown

\* The strengthened invariant is kept by every step of the store.
LEMMA ForgottenStep == ForgottenInv /\ [Next]_vars => ForgottenInv'
<1> SUFFICES ASSUME ForgottenInv, [Next]_vars PROVE ForgottenInv'
  OBVIOUS
<1>0. TypeOK' BY TypeStep DEF ForgottenInv
<1> DEFINE Rest == /\ NothingForgotten
                   /\ BatchOnlyWhileWriting
                   /\ FlusherOnlyWhileUp
                   /\ DoneIsIdle
                   /\ NotHandlingWhenDown
<1> SUFFICES Rest'
  BY <1>0 DEF ForgottenInv
<1> USE DEF ForgottenInv, TypeOK, NothingForgotten, BatchOnlyWhileWriting,
            FlusherOnlyWhileUp, DoneIsIdle, NotHandlingWhenDown, memory, history
<1>1. CASE Open BY <1>1 DEF Open, Overlay, Empty
<1>2. ASSUME NEW s \in Subjects, HandleIngest(s) PROVE Rest'
  BY <1>2 DEF HandleIngest
<1>3. ASSUME NEW s \in Subjects, Put(s) PROVE Rest'
  <2>1. phase # "down" BY <1>3, NilAssumption DEF Put
  <2>2. ASSUME NEW x \in Subjects
        PROVE  values'[x] = Overlay(dirty', Overlay(batch', disk'))[x]
    BY <1>3, <2>1, <2>2 DEF Put, Overlay
  <2>3. values' = Overlay(dirty', Overlay(batch', disk'))
    BY <1>3, <2>2 DEF Put, Overlay
  <2>4. QED BY <1>3, <2>1, <2>3 DEF Put
<1>4. CASE FlushNothing BY <1>4 DEF FlushNothing, FlushEnabled
<1>5. CASE TakeBatch BY <1>5 DEF TakeBatch, FlushEnabled, Overlay, Empty
<1>6. CASE Commit BY <1>6 DEF Commit, Overlay, Empty
<1>7. CASE FlushFails BY <1>7 DEF FlushFails, Requeued, Overlay, Empty
<1>8. CASE CloseServer BY <1>8 DEF CloseServer
<1>9. CASE CloseStore BY <1>9 DEF CloseStore
<1>10. CASE ReceiveStop BY <1>10 DEF ReceiveStop
<1>11. CASE CloseReturns BY <1>11 DEF CloseReturns
<1>12. CASE Exit BY <1>12 DEF Exit, Gone
<1>13. CASE Crash BY <1>13 DEF Crash, Gone
<1>14. CASE UNCHANGED vars BY <1>14 DEF vars, process
<1>15. QED
  BY <1>1, <1>2, <1>3, <1>4, <1>5, <1>6, <1>7, <1>8, <1>9, <1>10, <1>11,
     <1>12, <1>13, <1>14
     DEF Next, Ingest, Flush, Shutdown

\* What Get answers is always the newest of dirty, batch and disk.
THEOREM NothingIsForgotten == Spec => []NothingForgotten
<1>1. Init => ForgottenInv
  BY InitType DEF Init, ForgottenInv, NothingForgotten, BatchOnlyWhileWriting,
         FlusherOnlyWhileUp, DoneIsIdle, NotHandlingWhenDown, Empty
<1>2. ForgottenInv => NothingForgotten BY DEF ForgottenInv
<1>3. QED BY <1>1, <1>2, ForgottenStep, PTL DEF Spec

-----------------------------------------------------------------------------
(***************************************************************************)
(* CloseKeepsValues.  Once flushLoop has taken the stop case nobody is     *)
(* subscribed, so whatever enters dirty after a final flush took its batch *)
(* comes from a late callback.                                             *)
(***************************************************************************)
StopOrder ==
    /\ phase \in {"closing", "closed"} => ~subscribed
    /\ plan # "tick" => phase \in {"closing", "closed"}
    /\ phase = "closed" => plan = "done"

OnlyLateIsDirty ==
    \/ plan \in {"stop2", "stop1"} /\ flusher = "writing"
    \/ plan = "done" /\ ~lastFailed
    => \A s \in Subjects : dirty[s] # 0 => s \in late

CloseInv == ForgottenInv /\ StopOrder /\ OnlyLateIsDirty

\* The strengthened invariant of Close is kept by every step.
LEMMA CloseStep == CloseInv /\ [Next]_vars => CloseInv'
<1> SUFFICES ASSUME CloseInv, [Next]_vars PROVE CloseInv'
  OBVIOUS
<1>0. ForgottenInv' BY ForgottenStep DEF CloseInv
<1> SUFFICES (StopOrder /\ OnlyLateIsDirty)'
  BY <1>0 DEF CloseInv
<1> USE DEF CloseInv, ForgottenInv, TypeOK, StopOrder, OnlyLateIsDirty,
            DoneIsIdle, NotHandlingWhenDown, memory, history
<1>1. CASE Open BY <1>1 DEF Open
<1>2. ASSUME NEW s \in Subjects, HandleIngest(s)
      PROVE  (StopOrder /\ OnlyLateIsDirty)'
  BY <1>2 DEF HandleIngest
<1>3. ASSUME NEW s \in Subjects, Put(s)
      PROVE  (StopOrder /\ OnlyLateIsDirty)'
  BY <1>3 DEF Put
<1>4. CASE FlushNothing
  BY <1>4 DEF FlushNothing, FlushEnabled, NextPlan, Empty
<1>5. CASE TakeBatch BY <1>5 DEF TakeBatch, FlushEnabled, Empty
<1>6. CASE Commit BY <1>6 DEF Commit, NextPlan
<1>7. CASE FlushFails BY <1>7 DEF FlushFails, NextPlan
<1>8. CASE CloseServer BY <1>8 DEF CloseServer
<1>9. CASE CloseStore BY <1>9 DEF CloseStore
<1>10. CASE ReceiveStop BY <1>10 DEF ReceiveStop
<1>11. CASE CloseReturns BY <1>11 DEF CloseReturns
<1>12. CASE Exit BY <1>12 DEF Exit, Gone
<1>13. CASE Crash BY <1>13 DEF Crash, Gone
<1>14. CASE UNCHANGED vars BY <1>14 DEF vars, process
<1>15. QED
  BY <1>1, <1>2, <1>3, <1>4, <1>5, <1>6, <1>7, <1>8, <1>9, <1>10, <1>11,
     <1>12, <1>13, <1>14
     DEF Next, Ingest, Flush, Shutdown

\* Close loses nothing but what a failed last flush or a late callback held.
THEOREM CloseLosesNothing == Spec => []CloseKeepsValues
<1>1. Init => CloseInv
  BY InitType DEF Init, CloseInv, ForgottenInv, NothingForgotten,
         BatchOnlyWhileWriting, FlusherOnlyWhileUp, DoneIsIdle,
         NotHandlingWhenDown, StopOrder, OnlyLateIsDirty
<1>2. CloseInv => CloseKeepsValues
  BY DEF CloseInv, ForgottenInv, TypeOK, NothingForgotten,
         BatchOnlyWhileWriting, DoneIsIdle, StopOrder, OnlyLateIsDirty,
         CloseKeepsValues, Overlay, Empty
<1>3. QED BY <1>1, <1>2, CloseStep, PTL DEF Spec

-----------------------------------------------------------------------------
(***************************************************************************)
(* Refinement of LastValues.  A commit only moves a row forward because    *)
(* the layers are ordered: what waits longer is older.                     *)
(***************************************************************************)
LayersOrdered ==
    \A s \in Subjects :
        /\ disk[s] <= writes /\ batch[s] <= writes
        /\ dirty[s] <= writes /\ values[s] <= writes
        /\ batch[s] # 0 => disk[s] <= batch[s]
        /\ dirty[s] # 0 => disk[s] <= dirty[s] /\ batch[s] <= dirty[s]

LayersInv == ForgottenInv /\ LayersOrdered

\* The order of the layers is kept by every step.
LEMMA LayersStep == LayersInv /\ [Next]_vars => LayersInv'
<1> SUFFICES ASSUME LayersInv, [Next]_vars PROVE LayersInv'
  OBVIOUS
<1>0. ForgottenInv' BY ForgottenStep DEF LayersInv
<1> SUFFICES LayersOrdered'
  BY <1>0 DEF LayersInv
<1> USE DEF LayersInv, ForgottenInv, TypeOK, LayersOrdered, memory, history
<1>1. CASE Open BY <1>1 DEF Open, Empty
<1>2. ASSUME NEW s \in Subjects, HandleIngest(s) PROVE LayersOrdered'
  BY <1>2 DEF HandleIngest
<1>3. ASSUME NEW s \in Subjects, Put(s) PROVE LayersOrdered'
  BY <1>3 DEF Put
<1>4. CASE FlushNothing BY <1>4 DEF FlushNothing
<1>5. CASE TakeBatch
  BY <1>5 DEF TakeBatch, FlushEnabled, BatchOnlyWhileWriting, Empty
<1>6. CASE Commit BY <1>6 DEF Commit, Overlay, Empty
<1>7. CASE FlushFails BY <1>7 DEF FlushFails, Requeued, Overlay, Empty
<1>8. CASE CloseServer BY <1>8 DEF CloseServer
<1>9. CASE CloseStore BY <1>9 DEF CloseStore
<1>10. CASE ReceiveStop BY <1>10 DEF ReceiveStop
<1>11. CASE CloseReturns BY <1>11 DEF CloseReturns
<1>12. CASE Exit BY <1>12 DEF Exit, Gone, Empty
<1>13. CASE Crash BY <1>13 DEF Crash, Gone, Empty
<1>14. CASE UNCHANGED vars BY <1>14 DEF vars
<1>15. QED
  BY <1>1, <1>2, <1>3, <1>4, <1>5, <1>6, <1>7, <1>8, <1>9, <1>10, <1>11,
     <1>12, <1>13, <1>14
     DEF Next, Ingest, Flush, Shutdown

\* Every step of the store is a step of the map of last values, or none.
LEMMA StoreStep == LayersInv /\ [Next]_vars => [LastValueMap!Next]_(LastValueMap!vars)
<1> SUFFICES ASSUME LayersInv, [Next]_vars
             PROVE  [LastValueMap!Next]_(LastValueMap!vars)
  OBVIOUS
<1> DEFINE Same == UNCHANGED <<values, disk>> /\ (phase # "down")' = (phase # "down")
<1>0. Same => UNCHANGED LastValueMap!vars
  BY DEF LastValueMap!vars
<1> USE DEF LayersInv, ForgottenInv, TypeOK, memory, history
<1>1. CASE Open
  BY <1>1 DEF Open, LastValueMap!Next, LastValueMap!Start
<1>2. ASSUME NEW s \in Subjects, HandleIngest(s) PROVE Same
  BY <1>2 DEF HandleIngest
<1>3. ASSUME NEW s \in Subjects, Put(s) PROVE LastValueMap!Next
  <2>1. phase # "down" BY <1>3, NilAssumption DEF Put, NotHandlingWhenDown
  <2>2. values'[s] > values[s] BY <1>3 DEF Put, LayersOrdered
  <2>3. values' = [values EXCEPT ![s] = values'[s]] BY <1>3 DEF Put
  <2>4. LastValueMap!Write(s)
    BY <1>3, <2>1, <2>2, <2>3 DEF Put, LastValueMap!Write
  <2>5. QED BY <2>4 DEF LastValueMap!Next
<1>4. CASE FlushNothing BY <1>4, <1>0 DEF FlushNothing
<1>5. ASSUME disk' \in {disk, Overlay(batch, disk)}, flusher = "writing",
             UNCHANGED <<values, phase>>
      PROVE  LastValueMap!Next
  <2>1. phase # "down" BY <1>5 DEF FlusherOnlyWhileUp
  <2>2. disk' = [s \in Subjects |-> disk'[s]] BY <1>5 DEF Overlay
  <2>3. ASSUME NEW s \in Subjects
        PROVE  disk[s] <= disk'[s] /\ disk'[s] <= values[s]
    BY <1>5, <2>1 DEF Overlay, LayersOrdered, NothingForgotten
  <2>4. LastValueMap!Persist
    BY <1>5, <2>1, <2>2, <2>3 DEF LastValueMap!Persist
  <2>5. QED BY <2>4 DEF LastValueMap!Next
<1>6. CASE Commit BY <1>6, <1>5 DEF Commit
<1>7. CASE FlushFails BY <1>7, <1>5 DEF FlushFails
<1>8. CASE TakeBatch BY <1>8, <1>0 DEF TakeBatch
<1>9. CASE CloseServer BY <1>9, <1>0 DEF CloseServer
<1>10. CASE CloseStore BY <1>10, <1>0 DEF CloseStore
<1>11. CASE ReceiveStop BY <1>11, <1>0 DEF ReceiveStop
<1>12. CASE CloseReturns BY <1>12, <1>0 DEF CloseReturns
<1>13. ASSUME Gone, phase # "down" PROVE LastValueMap!Next
  BY <1>13 DEF Gone, Empty, LastValueMap!Next, LastValueMap!Stop,
               LastValueMap!Nothing
<1>14. CASE Exit BY <1>13, <1>14 DEF Exit
<1>15. CASE Crash BY <1>13, <1>15 DEF Crash
<1>16. CASE UNCHANGED vars BY <1>16, <1>0 DEF vars, process
<1>17. QED
  BY <1>0, <1>1, <1>2, <1>3, <1>4, <1>6, <1>7, <1>8, <1>9, <1>10, <1>11,
     <1>12, <1>14, <1>15, <1>16
     DEF Next, Ingest, Flush, Shutdown

\* The store implements the map of last values (Put, flushDirty, requeue, load,
\* Close and any crash).
THEOREM StoreImplementsMap == Spec => ImplementsLastValues
<1>1. Init => LayersInv
  BY InitType DEF Init, LayersInv, LayersOrdered, ForgottenInv, NothingForgotten,
         BatchOnlyWhileWriting, FlusherOnlyWhileUp, DoneIsIdle,
         NotHandlingWhenDown, Empty
<1>2. Init => LastValueMap!Init
  BY DEF Init, Empty, LastValueMap!Init, LastValueMap!Nothing
<1>3. QED
  BY <1>1, <1>2, LayersStep, StoreStep, PTL
     DEF Spec, ImplementsLastValues, LastValueMap!Spec

=============================================================================
