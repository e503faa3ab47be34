----------------------------- MODULE RetainStore -----------------------------
(***************************************************************************)
(* The last-value store: retain/store.go, the ingest side of               *)
(* retain/server.go and the shutdown order of retain-service/main.go.      *)
(*                                                                         *)
(* A value lives in up to four places: `values` (what Get answers),        *)
(* `dirty` (waiting for the next flush), `batch` (taken out of dirty by    *)
(* flushDirty, in a SQLite transaction that has not ended) and `disk`      *)
(* (the committed rows).  flushDirty holds store.mu only while it takes    *)
(* its batch and while it requeues it, so Put interleaves with every       *)
(* flush.  A payload is the number of the write that carried it: a larger  *)
(* payload is a later one, and 0 is an absent entry.                       *)
(***************************************************************************)
EXTENDS Naturals

CONSTANTS
    Subjects,       \* the NATS subjects that are written
    Nil,            \* no subject
    MaxWrites,      \* bound on the values ingested
    MaxErrors,      \* bound on the SQLite calls that fail
    MaxCrashes      \* bound on the deaths of the process

ASSUME NilAssumption == Nil \notin Subjects
ASSUME BoundsAssumption ==
    MaxWrites \in Nat /\ MaxErrors \in Nat /\ MaxCrashes \in Nat

VARIABLES
    values,         \* Store.values
    dirty,          \* Store.dirty
    batch,          \* local variable of flushDirty
    disk,           \* rows of the table last_value
    flusher,        \* the flush goroutine: "loop", or "writing" a batch
    plan,           \* which flush of flushLoop is current or next
    phase,          \* life of the process
    subscribed,     \* whether the ingest subscription is live
    handling,       \* subject of the message inside handleIngest, or Nil
    writes,         \* number of Puts so far; also the latest payload
    errors, crashes,
    late,           \* subjects Put by a callback that outlived Unsubscribe
    lastFailed      \* whether the flush right before Close returned failed

memory == <<values, dirty, batch>>
process == <<flusher, plan, phase, subscribed, handling>>
history == <<errors, crashes, late, lastFailed>>
vars == <<memory, disk, process, writes, history>>

Empty == [s \in Subjects |-> 0]

\* The entries of f, and those of g for the subjects f has no entry for.
Overlay(f, g) == [s \in Subjects |-> IF f[s] # 0 THEN f[s] ELSE g[s]]

TypeOK ==
    /\ values \in [Subjects -> Nat]
    /\ dirty \in [Subjects -> Nat]
    /\ batch \in [Subjects -> Nat]
    /\ disk \in [Subjects -> Nat]
    /\ flusher \in {"loop", "writing"}
    /\ plan \in {"tick", "stop2", "stop1", "done"}
    /\ phase \in {"down", "up", "closing", "closed"}
    /\ subscribed \in BOOLEAN
    /\ handling \in Subjects \cup {Nil}
    /\ writes \in Nat /\ errors \in Nat /\ crashes \in Nat
    /\ late \in SUBSET Subjects
    /\ lastFailed \in BOOLEAN

-----------------------------------------------------------------------------
Init ==
    /\ values = Empty /\ dirty = Empty /\ batch = Empty /\ disk = Empty
    /\ flusher = "loop" /\ plan = "tick" /\ phase = "down"
    /\ subscribed = FALSE /\ handling = Nil
    /\ writes = 0 /\ errors = 0 /\ crashes = 0
    /\ late = {} /\ lastFailed = FALSE

\* Open loads the table and starts flushLoop; Listen subscribes.
Open ==
    /\ phase = "down"
    /\ values' = disk
    /\ dirty' = Empty /\ batch' = Empty
    /\ flusher' = "loop" /\ plan' = "tick" /\ phase' = "up"
    /\ subscribed' = TRUE /\ handling' = Nil
    /\ late' = {} /\ lastFailed' = FALSE
    /\ UNCHANGED <<disk, writes, errors, crashes>>

\* NATS hands the next message to the callback of the ingest subscription.
HandleIngest(s) ==
    /\ subscribed /\ handling = Nil
    /\ writes < MaxWrites
    /\ handling' = s
    /\ UNCHANGED <<memory, disk, flusher, plan, phase, subscribed, writes, history>>

\* The rest of the callback: values and dirty change under one lock.
Put(s) ==
    /\ handling = s
    /\ values' = [values EXCEPT ![s] = writes + 1]
    /\ dirty' = [dirty EXCEPT ![s] = writes + 1]
    /\ writes' = writes + 1
    /\ handling' = Nil
    /\ late' = IF subscribed THEN late ELSE late \cup {s}
    /\ UNCHANGED <<batch, disk, flusher, plan, phase, subscribed,
                   errors, crashes, lastFailed>>

\* Mutant: one flush too many after stopFlush.
NextPlanOffByOne ==
    CASE plan = "stop2" -> "stop1"
      [] plan = "stop1" -> "stop0"
      [] OTHER -> plan

\* After stopFlush the goroutine flushes exactly twice and returns.
NextPlan ==
    CASE plan = "stop2" -> "stop1"
      [] plan = "stop1" -> "done"
      [] OTHER -> plan

FlushEnabled ==
    /\ flusher = "loop"
    /\ phase \in {"up", "closing"}
    /\ plan # "done"

\* flushDirty with an empty map returns at once.
FlushNothing ==
    /\ FlushEnabled
    /\ dirty = Empty
    /\ plan' = NextPlan
    /\ lastFailed' = FALSE
    /\ UNCHANGED <<memory, disk, flusher, phase, subscribed, handling,
                   writes, errors, crashes, late>>

\* flushDirty swaps the dirty map for an empty one under the lock.
TakeBatch ==
    /\ FlushEnabled
    /\ dirty # Empty
    /\ batch' = dirty
    /\ dirty' = Empty
    /\ flusher' = "writing"
    /\ UNCHANGED <<values, disk, plan, phase, subscribed, handling, writes, history>>

\* Mutant: the table is replaced by the batch.
CommitReplaces ==
    /\ flusher = "writing"
    /\ disk' = batch
    /\ batch' = Empty
    /\ flusher' = "loop"
    /\ plan' = NextPlan
    /\ lastFailed' = FALSE
    /\ UNCHANGED <<values, dirty, phase, subscribed, handling, writes,
                   errors, crashes, late>>

\* The transaction commits.
Commit ==
    /\ flusher = "writing"
    /\ disk' = Overlay(batch, disk)
    /\ batch' = Empty
    /\ flusher' = "loop"
    /\ plan' = NextPlan
    /\ lastFailed' = FALSE
    /\ UNCHANGED <<values, dirty, phase, subscribed, handling, writes,
                   errors, crashes, late>>

\* Mutants: requeue overwrites what was written during the flush; a failed
\* batch is dropped.
RequeuedOverwrites == Overlay(batch, dirty)
RequeuedDropped == dirty

\* What requeue leaves in dirty: a newer write to the subject is kept.
Requeued == Overlay(dirty, batch)

\* A statement fails and the transaction is rolled back, or Commit itself
\* reports an error, when the rows may or may not be in the file.
FlushFails ==
    /\ flusher = "writing"
    /\ errors < MaxErrors
    /\ errors' = errors + 1
    /\ disk' \in {disk, Overlay(batch, disk)}
    /\ dirty' = Requeued
    /\ batch' = Empty
    /\ flusher' = "loop"
    /\ plan' = NextPlan
    /\ lastFailed' = TRUE
    /\ UNCHANGED <<values, phase, subscribed, handling, writes, crashes, late>>

\* SIGTERM: the deferred server.Close unsubscribes; a callback that has
\* already been entered still runs.
CloseServer ==
    /\ phase = "up" /\ subscribed
    /\ subscribed' = FALSE
    /\ UNCHANGED <<memory, disk, flusher, plan, phase, handling, writes, history>>

\* The deferred store.Close closes stopFlush and waits.
CloseStore ==
    /\ phase = "up" /\ ~subscribed
    /\ phase' = "closing"
    /\ UNCHANGED <<memory, disk, flusher, plan, subscribed, handling, writes, history>>

\* Mutant: the goroutine returns on stopFlush without flushing.
ReceiveStopNoFlush ==
    /\ phase = "closing" /\ flusher = "loop" /\ plan = "tick"
    /\ plan' = "done"
    /\ UNCHANGED <<memory, disk, flusher, phase, subscribed, handling, writes, history>>

\* flushLoop's select takes the stop case.
ReceiveStop ==
    /\ phase = "closing" /\ flusher = "loop" /\ plan = "tick"
    /\ plan' = "stop2"
    /\ UNCHANGED <<memory, disk, flusher, phase, subscribed, handling, writes, history>>

\* flushDone is closed: Close closes the database and main returns.
CloseReturns ==
    /\ phase = "closing" /\ plan = "done"
    /\ phase' = "closed"
    /\ UNCHANGED <<memory, disk, flusher, plan, subscribed, handling, writes, history>>

\* The process is gone: everything but the file is lost.
Gone ==
    /\ values' = Empty /\ dirty' = Empty /\ batch' = Empty
    /\ flusher' = "loop" /\ plan' = "tick" /\ phase' = "down"
    /\ subscribed' = FALSE /\ handling' = Nil
    /\ late' = {} /\ lastFailed' = FALSE
    /\ UNCHANGED <<disk, writes, errors>>

Exit ==
    /\ phase = "closed"
    /\ Gone
    /\ UNCHANGED crashes

\* The process dies anywhere.  SQLite rolls the open transaction back.
Crash ==
    /\ phase \in {"up", "closing"}
    /\ crashes < MaxCrashes
    /\ crashes' = crashes + 1
    /\ Gone

Ingest == \E s \in Subjects : HandleIngest(s) \/ Put(s)
Flush == FlushNothing \/ TakeBatch \/ Commit \/ FlushFails
Shutdown == CloseServer \/ CloseStore \/ ReceiveStop \/ CloseReturns \/ Exit

Next == Open \/ Ingest \/ Flush \/ Shutdown \/ Crash

\* flushLoop is driven by a ticker, so a flush that can start does start and
\* a started transaction ends.  Nothing is assumed about senders or crashes.
Fairness == WF_vars(Flush)

Spec == Init /\ [][Next]_vars /\ Fairness

-----------------------------------------------------------------------------
\* While the process runs, what Get answers is never lost track of: it is
\* waiting in dirty, or in the batch being written, or already on disk, and
\* the newest of these is the one Get answers (Put, flushDirty, requeue).
NothingForgotten ==
    phase # "down" => values = Overlay(dirty, Overlay(batch, disk))

\* Close may only lose a value whose last flush failed, or one written by a
\* callback that was still running after the subscription was closed: one
\* failure among the two final flushes loses nothing (flushLoop, Close).
CloseKeepsValues ==
    phase = "closed" /\ ~lastFailed =>
        \A s \in Subjects : values[s] = disk[s] \/ s \in late

\* A value that stays in the running store reaches the file, although flushes
\* fail and newer writes of the same subject overtake it (flushLoop).
EventuallyDurable ==
    \A s \in Subjects : \A n \in 1..MaxWrites :
        (phase = "up" /\ values[s] = n) ~> (disk[s] >= n \/ phase # "up")

\* The store, with its batches, failing transactions, crashes and shutdown, is
\* the map of last values that its readers may rely on: a flush never takes a
\* newer row back, and a restart finds what had been committed.
LastValueMap == INSTANCE LastValues WITH
    current <- values, durable <- disk, running <- phase # "down"

ImplementsLastValues == LastValueMap!Spec

=============================================================================
