----------------------- MODULE RedisStreamQueueSafety -----------------------
(***************************************************************************)
(* The safety properties of RedisStreamQueue, proved for any number of     *)
(* producers, workers, heartbeats, attempts and mishaps.  Every property   *)
(* has a strengthening of its own, named after what it is about.           *)
(***************************************************************************)
EXTENDS RedisStreamQueueProofs

USE ConstantsAssumption

-----------------------------------------------------------------------------
(* The fate of a task: what its records claim was decided, and nothing     *)
(* leaves the queue undecided.                                             *)

\* A record that claims a terminal state speaks the truth.
Honest(t, status) == status \in Terminal => VerdictOf(status) \in verdict[t]

FinishSteps == AckSteps \cup BurySteps \cup DiscardSteps

HonestWorkers == \A w \in Workers : step[w] # "poll" => Honest(task[w], copy[w].status)
IdleWorkers == \A w \in Workers : step[w] = "poll" => copy[w].status \notin Terminal
HonestBeats == \A b \in beats : Honest(b.task, b.rec.status)
HonestCancel ==
    ctl.step # "none" => ctl.rec.status = "cancelled" /\ "cancelled" \in verdict[ctl.task]
FinishingIsDecided == \A w \in Workers : step[w] \in FinishSteps => verdict[task[w]] # {}

FateInv ==
    /\ HonestStatus
    /\ HonestWorkers
    /\ IdleWorkers
    /\ HonestBeats
    /\ HonestCancel
    /\ FinishingIsDecided
    /\ NoTaskLost

LEMMA FreshIsOpen == Fresh.status \notin Terminal /\ Missing.status \notin Terminal
  BY DEF Fresh, Missing, Terminal

LEMMA FateInit == Init => FateInv
  <1> SUFFICES ASSUME Init PROVE FateInv
    OBVIOUS
  <1>1. Missing.status = "missing" /\ Fresh.status = "queued"
    BY DEF Missing, Fresh
  <1> QED
    BY <1>1 DEF Init, FateInv, HonestStatus, HonestWorkers, HonestBeats, HonestCancel,
       IdleWorkers, FinishingIsDecided, FinishSteps, AckSteps, BurySteps, DiscardSteps,
       NoTaskLost, Settled, Terminal

\* Decisions are never taken back.
LEMMA VerdictGrows ==
  ASSUME TypeOK, NEW t \in Tasks, NEW v \in Verdicts, Decide(t, v)
  PROVE  v \in verdict'[t] /\ \A u \in Tasks : verdict[u] \subseteq verdict'[u]
  BY DEF Decide, TypeOK

\* A hash write stores an honest record or leaves the hash alone.
LEMMA HonestWrite ==
  ASSUME TypeOK, HonestStatus, NEW t \in Tasks, NEW rec \in Record, Honest(t, rec.status),
         WriteHash(t, rec), UNCHANGED verdict
  PROVE  HonestStatus'
  BY DEF TypeOK, HonestStatus, Honest, WriteHash

\* Every step keeps FateInv, by who takes it.
LEMMA FateEnqueue ==
  ASSUME TypeOK, FateInv, NEW t \in Tasks, Enqueue(t) \/ ReserveFails(t) \/ ProducerCrash(t)
  PROVE  FateInv'
  <1>1. UNCHANGED <<workers, beats, ctl, verdict>>
    BY DEF Enqueue, ReserveDedup, LookupOwner, PeekExisting, DropPlaceholder, Publish,
       Unreserve, ReleaseDedup, RecordInitial, ReserveFails, ProducerCrash
  <1>2. HonestStatus'
    <2>1. CASE RecordInitial(t)
      <3>1. Fresh.status = "queued"
        BY DEF Fresh
      <3> QED
        BY <1>1, <2>1, <3>1, Records DEF RecordInitial, FateInv, HonestStatus, TypeOK, Terminal
    <2>2. CASE ~ RecordInitial(t)
      <3>1. UNCHANGED hash
        BY <2>2 DEF Enqueue, ReserveDedup, LookupOwner, PeekExisting, DropPlaceholder, Publish,
           Unreserve, ReleaseDedup, ReserveFails, ProducerCrash, redis
      <3> QED
        BY <1>1, <3>1 DEF FateInv, HonestStatus
    <2> QED
      BY <2>1, <2>2
  <1>3. NoTaskLost'
    <2>1. \A u \in Tasks : entry'[u] = entry[u] \/ entry'[u] = "new"
      BY DEF Enqueue, ReserveDedup, LookupOwner, PeekExisting, DropPlaceholder, Publish,
         Unreserve, ReleaseDedup, RecordInitial, ReserveFails, ProducerCrash, redis, TypeOK
    <2> QED
      BY <1>1, <2>1 DEF FateInv, NoTaskLost, Settled
  <1> QED
    BY <1>1, <1>2, <1>3 DEF FateInv, HonestWorkers, IdleWorkers, HonestBeats, HonestCancel,
       FinishingIsDecided, Honest, workers

LEMMA FateClaim ==
  ASSUME TypeOK, FateInv, NEW w \in Workers,
         (\E t \in Tasks : Reclaim(w, t) \/ ReadNew(w, t)) \/ Hydrate(w) \/ WriteLease(w)
  PROVE  FateInv'
  <1> USE DEF FateInv
  <1>1. ASSUME NEW t \in Tasks, Reclaim(w, t) \/ ReadNew(w, t)
        PROVE  FateInv'
    <2>1. /\ UNCHANGED <<hash, copy, beats, ctl, verdict>>
          /\ step' = [step EXCEPT ![w] = "hydrate"]
          /\ task' = [task EXCEPT ![w] = t]
          /\ step[w] = "poll"
          /\ \A u \in Tasks : entry'[u] = entry[u] \/ entry'[u] = "pending"
      BY <1>1 DEF Reclaim, ReadNew, Take, Goto, TypeOK
    <2>2. copy[w].status \notin Terminal
      BY <2>1 DEF IdleWorkers
    <2>3. HonestWorkers'
      BY <2>1, <2>2 DEF HonestWorkers, Honest, TypeOK
    <2>4. FinishingIsDecided'
      BY <2>1 DEF FinishingIsDecided, FinishSteps, AckSteps, BurySteps, DiscardSteps, TypeOK
    <2>5. NoTaskLost'
      BY <2>1 DEF NoTaskLost, Settled
    <2>6. IdleWorkers'
      BY <2>1 DEF IdleWorkers, TypeOK
    <2> QED
      BY <2>1, <2>3, <2>4, <2>5, <2>6 DEF HonestStatus, HonestBeats, HonestCancel, Honest
  <1>2. CASE Hydrate(w)
    <2>1. /\ UNCHANGED <<hash, entry, beats, ctl, verdict>>
          /\ step[w] = "hydrate"
          /\ task[w] \in Tasks
      BY <1>2, HeldTask DEF Hydrate, redis
    <2>2. PICK rec \in Record : HydrateAs(w, rec) /\ Honest(task[w], rec.status)
      <3>1. Honest(task[w], Fresh.status)
        BY DEF Fresh, Honest, Terminal
      <3>2. Honest(task[w], hash[task[w]].status)
        BY <2>1 DEF HonestStatus, Honest
      <3> QED
        BY <1>2, <2>1, <3>1, <3>2, HeldTask, Records DEF Hydrate
    <2>3. CASE rec.status \in Terminal
      <3>1. step' = [step EXCEPT ![w] = "discard_xack"] /\ UNCHANGED <<task, copy>>
        BY <2>2, <2>3 DEF HydrateAs, Goto
      <3>2. verdict[task[w]] # {}
        BY <2>2, <2>3 DEF Honest
      <3>3. FinishingIsDecided'
        BY <2>1, <3>1, <3>2 DEF FinishingIsDecided, TypeOK
      <3>4. HonestWorkers' /\ IdleWorkers'
        BY <2>1, <3>1 DEF HonestWorkers, IdleWorkers, Honest, TypeOK
      <3> QED
        BY <2>1, <3>3, <3>4 DEF HonestStatus, HonestBeats, HonestCancel, Honest, NoTaskLost, Settled
    <2>4. CASE rec.status \notin Terminal
      <3>1. \/ Leave(w)
            \/ /\ step' = [step EXCEPT ![w] = "lease"]
               /\ copy' = [copy EXCEPT ![w] = [rec EXCEPT !.status = "running", !.sid = TRUE]]
               /\ UNCHANGED task
        BY <2>2, <2>4 DEF HydrateAs, Goto
      <3>2. [rec EXCEPT !.status = "running", !.sid = TRUE].status = "running"
        BY DEF Record
      <3>3. HonestWorkers' /\ IdleWorkers'
        BY <2>1, <3>1, <3>2, FreshIsOpen
           DEF HonestWorkers, IdleWorkers, Honest, TypeOK, Leave, Goto, Terminal
      <3>4. FinishingIsDecided'
        BY <2>1, <3>1 DEF FinishingIsDecided, TypeOK, Leave, Goto, FinishSteps, AckSteps,
           BurySteps, DiscardSteps
      <3> QED
        BY <2>1, <3>3, <3>4 DEF HonestStatus, HonestBeats, HonestCancel, Honest, NoTaskLost, Settled
    <2> QED
      BY <2>3, <2>4
  <1>3. CASE WriteLease(w)
    <2>1. /\ UNCHANGED <<entry, task, copy, beats, ctl, verdict>>
          /\ WriteHash(task[w], copy[w])
          /\ step[w] = "lease"
          /\ \E s \in {"handle", "unregistered"} : step' = [step EXCEPT ![w] = s]
      BY <1>3 DEF WriteLease, Goto
    <2>2. HonestStatus'
      BY <2>1, HonestWrite, HeldTask DEF HonestWorkers
    <2>3. HonestWorkers' /\ IdleWorkers' /\ FinishingIsDecided'
      BY <2>1 DEF HonestWorkers, IdleWorkers, Honest, FinishingIsDecided, TypeOK, FinishSteps,
         AckSteps, BurySteps, DiscardSteps
    <2> QED
      BY <2>1, <2>2, <2>3 DEF HonestBeats, HonestCancel, Honest, NoTaskLost, Settled
  <1> QED
    BY <1>1, <1>2, <1>3

LEMMA FateHandler ==
  ASSUME TypeOK, FateInv, NEW w \in Workers,
         HandlerSucceeds(w) \/ HandlerRaises(w) \/ NoHandler(w)
  PROVE  FateInv'
  <1> USE DEF FateInv
  <1>1. /\ task[w] \in Tasks /\ copy[w] \in Record
        /\ step[w] \in {"handle", "unregistered"}
        /\ UNCHANGED <<hash, entry, task, beats, ctl>>
    BY HeldTask DEF HandlerSucceeds, HandlerRaises, NoHandler, redis
  <1>2. PICK s, c : /\ step' = [step EXCEPT ![w] = s] /\ s \in WorkerSteps \ {"poll"}
                    /\ copy' = [copy EXCEPT ![w] = c] /\ c \in Record
                    /\ Honest(task[w], c.status)'
                    /\ s \in FinishSteps => verdict'[task[w]] # {}
                    /\ \A u \in Tasks : verdict[u] \subseteq verdict'[u]
    <2>1. CASE HandlerSucceeds(w)
      <3>1. "ok" \in verdict'[task[w]] /\ \A u \in Tasks : verdict[u] \subseteq verdict'[u]
        BY <1>1, <2>1, VerdictGrows DEF HandlerSucceeds, Verdicts
      <3>2. /\ [copy[w] EXCEPT !.status = "succeeded"] \in Record
            /\ [copy[w] EXCEPT !.status = "succeeded"].status = "succeeded"
        BY <1>1 DEF Record, Status, Terminal
      <3>3. copy' = [copy EXCEPT ![w] = [copy[w] EXCEPT !.status = "succeeded"]]
        BY <2>1 DEF HandlerSucceeds
      <3>4. step' = [step EXCEPT ![w] = "ack_xack"]
        BY <2>1 DEF HandlerSucceeds, Goto
      <3> QED
        BY <1>1, <3>1, <3>2, <3>3, <3>4 DEF Honest, VerdictOf, WorkerSteps, AckSteps
    <2>2. CASE HandlerRaises(w)
      <3>1. PICK n \in {copy[w].attempts + 1, hash[task[w]].attempts + 1} : RetryOrGiveUp(w, n)
        BY <2>2 DEF HandlerRaises
      <3>2. n \in Nat
        BY <1>1 DEF Record, TypeOK
      <3>3. CASE n < MaxAttempts
        <4>1. /\ copy' = [copy EXCEPT ![w] =
                           [copy[w] EXCEPT !.status = "queued", !.attempts = n, !.later = TRUE]]
              /\ step' = [step EXCEPT ![w] = "retry_hash"]
              /\ UNCHANGED verdict
          BY <3>1, <3>3 DEF RetryOrGiveUp, Goto
        <4>2. LET c == [copy[w] EXCEPT !.status = "queued", !.attempts = n, !.later = TRUE]
              IN  c \in Record /\ c.status = "queued"
          BY <1>1, <3>2 DEF Record, Status
        <4> QED
          BY <1>1, <4>1, <4>2 DEF Honest, Terminal, WorkerSteps, FinishSteps, AckSteps, BurySteps,
             DiscardSteps
      <3>4. CASE ~ (n < MaxAttempts)
        <4>1. /\ copy' = [copy EXCEPT ![w] = [copy[w] EXCEPT !.status = "dead", !.attempts = n]]
              /\ step' = [step EXCEPT ![w] = "bury_hash"]
              /\ Decide(task[w], "dead")
          BY <3>1, <3>4 DEF RetryOrGiveUp, Goto
        <4>2. LET c == [copy[w] EXCEPT !.status = "dead", !.attempts = n]
              IN  c \in Record /\ c.status = "dead"
          BY <1>1, <3>2 DEF Record, Status, Terminal
        <4>3. "dead" \in verdict'[task[w]] /\ \A u \in Tasks : verdict[u] \subseteq verdict'[u]
          BY <1>1, <4>1, VerdictGrows DEF Verdicts
        <4> QED
          BY <1>1, <4>1, <4>2, <4>3 DEF Honest, VerdictOf, WorkerSteps, BurySteps
      <3> QED
        BY <3>3, <3>4
    <2>3. CASE NoHandler(w)
      <3>1. PICK n \in {copy[w].attempts + 1, hash[task[w]].attempts + 1} :
               copy' = [copy EXCEPT ![w].status = "failed", ![w].attempts = n]
        BY <2>3 DEF NoHandler
      <3>2. n \in Nat
        BY <1>1 DEF Record, TypeOK
      <3>3. copy' = [copy EXCEPT ![w] = [copy[w] EXCEPT !.status = "failed", !.attempts = n]]
        BY <3>1
      <3>4. LET c == [copy[w] EXCEPT !.status = "failed", !.attempts = n]
            IN  c \in Record /\ c.status = "failed"
        BY <1>1, <3>2 DEF Record, Status, Terminal
      <3>5. "failed" \in verdict'[task[w]] /\ \A u \in Tasks : verdict[u] \subseteq verdict'[u]
        BY <1>1, <2>3, VerdictGrows DEF NoHandler, Verdicts
      <3>6. step' = [step EXCEPT ![w] = "bury_hash"]
        BY <2>3 DEF NoHandler, Goto
      <3> QED
        BY <1>1, <3>3, <3>4, <3>5, <3>6 DEF Honest, VerdictOf, WorkerSteps, BurySteps
    <2> QED
      BY <2>1, <2>2, <2>3
  <1>3. HonestStatus' /\ NoTaskLost'
    BY <1>1, <1>2 DEF HonestStatus, NoTaskLost, Settled
  <1>4. HonestWorkers'
    BY <1>1, <1>2 DEF HonestWorkers, Honest, TypeOK
  <1>5. IdleWorkers'
    BY <1>2 DEF IdleWorkers, TypeOK
  <1>6. HonestBeats'
    BY <1>1, <1>2 DEF HonestBeats, Honest, TypeOK
  <1>7. HonestCancel'
    BY <1>1, <1>2 DEF HonestCancel, TypeOK
  <1>8. FinishingIsDecided'
    <2> SUFFICES ASSUME NEW v \in Workers, step'[v] \in FinishSteps
                 PROVE  verdict'[task'[v]] # {}
      BY DEF FinishingIsDecided
    <2>1. CASE v = w
      BY <1>1, <1>2, <2>1 DEF TypeOK
    <2>2. CASE v # w
      <3>1. step[v] \in FinishSteps /\ task'[v] = task[v]
        BY <1>1, <1>2, <2>2 DEF TypeOK
      <3>2. task[v] \in Tasks
        BY <3>1, HeldTask DEF FinishSteps, AckSteps, BurySteps, DiscardSteps
      <3> QED
        BY <1>2, <3>1, <3>2 DEF FinishingIsDecided
    <2> QED
      BY <2>1, <2>2
  <1> QED
    BY <1>3, <1>4, <1>5, <1>6, <1>7, <1>8

\* A worker that lets go of its task leaves nothing behind that FateInv speaks of.
LEMMA FateLeave ==
  ASSUME TypeOK, FateInv, NEW w \in Workers, Leave(w), UNCHANGED verdict
  PROVE  HonestWorkers' /\ IdleWorkers' /\ FinishingIsDecided'
  BY FreshIsOpen DEF FateInv, HonestWorkers, IdleWorkers, FinishingIsDecided, Honest, Leave,
     Goto, TypeOK, FinishSteps, AckSteps, BurySteps, DiscardSteps

LEMMA FateFinish ==
  ASSUME TypeOK, FateInv, NEW w \in Workers,
         \/ WriteRetry(w) \/ WriteGivenUp(w) \/ AddDeadLetter(w) \/ Xack(w) \/ Xdel(w)
         \/ WriteSucceeded(w) \/ FinishFails(w) \/ WorkerCrash(w)
  PROVE  FateInv'
  <1> USE DEF FateInv, FinishSteps, AckSteps, BurySteps, DiscardSteps
  <1>1. /\ task[w] \in Tasks /\ copy[w] \in Record
        /\ step[w] # "poll"
        /\ UNCHANGED <<ctl, verdict>>
        /\ beats' \subseteq beats
    BY HeldTask DEF WriteRetry, WriteGivenUp, AddDeadLetter, Xack, Xdel, WriteSucceeded,
       FinishFails, WorkerCrash
  <1>2. HonestStatus'
    <2>1. CASE WriteRetry(w) \/ WriteGivenUp(w) \/ WriteSucceeded(w)
      BY <1>1, <2>1, HonestWrite DEF WriteRetry, WriteGivenUp, WriteSucceeded, HonestWorkers
    <2>2. CASE AddDeadLetter(w) \/ Xack(w) \/ Xdel(w) \/ FinishFails(w) \/ WorkerCrash(w)
      BY <1>1, <2>2 DEF AddDeadLetter, Xack, Xdel, FinishFails, WorkerCrash, redis, HonestStatus
    <2> QED
      BY <2>1, <2>2
  <1>3. HonestWorkers' /\ IdleWorkers' /\ FinishingIsDecided'
    <2>1. CASE \/ WriteRetry(w) \/ WriteSucceeded(w) \/ FinishFails(w) \/ WorkerCrash(w)
               \/ Xdel(w) /\ Leave(w)
      BY <1>1, <2>1, FateLeave DEF WriteRetry, WriteSucceeded, FinishFails, WorkerCrash
    <2>2. CASE \/ WriteGivenUp(w) \/ AddDeadLetter(w) \/ Xack(w)
               \/ Xdel(w) /\ ~ Leave(w)
      <3>1. /\ UNCHANGED <<task, copy>>
            /\ step[w] \in FinishSteps
            /\ \E s \in FinishSteps : step' = [step EXCEPT ![w] = s]
        BY <2>2 DEF WriteGivenUp, AddDeadLetter, Xack, Xdel, Goto
      <3> QED
        BY <1>1, <3>1 DEF HonestWorkers, IdleWorkers, FinishingIsDecided, Honest, TypeOK
    <2> QED
      BY <2>1, <2>2
  <1>4. NoTaskLost'
    <2>1. CASE Xack(w) \/ Xdel(w)
      <3>1. verdict[task[w]] # {}
        BY <2>1 DEF Xack, Xdel, FinishingIsDecided
      <3>2. \A u \in Tasks \ {task[w]} : entry'[u] = entry[u]
        BY <1>1, <2>1 DEF Xack, Xdel, Acked, Deleted, TypeOK
      <3> QED
        BY <1>1, <3>1, <3>2 DEF NoTaskLost, Settled
    <2>2. CASE ~ (Xack(w) \/ Xdel(w))
      <3>1. UNCHANGED entry
        BY <2>2 DEF WriteRetry, WriteGivenUp, AddDeadLetter, WriteSucceeded, FinishFails,
           WorkerCrash, redis
      <3> QED
        BY <1>1, <3>1 DEF NoTaskLost, Settled
    <2> QED
      BY <2>1, <2>2
  <1> QED
    BY <1>1, <1>2, <1>3, <1>4 DEF HonestBeats, HonestCancel, Honest

LEMMA FateBeat ==
  ASSUME TypeOK, FateInv,
         \/ \E w \in Workers : BeatStarts(w)
         \/ \E b \in beats : BeatWrites(b) \/ BeatClaims(b)
  PROVE  FateInv'
  <1> USE DEF FateInv, HonestWorkers, HonestCancel, FinishingIsDecided, IdleWorkers, NoTaskLost,
              Settled, Honest
  <1>1. ASSUME NEW w \in Workers, BeatStarts(w)  PROVE FateInv'
    <2>1. Honest(task[w], copy[w].status)
      BY <1>1 DEF BeatStarts, Beating, AckSteps, BurySteps
    <2>2. HonestBeats'
      BY <1>1, <2>1 DEF BeatStarts, HonestBeats
    <2> QED
      BY <1>1, <2>2 DEF BeatStarts, HonestStatus, redis, workers
  <1>2. ASSUME NEW b \in beats, BeatWrites(b)  PROVE FateInv'
    <2>1. b.task \in Tasks /\ b.rec \in Record
      BY DEF TypeOK
    <2>2. HonestStatus'
      BY <1>2, <2>1, HonestWrite DEF BeatWrites, HonestBeats
    <2>3. HonestBeats'
      <3>1. [b EXCEPT !.next = "xclaim"].task = b.task /\ [b EXCEPT !.next = "xclaim"].rec = b.rec
        BY DEF TypeOK
      <3> QED
        BY <1>2, <3>1 DEF BeatWrites, HonestBeats
    <2> QED
      BY <1>2, <2>2, <2>3 DEF BeatWrites, workers
  <1>3. ASSUME NEW b \in beats, BeatClaims(b)  PROVE FateInv'
    BY <1>3 DEF BeatClaims, HonestStatus, HonestBeats, workers
  <1> QED
    BY <1>1, <1>2, <1>3

LEMMA FateCancelAndTime ==
  ASSUME TypeOK, FateInv,
         \/ CancelAcks \/ CancelDeletes \/ CancelWrites
         \/ \E t \in Tasks : CancelStarts(t) \/ GoesIdle(t) \/ BackoffElapses(t)
  PROVE  FateInv'
  <1> USE DEF FateInv
  <1>1. ASSUME NEW t \in Tasks, CancelStarts(t)  PROVE FateInv'
    <2>1. "cancelled" \in verdict'[t] /\ \A u \in Tasks : verdict[u] \subseteq verdict'[u]
      BY <1>1, VerdictGrows DEF CancelStarts, Verdicts
    <2>2. UNCHANGED <<redis, workers, beats>>
      BY <1>1 DEF CancelStarts
    <2>3. ctl'.rec.status = "cancelled" /\ ctl'.task = t
      <3>1. [hash[t] EXCEPT !.status = "cancelled"].status = "cancelled"
        <4>1. hash[t] \in Record
          BY DEF TypeOK
        <4> QED
          BY <4>1 DEF Record
      <3> QED
        BY <1>1, <3>1 DEF CancelStarts
    <2>4. HonestStatus' /\ NoTaskLost'
      BY <2>1, <2>2 DEF HonestStatus, NoTaskLost, Settled, redis
    <2>5. HonestWorkers' /\ IdleWorkers'
      BY <2>1, <2>2, HeldTask DEF HonestWorkers, IdleWorkers, Honest, workers
    <2>6. HonestBeats'
      BY <2>1, <2>2 DEF HonestBeats, Honest, TypeOK
    <2>7. FinishingIsDecided'
      BY <2>1, <2>2, HeldTask DEF FinishingIsDecided, workers, FinishSteps, AckSteps, BurySteps,
         DiscardSteps
    <2> QED
      BY <2>1, <2>3, <2>4, <2>5, <2>6, <2>7 DEF HonestCancel
  <1>2. CASE CancelAcks \/ CancelDeletes
    <2>1. /\ UNCHANGED <<hash, workers, beats, verdict>>
          /\ "cancelled" \in verdict[ctl.task]
          /\ \E s \in {"xdel", "hset"} : ctl' = [ctl EXCEPT !.step = s]
          /\ \A u \in Tasks \ {ctl.task} : entry'[u] = entry[u]
      BY <1>2 DEF CancelAcks, CancelDeletes, HonestCancel, Acked, Deleted, TypeOK
    <2>2. HonestCancel'
      <3>1. ctl'.rec = ctl.rec /\ ctl'.task = ctl.task
        BY <2>1 DEF TypeOK
      <3>2. ctl.rec.status = "cancelled"
        BY <1>2 DEF CancelAcks, CancelDeletes, HonestCancel
      <3> QED
        BY <2>1, <3>1, <3>2 DEF HonestCancel
    <2>3. NoTaskLost'
      BY <2>1 DEF NoTaskLost, Settled
    <2> QED
      BY <2>1, <2>2, <2>3 DEF HonestStatus, HonestWorkers, IdleWorkers, HonestBeats,
         FinishingIsDecided, Honest, workers
  <1>3. CASE CancelWrites
    <2>1. /\ UNCHANGED <<entry, workers, beats, verdict>>
          /\ ctl.task \in Tasks /\ ctl.rec \in Record
          /\ WriteHash(ctl.task, ctl.rec)
          /\ ctl'.step = "none"
      BY <1>3 DEF CancelWrites, TypeOK
    <2>2. Honest(ctl.task, ctl.rec.status)
      BY <1>3 DEF CancelWrites, HonestCancel, Honest, VerdictOf
    <2>3. HonestStatus'
      BY <2>1, <2>2, HonestWrite
    <2> QED
      BY <2>1, <2>3 DEF HonestCancel, HonestWorkers, IdleWorkers, HonestBeats,
         FinishingIsDecided, Honest, NoTaskLost, Settled, workers
  <1>4. ASSUME NEW t \in Tasks, GoesIdle(t)  PROVE FateInv'
    BY <1>4 DEF GoesIdle, HonestStatus, HonestWorkers, IdleWorkers, HonestBeats, HonestCancel,
       FinishingIsDecided, Honest, NoTaskLost, Settled, workers
  <1>5. ASSUME NEW t \in Tasks, BackoffElapses(t)  PROVE FateInv'
    <2>1. hash' = [hash EXCEPT ![t] = [hash[t] EXCEPT !.later = FALSE]]
          /\ UNCHANGED <<entry, workers, beats, ctl, verdict>>
      BY <1>5 DEF BackoffElapses
    <2>2. [hash[t] EXCEPT !.later = FALSE].status = hash[t].status
      <3>1. hash[t] \in Record
        BY DEF TypeOK
      <3> QED
        BY <3>1 DEF Record
    <2>3. HonestStatus'
      BY <2>1, <2>2 DEF HonestStatus, TypeOK
    <2> QED
      BY <2>1, <2>3 DEF HonestWorkers, IdleWorkers, HonestBeats, HonestCancel,
         FinishingIsDecided, Honest, NoTaskLost, Settled, workers
  <1> QED
    BY <1>1, <1>2, <1>3, <1>4, <1>5

\* FateInv is inductive together with the types.
LEMMA FateInvariant == Spec => []FateInv
  <1>1. TypeOK /\ FateInv /\ [Next]_vars => FateInv'
    <2> SUFFICES ASSUME TypeOK, FateInv, [Next]_vars PROVE FateInv'
      OBVIOUS
    <2>1. CASE UNCHANGED vars
      BY <2>1 DEF vars, redis, workers, FateInv, HonestStatus, HonestWorkers, IdleWorkers,
         HonestBeats, HonestCancel, FinishingIsDecided, Honest, NoTaskLost, Settled
    <2>2. CASE Next
      BY <2>2, FateEnqueue, FateClaim, FateHandler, FateFinish, FateBeat, FateCancelAndTime
         DEF Next, Work
    <2> QED
      BY <2>1, <2>2
  <1> QED
    BY <1>1, FateInit, TypeCorrect, PTL DEF Spec

\* No task leaves the stream before a decision about it: crashes, Redis errors, stalls and
\* late heartbeats between XADD, XACK, XDEL and the hash writes never drop one.
THEOREM TasksAreNotLost == Spec => []NoTaskLost
  <1>1. FateInv => NoTaskLost
    BY DEF FateInv
  <1> QED
    BY <1>1, FateInvariant, PTL

\* get() never reports a terminal state that was not reached.
THEOREM StatusIsHonest == Spec => []HonestStatus
  <1>1. FateInv => HonestStatus
    BY DEF FateInv
  <1> QED
    BY <1>1, FateInvariant, PTL

-----------------------------------------------------------------------------
(* Attempts: no record ever counts more attempts than there were calls of  *)
(* fail(), whichever copy of the counter was written or read last.         *)

CountedHash == \A t \in Tasks : hash[t].attempts <= failures[t]
CountedWorkers ==
    \A w \in Workers : IF step[w] = "poll" THEN copy[w].attempts = 0
                       ELSE copy[w].attempts <= failures[task[w]]
CountedBeats == \A b \in beats : b.rec.attempts <= failures[b.task]
CountedCancel == ctl.step # "none" => ctl.rec.attempts <= failures[ctl.task]

CountInv ==
    /\ CountedHash
    /\ CountedWorkers
    /\ CountedBeats
    /\ CountedCancel
    /\ GivenUpOnlyWhenExhausted

LEMMA FreshCounts == Fresh.attempts = 0 /\ Missing.attempts = 0
  BY DEF Fresh, Missing

LEMMA CountInit == Init => CountInv
  BY FreshCounts DEF Init, CountInv, CountedHash, CountedWorkers, CountedBeats, CountedCancel,
     GivenUpOnlyWhenExhausted

LEMMA CountedWrite ==
  ASSUME TypeOK, CountedHash, NEW t \in Tasks, NEW rec \in Record,
         rec.attempts <= failures[t], WriteHash(t, rec), UNCHANGED failures
  PROVE  CountedHash'
  BY DEF TypeOK, CountedHash, WriteHash

LEMMA CountEnqueue ==
  ASSUME TypeOK, CountInv, NEW t \in Tasks, Enqueue(t) \/ ReserveFails(t) \/ ProducerCrash(t)
  PROVE  CountInv'
  <1>1. UNCHANGED <<workers, beats, ctl, verdict, failures>>
    BY DEF Enqueue, ReserveDedup, LookupOwner, PeekExisting, DropPlaceholder, Publish,
       Unreserve, ReleaseDedup, RecordInitial, ReserveFails, ProducerCrash
  <1>2. CountedHash'
    <2>1. CASE RecordInitial(t)
      BY <1>1, <2>1, FreshCounts, Records DEF RecordInitial, CountInv, CountedHash, TypeOK
    <2>2. CASE ~ RecordInitial(t)
      <3>1. UNCHANGED hash
        BY <2>2 DEF Enqueue, ReserveDedup, LookupOwner, PeekExisting, DropPlaceholder, Publish,
           Unreserve, ReleaseDedup, ReserveFails, ProducerCrash, redis
      <3> QED
        BY <1>1, <3>1 DEF CountInv, CountedHash
    <2> QED
      BY <2>1, <2>2
  <1> QED
    BY <1>1, <1>2 DEF CountInv, CountedWorkers, CountedBeats, CountedCancel,
       GivenUpOnlyWhenExhausted, workers

LEMMA CountLeave ==
  ASSUME TypeOK, CountInv, NEW w \in Workers, Leave(w), UNCHANGED failures
  PROVE  CountedWorkers'
  BY FreshCounts DEF CountInv, CountedWorkers, Leave, Goto, TypeOK

LEMMA CountClaim ==
  ASSUME TypeOK, CountInv, NEW w \in Workers,
         (\E t \in Tasks : Reclaim(w, t) \/ ReadNew(w, t)) \/ Hydrate(w) \/ WriteLease(w)
  PROVE  CountInv'
  <1> USE DEF CountInv
  <1>1. UNCHANGED <<beats, ctl, verdict, failures>>
    BY DEF Reclaim, ReadNew, Hydrate, WriteLease
  <1>2. CountedHash' /\ CountedWorkers'
    <2>1. ASSUME NEW t \in Tasks, Reclaim(w, t) \/ ReadNew(w, t)
          PROVE  CountedHash' /\ CountedWorkers'
      <3>1. /\ UNCHANGED <<hash, copy>>
            /\ step' = [step EXCEPT ![w] = "hydrate"]
            /\ task' = [task EXCEPT ![w] = t]
            /\ step[w] = "poll"
        BY <2>1 DEF Reclaim, ReadNew, Take, Goto
      <3> QED
        BY <1>1, <3>1 DEF CountedHash, CountedWorkers, TypeOK
    <2>2. CASE Hydrate(w)
      <3>1. UNCHANGED hash /\ step[w] = "hydrate" /\ task[w] \in Tasks
        BY <2>2, HeldTask DEF Hydrate, redis
      <3>2. PICK rec \in Record : HydrateAs(w, rec) /\ rec.attempts <= failures[task[w]]
        BY <2>2, <3>1, FreshCounts, HeldTask, Records DEF Hydrate, CountedHash, TypeOK
      <3>3. CountedWorkers'
        <4>1. CASE Leave(w)
          BY <1>1, <4>1, CountLeave
        <4>2. CASE step' = [step EXCEPT ![w] = "discard_xack"] /\ UNCHANGED <<task, copy>>
          BY <1>1, <3>1, <4>2 DEF CountedWorkers, TypeOK
        <4>3. CASE /\ step' = [step EXCEPT ![w] = "lease"] /\ UNCHANGED task
                   /\ copy' = [copy EXCEPT ![w] = [rec EXCEPT !.status = "running", !.sid = TRUE]]
          <5>1. [rec EXCEPT !.status = "running", !.sid = TRUE].attempts = rec.attempts
            BY DEF Record
          <5> QED
            BY <1>1, <3>1, <3>2, <4>3, <5>1 DEF CountedWorkers, TypeOK
        <4> QED
          BY <3>2, <4>1, <4>2, <4>3 DEF HydrateAs, Goto
      <3> QED
        BY <1>1, <3>1, <3>3 DEF CountedHash
    <2>3. CASE WriteLease(w)
      <3>1. /\ UNCHANGED <<task, copy>>
            /\ WriteHash(task[w], copy[w])
            /\ step[w] = "lease"
            /\ \E s \in {"handle", "unregistered"} : step' = [step EXCEPT ![w] = s]
        BY <2>3 DEF WriteLease, Goto
      <3> QED
        BY <1>1, <3>1, CountedWrite, HeldTask DEF CountedWorkers, TypeOK
    <2> QED
      BY <2>1, <2>2, <2>3
  <1> QED
    BY <1>1, <1>2 DEF CountedBeats, CountedCancel, GivenUpOnlyWhenExhausted

LEMMA CountHandler ==
  ASSUME TypeOK, CountInv, NEW w \in Workers,
         HandlerSucceeds(w) \/ HandlerRaises(w) \/ NoHandler(w)
  PROVE  CountInv'
  <1> USE DEF CountInv
  <1>1. /\ task[w] \in Tasks /\ copy[w] \in Record /\ hash[task[w]] \in Record
        /\ step[w] # "poll"
        /\ UNCHANGED <<hash, task, beats, ctl>>
        /\ copy[w].attempts <= failures[task[w]]
        /\ hash[task[w]].attempts <= failures[task[w]]
    BY HeldTask DEF HandlerSucceeds, HandlerRaises, NoHandler, redis, CountedWorkers, CountedHash
  <1> DEFINE
        Turn(s, c) == /\ step' = [step EXCEPT ![w] = s] /\ s \in WorkerSteps \ {"poll"}
                      /\ copy' = [copy EXCEPT ![w] = c] /\ c \in Record
                      /\ c.attempts <= failures'[task[w]]
                      /\ failures' \in [Tasks -> Nat]
                      /\ \A t \in Tasks : failures[t] <= failures'[t]
        Exhausted(c) == \A t \in Tasks : "dead" \in verdict'[t] =>
                          \/ "dead" \in verdict[t]
                          \/ t = task[w] /\ c.attempts >= MaxAttempts
  <1>2. PICK s, c : Turn(s, c) /\ Exhausted(c)
    <2>1. CASE HandlerSucceeds(w)
      <3>1. /\ copy' = [copy EXCEPT ![w] = [copy[w] EXCEPT !.status = "succeeded"]]
            /\ step' = [step EXCEPT ![w] = "ack_xack"]
            /\ UNCHANGED failures
            /\ verdict' = [verdict EXCEPT ![task[w]] = @ \cup {"ok"}]
        BY <2>1 DEF HandlerSucceeds, Goto, Decide
      <3>2. LET c == [copy[w] EXCEPT !.status = "succeeded"]
            IN  c \in Record /\ c.attempts = copy[w].attempts
        BY <1>1 DEF Record, Status, Terminal
      <3> DEFINE c1 == [copy[w] EXCEPT !.status = "succeeded"]
      <3>3. Exhausted(c1)
        BY <1>1, <3>1 DEF TypeOK
      <3>4. Turn("ack_xack", c1)
        BY <1>1, <3>1, <3>2 DEF WorkerSteps, AckSteps, TypeOK
      <3> HIDE DEF c1, Turn, Exhausted
      <3> QED
        BY <3>3, <3>4
    <2>2. CASE HandlerRaises(w)
      <3>1. PICK n \in {copy[w].attempts + 1, hash[task[w]].attempts + 1} : RetryOrGiveUp(w, n)
        BY <2>2 DEF HandlerRaises
      <3>2. n \in Nat /\ n <= failures[task[w]] + 1 /\ failures[task[w]] \in Nat
        BY <1>1 DEF Record, TypeOK
      <3>3. /\ failures' = [failures EXCEPT ![task[w]] = @ + 1]
            /\ failures' \in [Tasks -> Nat]
            /\ \A t \in Tasks : failures[t] <= failures'[t]
            /\ n <= failures'[task[w]]
        BY <1>1, <2>2, <3>2 DEF HandlerRaises, TypeOK
      <3>4. CASE n < MaxAttempts
        <4>1. /\ copy' = [copy EXCEPT ![w] =
                           [copy[w] EXCEPT !.status = "queued", !.attempts = n, !.later = TRUE]]
              /\ step' = [step EXCEPT ![w] = "retry_hash"]
              /\ UNCHANGED verdict
          BY <3>1, <3>4 DEF RetryOrGiveUp, Goto
        <4>2. LET c == [copy[w] EXCEPT !.status = "queued", !.attempts = n, !.later = TRUE]
              IN  c \in Record /\ c.attempts = n
          BY <1>1, <3>2 DEF Record, Status
        <4> DEFINE c1 == [copy[w] EXCEPT !.status = "queued", !.attempts = n, !.later = TRUE]
        <4>3. Exhausted(c1)
          BY <4>1
        <4>4. Turn("retry_hash", c1)
          BY <3>3, <4>1, <4>2 DEF WorkerSteps
        <4> HIDE DEF c1, Turn, Exhausted
        <4> QED
          BY <4>3, <4>4
      <3>5. CASE ~ (n < MaxAttempts)
        <4>1. /\ copy' = [copy EXCEPT ![w] = [copy[w] EXCEPT !.status = "dead", !.attempts = n]]
              /\ step' = [step EXCEPT ![w] = "bury_hash"]
              /\ verdict' = [verdict EXCEPT ![task[w]] = @ \cup {"dead"}]
          BY <3>1, <3>5 DEF RetryOrGiveUp, Goto, Decide
        <4>2. LET c == [copy[w] EXCEPT !.status = "dead", !.attempts = n]
              IN  c \in Record /\ c.attempts = n
          BY <1>1, <3>2 DEF Record, Status, Terminal
        <4>3. n >= MaxAttempts
          BY <3>2, <3>5
        <4> DEFINE c1 == [copy[w] EXCEPT !.status = "dead", !.attempts = n]
        <4>4. Exhausted(c1)
          BY <1>1, <4>1, <4>2, <4>3 DEF TypeOK
        <4>5. Turn("bury_hash", c1)
          BY <1>1, <3>3, <4>1, <4>2 DEF WorkerSteps, BurySteps
        <4> HIDE DEF c1, Turn, Exhausted
        <4> QED
          BY <4>4, <4>5
      <3> QED
        BY <3>4, <3>5
    <2>3. CASE NoHandler(w)
      <3>1. PICK n \in {copy[w].attempts + 1, hash[task[w]].attempts + 1} :
               copy' = [copy EXCEPT ![w].status = "failed", ![w].attempts = n]
        BY <2>3 DEF NoHandler
      <3>2. n \in Nat /\ n <= failures[task[w]] + 1 /\ failures[task[w]] \in Nat
        BY <1>1 DEF Record, TypeOK
      <3>3. /\ failures' = [failures EXCEPT ![task[w]] = @ + 1]
            /\ failures' \in [Tasks -> Nat]
            /\ \A t \in Tasks : failures[t] <= failures'[t]
            /\ n <= failures'[task[w]]
        BY <1>1, <2>3, <3>2 DEF NoHandler, TypeOK
      <3>4. /\ copy' = [copy EXCEPT ![w] = [copy[w] EXCEPT !.status = "failed", !.attempts = n]]
            /\ step' = [step EXCEPT ![w] = "bury_hash"]
            /\ verdict' = [verdict EXCEPT ![task[w]] = @ \cup {"failed"}]
        BY <2>3, <3>1 DEF NoHandler, Goto, Decide
      <3>5. LET c == [copy[w] EXCEPT !.status = "failed", !.attempts = n]
            IN  c \in Record /\ c.attempts = n
        BY <1>1, <3>2 DEF Record, Status, Terminal
      <3> DEFINE c1 == [copy[w] EXCEPT !.status = "failed", !.attempts = n]
      <3>6. Exhausted(c1)
        BY <1>1, <3>4 DEF TypeOK
      <3>7. Turn("bury_hash", c1)
        BY <1>1, <3>3, <3>4, <3>5 DEF WorkerSteps, BurySteps
      <3> HIDE DEF c1, Turn, Exhausted
      <3> QED
        BY <3>6, <3>7
    <2> QED
      BY <2>1, <2>2, <2>3
  <1>3. CountedHash'
    BY <1>1, <1>2 DEF CountedHash, TypeOK, Record
  <1>4. CountedWorkers'
    <2> SUFFICES ASSUME NEW v \in Workers
                 PROVE  IF step'[v] = "poll" THEN copy'[v].attempts = 0
                        ELSE copy'[v].attempts <= failures'[task'[v]]
      BY DEF CountedWorkers
    <2>1. CASE v = w
      BY <1>1, <1>2, <2>1 DEF TypeOK
    <2>2. CASE v # w
      <3>1. step'[v] = step[v] /\ copy'[v] = copy[v] /\ task'[v] = task[v]
        BY <1>1, <1>2, <2>2 DEF TypeOK
      <3>2. copy[v].attempts \in Nat
        BY DEF TypeOK, Record
      <3>3. CASE step[v] = "poll"
        BY <3>1, <3>3 DEF CountedWorkers
      <3>4. CASE step[v] # "poll"
        <4>1. task[v] \in Tasks /\ failures[task[v]] \in Nat
          BY <3>4, HeldTask DEF TypeOK
        <4>2. copy[v].attempts <= failures[task[v]] /\ failures[task[v]] <= failures'[task[v]]
          BY <1>2, <3>4, <4>1 DEF CountedWorkers
        <4>3. failures'[task[v]] \in Nat
          BY <1>2, <4>1
        <4> QED
          BY <3>1, <3>2, <3>4, <4>1, <4>2, <4>3
      <3> QED
        BY <3>3, <3>4
    <2> QED
      BY <2>1, <2>2
  <1>5. CountedBeats'
    <2> SUFFICES ASSUME NEW b \in beats PROVE b.rec.attempts <= failures'[b.task]
      BY <1>1 DEF CountedBeats
    <2>1. b.task \in Tasks /\ b.rec.attempts \in Nat /\ failures[b.task] \in Nat
      BY DEF TypeOK, Record
    <2> QED
      BY <1>2, <2>1 DEF CountedBeats
  <1>6. CountedCancel'
    <2>1. ctl.step # "none" => /\ ctl.task \in Tasks /\ ctl.rec.attempts \in Nat
                               /\ failures[ctl.task] \in Nat
      BY DEF TypeOK, Record
    <2> QED
      BY <1>1, <1>2, <2>1 DEF CountedCancel
  <1>7. GivenUpOnlyWhenExhausted'
    <2> SUFFICES ASSUME NEW t \in Tasks, "dead" \in verdict'[t] PROVE failures'[t] >= MaxAttempts
      BY DEF GivenUpOnlyWhenExhausted
    <2>1. failures[t] \in Nat /\ failures'[t] \in Nat /\ MaxAttempts \in Nat
      BY <1>2 DEF TypeOK
    <2>2. CASE "dead" \in verdict[t]
      BY <1>2, <2>1, <2>2 DEF GivenUpOnlyWhenExhausted
    <2>3. CASE t = task[w]
      <3>1. CASE "dead" \notin verdict[t]
        BY <1>2, <2>1, <2>3, <3>1 DEF Record
      <3> QED
        BY <2>2, <3>1
    <2> QED
      BY <1>2, <2>2, <2>3
  <1> QED
    BY <1>3, <1>4, <1>5, <1>6, <1>7

LEMMA CountFinish ==
  ASSUME TypeOK, CountInv, NEW w \in Workers,
         \/ WriteRetry(w) \/ WriteGivenUp(w) \/ AddDeadLetter(w) \/ Xack(w) \/ Xdel(w)
         \/ WriteSucceeded(w) \/ FinishFails(w) \/ WorkerCrash(w)
  PROVE  CountInv'
  <1> USE DEF CountInv
  <1>1. /\ task[w] \in Tasks /\ copy[w] \in Record
        /\ step[w] # "poll"
        /\ UNCHANGED <<ctl, verdict, failures>>
        /\ beats' \subseteq beats
    BY HeldTask DEF WriteRetry, WriteGivenUp, AddDeadLetter, Xack, Xdel, WriteSucceeded,
       FinishFails, WorkerCrash, AckSteps, BurySteps, DiscardSteps
  <1>2. CountedHash'
    <2>1. CASE WriteRetry(w) \/ WriteGivenUp(w) \/ WriteSucceeded(w)
      BY <1>1, <2>1, CountedWrite DEF WriteRetry, WriteGivenUp, WriteSucceeded, CountedWorkers
    <2>2. CASE AddDeadLetter(w) \/ Xack(w) \/ Xdel(w) \/ FinishFails(w) \/ WorkerCrash(w)
      BY <1>1, <2>2 DEF AddDeadLetter, Xack, Xdel, FinishFails, WorkerCrash, redis, CountedHash
    <2> QED
      BY <2>1, <2>2
  <1>3. CountedWorkers'
    <2>1. CASE Leave(w)
      BY <1>1, <2>1, CountLeave
    <2>2. CASE ~ Leave(w)
      <3>1. /\ UNCHANGED <<task, copy>>
            /\ \E s \in BurySteps \cup AckSteps \cup DiscardSteps : step' = [step EXCEPT ![w] = s]
        BY <2>2 DEF WriteRetry, WriteGivenUp, AddDeadLetter, Xack, Xdel, WriteSucceeded,
           FinishFails, WorkerCrash, Goto, BurySteps, AckSteps, DiscardSteps
      <3> QED
        BY <1>1, <3>1 DEF CountedWorkers, TypeOK, BurySteps, AckSteps, DiscardSteps
    <2> QED
      BY <2>1, <2>2
  <1> QED
    BY <1>1, <1>2, <1>3 DEF CountedBeats, CountedCancel, GivenUpOnlyWhenExhausted

LEMMA CountBeat ==
  ASSUME TypeOK, CountInv,
         \/ \E w \in Workers : BeatStarts(w)
         \/ \E b \in beats : BeatWrites(b) \/ BeatClaims(b)
  PROVE  CountInv'
  <1> USE DEF CountInv, CountedWorkers, CountedCancel, GivenUpOnlyWhenExhausted
  <1>1. ASSUME NEW w \in Workers, BeatStarts(w)  PROVE CountInv'
    <2>1. copy[w].attempts <= failures[task[w]]
      BY <1>1 DEF BeatStarts, Beating, AckSteps, BurySteps
    <2> QED
      BY <1>1, <2>1 DEF BeatStarts, CountedHash, CountedBeats, redis, workers
  <1>2. ASSUME NEW b \in beats, BeatWrites(b)  PROVE CountInv'
    <2>1. b.task \in Tasks /\ b.rec \in Record
      BY DEF TypeOK
    <2>2. CountedHash'
      BY <1>2, <2>1, CountedWrite DEF BeatWrites, CountedBeats
    <2>3. CountedBeats'
      <3>1. [b EXCEPT !.next = "xclaim"].task = b.task /\ [b EXCEPT !.next = "xclaim"].rec = b.rec
        BY DEF TypeOK
      <3> QED
        BY <1>2, <3>1 DEF BeatWrites, CountedBeats
    <2> QED
      BY <1>2, <2>2, <2>3 DEF BeatWrites, workers
  <1>3. ASSUME NEW b \in beats, BeatClaims(b)  PROVE CountInv'
    BY <1>3 DEF BeatClaims, CountedHash, CountedBeats, workers
  <1> QED
    BY <1>1, <1>2, <1>3

LEMMA CountCancelAndTime ==
  ASSUME TypeOK, CountInv,
         \/ CancelAcks \/ CancelDeletes \/ CancelWrites
         \/ \E t \in Tasks : CancelStarts(t) \/ GoesIdle(t) \/ BackoffElapses(t)
  PROVE  CountInv'
  <1> USE DEF CountInv
  <1>1. ASSUME NEW t \in Tasks, CancelStarts(t)  PROVE CountInv'
    <2>1. UNCHANGED <<redis, workers, beats, failures>>
      BY <1>1 DEF CancelStarts
    <2>2. ctl'.rec.attempts = hash[t].attempts /\ ctl'.task = t
      <3>1. [hash[t] EXCEPT !.status = "cancelled"].attempts = hash[t].attempts
        <4>1. hash[t] \in Record
          BY DEF TypeOK
        <4> QED
          BY <4>1 DEF Record
      <3> QED
        BY <1>1, <3>1 DEF CancelStarts
    <2>3. GivenUpOnlyWhenExhausted'
      BY <1>1, <2>1 DEF CancelStarts, Decide, GivenUpOnlyWhenExhausted, TypeOK
    <2> QED
      BY <2>1, <2>2, <2>3 DEF CountedHash, CountedWorkers, CountedBeats, CountedCancel, redis,
         workers
  <1>2. CASE CancelAcks \/ CancelDeletes
    <2>1. UNCHANGED <<hash, workers, beats, verdict, failures>>
      BY <1>2 DEF CancelAcks, CancelDeletes
    <2>2. ctl'.rec = ctl.rec /\ ctl'.task = ctl.task /\ ctl.step # "none"
      BY <1>2 DEF CancelAcks, CancelDeletes, TypeOK
    <2> QED
      BY <2>1, <2>2 DEF CountedHash, CountedWorkers, CountedBeats, CountedCancel,
         GivenUpOnlyWhenExhausted, workers
  <1>3. CASE CancelWrites
    <2>1. /\ UNCHANGED <<workers, beats, verdict, failures>>
          /\ ctl.task \in Tasks /\ ctl.rec \in Record
          /\ WriteHash(ctl.task, ctl.rec)
          /\ ctl.step # "none" /\ ctl'.step = "none"
      BY <1>3 DEF CancelWrites, TypeOK
    <2>2. CountedHash'
      BY <2>1, CountedWrite DEF CountedCancel
    <2> QED
      BY <2>1, <2>2 DEF CountedWorkers, CountedBeats, CountedCancel, GivenUpOnlyWhenExhausted,
         workers
  <1>4. ASSUME NEW t \in Tasks, GoesIdle(t)  PROVE CountInv'
    BY <1>4 DEF GoesIdle, CountedHash, CountedWorkers, CountedBeats, CountedCancel,
       GivenUpOnlyWhenExhausted, workers
  <1>5. ASSUME NEW t \in Tasks, BackoffElapses(t)  PROVE CountInv'
    <2>1. hash' = [hash EXCEPT ![t] = [hash[t] EXCEPT !.later = FALSE]]
          /\ UNCHANGED <<workers, beats, ctl, verdict, failures>>
      BY <1>5 DEF BackoffElapses
    <2>2. [hash[t] EXCEPT !.later = FALSE].attempts = hash[t].attempts
      <3>1. hash[t] \in Record
        BY DEF TypeOK
      <3> QED
        BY <3>1 DEF Record
    <2>3. CountedHash'
      BY <2>1, <2>2 DEF CountedHash, TypeOK
    <2> QED
      BY <2>1, <2>3 DEF CountedWorkers, CountedBeats, CountedCancel, GivenUpOnlyWhenExhausted,
         workers
  <1> QED
    BY <1>1, <1>2, <1>3, <1>4, <1>5

\* fail() declares a task dead only after max_attempts calls, whichever worker, heartbeat or
\* canceller wrote the attempts counter last and whichever read of it failed.
THEOREM AttemptsAreExhausted == Spec => []GivenUpOnlyWhenExhausted
  <1>1. TypeOK /\ CountInv /\ [Next]_vars => CountInv'
    <2> SUFFICES ASSUME TypeOK, CountInv, [Next]_vars PROVE CountInv'
      OBVIOUS
    <2>1. CASE UNCHANGED vars
      BY <2>1 DEF vars, redis, workers, CountInv, CountedHash, CountedWorkers, CountedBeats,
         CountedCancel, GivenUpOnlyWhenExhausted
    <2>2. CASE Next
      BY <2>2, CountEnqueue, CountClaim, CountHandler, CountFinish, CountBeat,
         CountCancelAndTime DEF Next, Work
    <2> QED
      BY <2>1, <2>2
  <1>2. CountInv => GivenUpOnlyWhenExhausted
    BY DEF CountInv
  <1> QED
    BY <1>1, <1>2, CountInit, TypeCorrect, PTL DEF Spec

-----------------------------------------------------------------------------
(* Publication: whatever points at a task - a hash, a worker, a heartbeat, *)
(* a canceller, another producer's answer - points at a published one.     *)

Published(t) == entry[t] # "absent"

OwnKey == \A k \in Keys : dedup[k] # None => KeyOf[dedup[k]] = k
SameKey ==
    \A t \in Tasks : /\ found[t] # None => KeyOf[found[t]] = KeyOf[t]
                     /\ enq[t] \in {"peek", "existing"} => found[t] # None
PublishedHash == \A t \in Tasks : hash[t].status # "missing" => Published(t)
PublishedHeld == \A w \in Workers : step[w] # "poll" => Published(task[w])
PublishedBeats == \A b \in beats : Published(b.task)
PublishedCancel == ctl.step # "none" => Published(ctl.task)
PublishedRecord == \A t \in Tasks : enq[t] = "record" => Published(t)

PublishedInv ==
    /\ OwnKey
    /\ SameKey
    /\ PublishedHash
    /\ PublishedHeld
    /\ PublishedBeats
    /\ PublishedCancel
    /\ PublishedRecord
    /\ DedupNeverSwallows

LEMMA PublishedInit == Init => PublishedInv
  <1>1. Missing.status = "missing"
    BY DEF Missing
  <1> QED
    BY <1>1 DEF Init, PublishedInv, OwnKey, SameKey, PublishedHash, PublishedHeld,
       PublishedBeats, PublishedCancel, PublishedRecord, DedupNeverSwallows

\* Published tasks stay published, so what pointed at one still does.
LEMMA StaysPublished ==
  ASSUME TypeOK, PublishedInv, \A t \in Tasks : Published(t) => Published(t)'
  PROVE  /\ UNCHANGED hash => PublishedHash'
         /\ UNCHANGED <<step, task>> => PublishedHeld'
         /\ beats' \subseteq beats => PublishedBeats'
         /\ UNCHANGED ctl => PublishedCancel'
         /\ UNCHANGED enq => PublishedRecord'
         /\ UNCHANGED <<enq, found>> => DedupNeverSwallows'
         /\ UNCHANGED <<enq, found>> => SameKey'
         /\ UNCHANGED dedup => OwnKey'
  <1> USE DEF PublishedInv
  <1>1. UNCHANGED <<step, task>> => PublishedHeld'
    BY HeldTask DEF PublishedHeld
  <1>2. beats' \subseteq beats => PublishedBeats'
    BY DEF PublishedBeats, TypeOK
  <1>3. UNCHANGED ctl => PublishedCancel'
    BY DEF PublishedCancel, TypeOK
  <1>4. UNCHANGED <<enq, found>> => DedupNeverSwallows' /\ SameKey'
    BY DEF DedupNeverSwallows, SameKey, Published, TypeOK
  <1> QED
    BY <1>1, <1>2, <1>3, <1>4 DEF PublishedHash, PublishedRecord, OwnKey

LEMMA PublishedWrite ==
  ASSUME TypeOK, PublishedInv, NEW t \in Tasks, Published(t), NEW rec, WriteHash(t, rec),
         UNCHANGED entry
  PROVE  PublishedHash'
  BY DEF PublishedInv, PublishedHash, Published, WriteHash, TypeOK

LEMMA PublishedEnqueue ==
  ASSUME TypeOK, PublishedInv, NEW t \in Tasks,
         Enqueue(t) \/ ReserveFails(t) \/ ProducerCrash(t)
  PROVE  PublishedInv'
  <1> USE DEF PublishedInv
  <1>1. /\ UNCHANGED <<workers, beats, ctl>>
        /\ \A u \in Tasks \ {t} : enq'[u] = enq[u] /\ found'[u] = found[u]
        /\ \A u \in Tasks : entry'[u] = entry[u] \/ entry'[u] = "new"
    BY DEF Enqueue, ReserveDedup, LookupOwner, PeekExisting, DropPlaceholder, Publish,
       Unreserve, ReleaseDedup, RecordInitial, ReserveFails, ProducerCrash, redis, TypeOK
  <1>2. \A u \in Tasks : Published(u) => Published(u)'
    BY <1>1 DEF Published
  <1>3. PublishedHeld' /\ PublishedBeats' /\ PublishedCancel'
    BY <1>1, <1>2, StaysPublished DEF workers
  <1>4. OwnKey'
    <2>1. \A k \in Keys : dedup'[k] = dedup[k] \/ dedup'[k] = None \/ (dedup'[k] = t /\ k = KeyOf[t])
      BY DEF Enqueue, ReserveDedup, LookupOwner, PeekExisting, DropPlaceholder, Publish,
         Unreserve, ReleaseDedup, RecordInitial, ReserveFails, ProducerCrash, redis, TypeOK
    <2> QED
      BY <2>1 DEF OwnKey
  <1>5. /\ found'[t] # None => KeyOf[found'[t]] = KeyOf[t]
        /\ enq'[t] \in {"peek", "existing"} => found'[t] # None
        /\ enq'[t] = "existing" => Published(found[t])'
        /\ enq'[t] = "record" => Published(t)'
    <2>1. CASE LookupOwner(t)
      BY <2>1 DEF LookupOwner, OwnKey, SameKey, TypeOK
    <2>2. CASE ~ LookupOwner(t)
      <3>1. UNCHANGED found
        BY <2>2 DEF Enqueue, ReserveDedup, PeekExisting, DropPlaceholder, Publish, Unreserve,
           ReleaseDedup, RecordInitial, ReserveFails, ProducerCrash
      <3>2. enq'[t] \in {"peek", "existing"} => enq'[t] = "existing" /\ enq[t] = "peek"
                                               /\ hash[found[t]].status # "missing" /\ UNCHANGED entry
        <4>1. CASE PeekExisting(t)
          BY <4>1 DEF PeekExisting, TypeOK, redis
        <4>2. CASE \/ ReserveDedup(t) \/ DropPlaceholder(t) \/ Publish(t) \/ Unreserve(t)
                   \/ ReleaseDedup(t) \/ RecordInitial(t) \/ ReserveFails(t) \/ ProducerCrash(t)
          <5>1. enq'[t] \notin {"peek", "existing"}
            BY <4>2 DEF ReserveDedup, DropPlaceholder, Publish, Unreserve, ReleaseDedup,
               RecordInitial, ReserveFails, ProducerCrash, TypeOK
          <5> QED
            BY <5>1
        <4> QED
          BY <2>2, <4>1, <4>2 DEF Enqueue
      <3>3. enq'[t] = "record" => Published(t)'
        <4>1. CASE Publish(t)
          BY <4>1 DEF Publish, Published, TypeOK
        <4>2. CASE \/ ReserveDedup(t) \/ DropPlaceholder(t) \/ PeekExisting(t) \/ Unreserve(t)
                   \/ ReleaseDedup(t) \/ RecordInitial(t) \/ ReserveFails(t) \/ ProducerCrash(t)
          BY <4>2 DEF ReserveDedup, DropPlaceholder, PeekExisting, Unreserve, ReleaseDedup,
             RecordInitial, ReserveFails, ProducerCrash, TypeOK
        <4> QED
          BY <2>2, <4>1, <4>2 DEF Enqueue
      <3>4. enq'[t] \in {"peek", "existing"} => found[t] \in Tasks /\ Published(found[t])'
        BY <3>1, <3>2 DEF SameKey, PublishedHash, Published, TypeOK
      <3>5. found[t] # None => KeyOf[found[t]] = KeyOf[t]
        BY DEF SameKey
      <3> QED
        BY <3>1, <3>3, <3>4, <3>5 DEF Published
    <2> QED
      BY <2>1, <2>2
  <1>6. PublishedHash'
    <2>1. CASE RecordInitial(t)
      BY <1>2, <2>1 DEF RecordInitial, PublishedHash, PublishedRecord, TypeOK
    <2>2. CASE ~ RecordInitial(t)
      <3>1. UNCHANGED hash
        BY <2>2 DEF Enqueue, ReserveDedup, LookupOwner, PeekExisting, DropPlaceholder, Publish,
           Unreserve, ReleaseDedup, ReserveFails, ProducerCrash, redis
      <3> QED
        BY <1>2, <3>1, StaysPublished
    <2> QED
      BY <2>1, <2>2
  <1>7. SameKey' /\ PublishedRecord'
    BY <1>1, <1>2, <1>5 DEF SameKey, PublishedRecord
  <1>8. DedupNeverSwallows'
    <2> SUFFICES ASSUME NEW u \in Tasks, enq'[u] = "existing"
                 PROVE  KeyOf[found'[u]] = KeyOf[u] /\ Published(found[u])'
      BY DEF DedupNeverSwallows, Published
    <2>1. CASE u = t
      BY <1>5, <2>1
    <2>2. CASE u # t
      <3>1. enq[u] = "existing" /\ found'[u] = found[u]
        BY <1>1, <2>2
      <3>2. found[u] \in Tasks
        BY <3>1 DEF SameKey, TypeOK
      <3> QED
        BY <1>2, <3>1, <3>2 DEF DedupNeverSwallows, Published
    <2> QED
      BY <2>1, <2>2
  <1> QED
    BY <1>3, <1>4, <1>6, <1>7, <1>8

LEMMA PublishedWork ==
  ASSUME TypeOK, PublishedInv, NEW w \in Workers,
         Work(w) \/ FinishFails(w) \/ WorkerCrash(w)
  PROVE  PublishedInv'
  <1> USE DEF PublishedInv
  <1> DEFINE claims == \E t \in Tasks : Reclaim(w, t) \/ ReadNew(w, t)
  <1>1. /\ UNCHANGED <<dedup, enq, found, ctl>>
        /\ beats' \subseteq beats
    BY DEF Work, Reclaim, ReadNew, Hydrate, WriteLease, HandlerSucceeds, HandlerRaises,
       NoHandler, WriteRetry, WriteGivenUp, AddDeadLetter, Xack, Xdel, WriteSucceeded,
       FinishFails, WorkerCrash, producers, redis
  <1>2. ~ claims => task[w] \in Tasks /\ step[w] # "poll"
    BY HeldTask DEF Work, Hydrate, WriteLease, HandlerSucceeds, HandlerRaises, NoHandler,
       WriteRetry, WriteGivenUp, AddDeadLetter, Xack, Xdel, WriteSucceeded, FinishFails,
       WorkerCrash, AckSteps, BurySteps, DiscardSteps
  <1>3. \A t \in Tasks : Published(t) => Published(t)'
    <2>1. CASE claims
      BY <2>1 DEF Reclaim, ReadNew, Published, TypeOK
    <2>2. CASE Xack(w) \/ Xdel(w)
      BY <1>2, <2>2 DEF Xack, Xdel, Acked, Deleted, Published, TypeOK
    <2>3. CASE ~ (claims \/ Xack(w) \/ Xdel(w))
      <3>1. UNCHANGED entry
        BY <2>3 DEF Work, Hydrate, WriteLease, HandlerSucceeds, HandlerRaises, NoHandler,
           WriteRetry, WriteGivenUp, AddDeadLetter, WriteSucceeded, FinishFails, WorkerCrash,
           redis
      <3> QED
        BY <3>1 DEF Published
    <2> QED
      BY <2>1, <2>2, <2>3
  <1>4. PublishedHash'
    <2>1. CASE WriteLease(w) \/ WriteRetry(w) \/ WriteGivenUp(w) \/ WriteSucceeded(w)
      <3>1. /\ WriteHash(task[w], copy[w]) /\ UNCHANGED entry
            /\ task[w] \in Tasks /\ Published(task[w])
        BY <2>1, HeldTask DEF WriteLease, WriteRetry, WriteGivenUp, WriteSucceeded, PublishedHeld
      <3> QED
        BY <3>1, PublishedWrite
    <2>2. CASE ~ (WriteLease(w) \/ WriteRetry(w) \/ WriteGivenUp(w) \/ WriteSucceeded(w))
      <3>1. UNCHANGED hash
        BY <2>2 DEF Work, Reclaim, ReadNew, Hydrate, HandlerSucceeds, HandlerRaises, NoHandler,
           AddDeadLetter, Xack, Xdel, FinishFails, WorkerCrash, redis
      <3> QED
        BY <1>3, <3>1, StaysPublished
    <2> QED
      BY <2>1, <2>2
  <1>5. PublishedHeld'
    <2>1. CASE claims
      <3>1. PICK t \in Tasks : Reclaim(w, t) \/ ReadNew(w, t)
        BY <2>1
      <3>2. /\ Published(t)
            /\ step' = [step EXCEPT ![w] = "hydrate"]
            /\ task' = [task EXCEPT ![w] = t]
        BY <3>1 DEF Reclaim, ReadNew, Take, Goto, Published
      <3> QED
        BY <1>3, <3>2, HeldTask DEF PublishedHeld, TypeOK
    <2>2. CASE ~ claims
      <3>1. /\ \A v \in Workers \ {w} : step'[v] = step[v] /\ task'[v] = task[v]
            /\ step'[w] = "poll" \/ task'[w] = task[w]
        BY <2>2 DEF Work, Hydrate, HydrateAs, WriteLease, HandlerSucceeds, HandlerRaises,
           RetryOrGiveUp, NoHandler, WriteRetry, WriteGivenUp, AddDeadLetter, Xack, Xdel,
           WriteSucceeded, FinishFails, WorkerCrash, Leave, Goto, TypeOK
      <3> QED
        BY <1>2, <1>3, <2>2, <3>1, HeldTask DEF PublishedHeld
    <2> QED
      BY <2>1, <2>2
  <1> QED
    BY <1>1, <1>3, <1>4, <1>5, StaysPublished

LEMMA PublishedElse ==
  ASSUME TypeOK, PublishedInv,
         \/ \E w \in Workers : BeatStarts(w)
         \/ \E b \in beats : BeatWrites(b) \/ BeatClaims(b)
         \/ CancelAcks \/ CancelDeletes \/ CancelWrites
         \/ \E t \in Tasks : CancelStarts(t) \/ GoesIdle(t) \/ BackoffElapses(t)
  PROVE  PublishedInv'
  <1> USE DEF PublishedInv
  <1>1. UNCHANGED <<dedup, producers, workers>>
    BY DEF BeatStarts, BeatWrites, BeatClaims, CancelAcks, CancelDeletes, CancelWrites,
       CancelStarts, GoesIdle, BackoffElapses, redis
  <1>2. \A t \in Tasks : Published(t) => Published(t)'
    BY DEF BeatStarts, BeatWrites, BeatClaims, CancelAcks, CancelDeletes, CancelWrites,
       CancelStarts, GoesIdle, BackoffElapses, Acked, Deleted, Published, redis, TypeOK
  <1>3. /\ OwnKey' /\ SameKey' /\ PublishedHeld' /\ PublishedRecord' /\ DedupNeverSwallows'
    BY <1>1, <1>2, StaysPublished DEF producers, workers
  <1>4. PublishedHash'
    <2>1. ASSUME NEW b \in beats, BeatWrites(b)  PROVE PublishedHash'
      <3>1. b.task \in Tasks /\ Published(b.task)
        BY DEF PublishedBeats, TypeOK
      <3> QED
        BY <2>1, <3>1, PublishedWrite DEF BeatWrites
    <2>2. CASE CancelWrites
      BY <2>2, PublishedWrite DEF CancelWrites, PublishedCancel, TypeOK
    <2>3. ASSUME NEW t \in Tasks, BackoffElapses(t)  PROVE PublishedHash'
      <3>1. [hash[t] EXCEPT !.later = FALSE].status = hash[t].status
        <4>1. hash[t] \in Record
          BY DEF TypeOK
        <4> QED
          BY <4>1 DEF Record
      <3>2. hash' = [hash EXCEPT ![t] = [hash[t] EXCEPT !.later = FALSE]] /\ UNCHANGED entry
        BY <2>3 DEF BackoffElapses
      <3> QED
        BY <3>1, <3>2 DEF PublishedHash, Published, TypeOK
    <2>4. CASE UNCHANGED hash
      BY <1>2, <2>4, StaysPublished
    <2> QED
      BY <2>1, <2>2, <2>3, <2>4 DEF BeatStarts, BeatClaims, CancelAcks, CancelDeletes,
         CancelStarts, GoesIdle, redis
  <1>5. PublishedBeats'
    <2>1. ASSUME NEW w \in Workers, BeatStarts(w)  PROVE PublishedBeats'
      <3>1. Published(task[w]) /\ UNCHANGED entry
        BY <2>1 DEF BeatStarts, Beating, AckSteps, BurySteps, PublishedHeld, redis
      <3> QED
        BY <2>1, <3>1 DEF BeatStarts, PublishedBeats, Published
    <2>2. ASSUME NEW b \in beats, BeatWrites(b)  PROVE PublishedBeats'
      <3>1. [b EXCEPT !.next = "xclaim"].task = b.task
        BY DEF TypeOK
      <3> QED
        BY <2>2, <3>1 DEF BeatWrites, PublishedBeats, Published
    <2>3. CASE beats' \subseteq beats
      BY <1>2, <2>3, StaysPublished
    <2> QED
      BY <2>1, <2>2, <2>3 DEF BeatClaims, CancelAcks, CancelDeletes, CancelWrites, CancelStarts,
         GoesIdle, BackoffElapses
  <1>6. PublishedCancel'
    <2>1. ASSUME NEW t \in Tasks, CancelStarts(t)  PROVE PublishedCancel'
      BY <1>2, <2>1 DEF CancelStarts, PublishedHash, PublishedCancel
    <2>2. CASE CancelAcks \/ CancelDeletes
      <3>1. ctl'.task = ctl.task /\ ctl.task \in Tasks /\ ctl.step # "none"
        BY <2>2 DEF CancelAcks, CancelDeletes, TypeOK
      <3> QED
        BY <1>2, <3>1 DEF PublishedCancel
    <2>3. CASE CancelWrites
      BY <2>3 DEF CancelWrites, PublishedCancel
    <2>4. CASE UNCHANGED ctl
      BY <1>2, <2>4, StaysPublished
    <2> QED
      BY <2>1, <2>2, <2>3, <2>4 DEF BeatStarts, BeatWrites, BeatClaims, GoesIdle, BackoffElapses
  <1> QED
    BY <1>3, <1>4, <1>5, <1>6

LEMMA PublishedInvariant == Spec => []PublishedInv
  <1>1. TypeOK /\ PublishedInv /\ [Next]_vars => PublishedInv'
    <2> SUFFICES ASSUME TypeOK, PublishedInv, [Next]_vars PROVE PublishedInv'
      OBVIOUS
    <2>1. CASE UNCHANGED vars
      BY <2>1, StaysPublished DEF vars, redis, producers, workers, PublishedInv, Published
    <2>2. CASE Next
      BY <2>2, PublishedEnqueue, PublishedWork, PublishedElse DEF Next
    <2> QED
      BY <2>1, <2>2
  <1> QED
    BY <1>1, PublishedInit, TypeCorrect, PTL DEF Spec

\* A submission answered with an existing task is never swallowed: that task is in the
\* stream, under the same dedup key, because enqueue() writes the stream before the hash.
THEOREM SubmissionsAreNotSwallowed == Spec => []DedupNeverSwallows
  <1>1. PublishedInv => DedupNeverSwallows
    BY DEF PublishedInv
  <1> QED
    BY <1>1, PublishedInvariant, PTL

-----------------------------------------------------------------------------
(* The queue keeps the contract of its base class. *)

\* A producer publishes its task at most once.
FirstPublication ==
    \A t \in Tasks : enq[t] \in {"reserve", "lookup", "peek", "drop", "publish"}
                        => entry[t] = "absent"

\* What a step may do to the stream entries.
LEMMA EntrySteps ==
  ASSUME TypeOK, FateInv, [Next]_vars
  PROVE  \/ UNCHANGED entry
         \/ \E t \in Tasks : /\ enq[t] = "publish"
                             /\ enq'[t] \in {"record", "unreserve"}
                             /\ entry' = [entry EXCEPT ![t] = "new"]
                             /\ UNCHANGED <<verdict, idle, workers>>
         \/ \E t \in Tasks, w \in Workers : /\ ReadNew(w, t) /\ UNCHANGED verdict
                                            /\ entry' = [entry EXCEPT ![t] = "pending"]
         \/ \E t \in Tasks : /\ Acked(t) \/ Deleted(t)
                             /\ verdict[t] # {}
                             /\ UNCHANGED <<verdict, idle, producers, mishaps>>
                             /\ \/ UNCHANGED workers /\ "cancelled" \in verdict[t]
                                \/ \E w \in Workers : task[w] = t /\ (Xack(w) \/ Xdel(w))
  <1>1. ASSUME NEW t \in Tasks, Publish(t), ~ UNCHANGED entry
        PROVE  /\ enq[t] = "publish"
               /\ enq'[t] \in {"record", "unreserve"}
               /\ entry' = [entry EXCEPT ![t] = "new"]
               /\ UNCHANGED <<verdict, idle, workers>>
    BY <1>1 DEF Publish, TypeOK
  <1>2. ASSUME NEW w \in Workers, Xack(w) \/ Xdel(w)
        PROVE  /\ task[w] \in Tasks
               /\ Acked(task[w]) \/ Deleted(task[w])
               /\ verdict[task[w]] # {}
               /\ UNCHANGED <<verdict, idle, producers, mishaps>>
    BY <1>2, HeldTask DEF Xack, Xdel, FateInv, FinishingIsDecided, FinishSteps, AckSteps,
       BurySteps, DiscardSteps
  <1>3. CASE CancelAcks \/ CancelDeletes
    BY <1>3 DEF CancelAcks, CancelDeletes, FateInv, HonestCancel, TypeOK
  <1>4. ASSUME NEW w \in Workers, NEW t \in Tasks, ReadNew(w, t)
        PROVE  UNCHANGED verdict /\ entry' = [entry EXCEPT ![t] = "pending"]
    BY <1>4 DEF ReadNew
  <1>5. CASE UNCHANGED vars
    BY <1>5 DEF vars, redis
  <1>6. ASSUME NEW t \in Tasks, Enqueue(t) \/ ReserveFails(t) \/ ProducerCrash(t)
        PROVE  Publish(t) \/ UNCHANGED entry
    BY <1>6 DEF Enqueue, ReserveDedup, LookupOwner, PeekExisting, DropPlaceholder, Unreserve,
       ReleaseDedup, RecordInitial, ReserveFails, ProducerCrash, redis
  <1>7. ASSUME NEW w \in Workers, Work(w) \/ FinishFails(w) \/ WorkerCrash(w) \/ BeatStarts(w)
        PROVE  \/ Xack(w) \/ Xdel(w) \/ UNCHANGED entry
               \/ \E t \in Tasks : ReadNew(w, t)
    BY <1>7 DEF Work, Reclaim, Hydrate, WriteLease, HandlerSucceeds, HandlerRaises, NoHandler,
       WriteRetry, WriteGivenUp, AddDeadLetter, WriteSucceeded, FinishFails, WorkerCrash,
       BeatStarts, redis
  <1>8. ASSUME \/ \E b \in beats : BeatWrites(b) \/ BeatClaims(b)
               \/ \E t \in Tasks : CancelStarts(t) \/ GoesIdle(t) \/ BackoffElapses(t)
               \/ CancelWrites
        PROVE  UNCHANGED entry
    BY <1>8 DEF BeatWrites, BeatClaims, CancelStarts, GoesIdle, BackoffElapses, CancelWrites, redis
  <1> QED
    BY <1>1, <1>2, <1>3, <1>4, <1>5, <1>6, <1>7, <1>8 DEF Next

LEMMA FirstPublicationInvariant == Spec => []FirstPublication
  <1>1. Init => FirstPublication
    BY DEF Init, FirstPublication
  <1>2. TypeOK /\ FateInv /\ FirstPublication /\ [Next]_vars => FirstPublication'
    <2> SUFFICES ASSUME TypeOK, FateInv, FirstPublication, [Next]_vars,
                        NEW t \in Tasks,
                        enq'[t] \in {"reserve", "lookup", "peek", "drop", "publish"}
                 PROVE  entry'[t] = "absent"
      BY DEF FirstPublication
    <2>1. enq[t] \in {"reserve", "lookup", "peek", "drop", "publish"}
      <3>1. CASE UNCHANGED enq
        BY <3>1
      <3>2. ASSUME NEW u \in Tasks, Enqueue(u) \/ ReserveFails(u) \/ ProducerCrash(u)
            PROVE  enq[t] \in {"reserve", "lookup", "peek", "drop", "publish"}
        <4>1. CASE t # u
          BY <3>2, <4>1 DEF Enqueue, ReserveDedup, LookupOwner, PeekExisting, DropPlaceholder,
             Publish, Unreserve, ReleaseDedup, RecordInitial, ReserveFails, ProducerCrash, TypeOK
        <4>2. CASE t = u
          BY <3>2, <4>2 DEF Enqueue, ReserveDedup, LookupOwner, PeekExisting, DropPlaceholder,
             Publish, Unreserve, ReleaseDedup, RecordInitial, ReserveFails, ProducerCrash, TypeOK
        <4> QED
          BY <4>1, <4>2
      <3>3. \/ UNCHANGED enq
            \/ \E u \in Tasks : Enqueue(u) \/ ReserveFails(u) \/ ProducerCrash(u)
        BY DEF Next, vars, producers, Work, Reclaim, ReadNew, Hydrate, WriteLease,
           HandlerSucceeds, HandlerRaises, NoHandler, WriteRetry, WriteGivenUp, AddDeadLetter,
           Xack, Xdel, WriteSucceeded, FinishFails, WorkerCrash, BeatStarts, BeatWrites,
           BeatClaims, CancelStarts, GoesIdle, BackoffElapses, CancelAcks, CancelDeletes,
           CancelWrites
      <3> QED
        BY <3>1, <3>2, <3>3
    <2>2. entry[t] = "absent"
      BY <2>1 DEF FirstPublication
    <2> QED
      BY <2>2, EntrySteps DEF ReadNew, Acked, Deleted, TypeOK
  <1> QED
    BY <1>1, <1>2, TypeCorrect, FateInvariant, PTL DEF Spec

\* The queue implements TaskQueueContract: it takes a task over once, and lets go of it once,
\* after a decision.
THEOREM QueueKeepsContract == Spec => KeepsContract
  <1>1. Init => Contract!Init
    BY DEF Init, Contract!Init, Settled
  <1>2. TypeOK /\ FateInv /\ PublishedInv /\ FirstPublication /\ [Next]_vars
          => [Contract!Next]_(Contract!vars)
    <2> SUFFICES ASSUME TypeOK, FateInv, PublishedInv, FirstPublication, [Next]_vars
                 PROVE  [Contract!Next]_(Contract!vars)
      OBVIOUS
    <2> DEFINE accepted == {t \in Tasks : entry[t] # "absent"}
               settled == {t \in Tasks : Settled(t)}
    <2>1. CASE UNCHANGED entry
      <3>1. UNCHANGED <<accepted, settled>>
        BY <2>1 DEF Settled
      <3>2. \/ UNCHANGED verdict
            \/ \E t \in accepted, v \in Verdicts : Decide(t, v)
        <4>1. ASSUME NEW w \in Workers, HandlerSucceeds(w) \/ HandlerRaises(w) \/ NoHandler(w)
              PROVE  UNCHANGED verdict \/ \E t \in accepted, v \in Verdicts : Decide(t, v)
          <5>1. task[w] \in accepted
            BY <4>1, HeldTask DEF HandlerSucceeds, HandlerRaises, NoHandler, PublishedInv,
               PublishedHeld, Published
          <5>2. UNCHANGED verdict \/ \E v \in Verdicts : Decide(task[w], v)
            BY <4>1 DEF HandlerSucceeds, HandlerRaises, RetryOrGiveUp, NoHandler, Verdicts
          <5> HIDE DEF accepted
          <5> QED
            BY <5>1, <5>2
        <4>2. ASSUME NEW t \in Tasks, CancelStarts(t)
              PROVE  \E u \in accepted, v \in Verdicts : Decide(u, v)
          <5>1. t \in accepted /\ "cancelled" \in Verdicts /\ Decide(t, "cancelled")
            BY <4>2 DEF CancelStarts, PublishedInv, PublishedHash, Published, Verdicts
          <5> HIDE DEF accepted
          <5> QED
            BY <5>1
        <4>3. \/ UNCHANGED verdict
              \/ \E w \in Workers : HandlerSucceeds(w) \/ HandlerRaises(w) \/ NoHandler(w)
              \/ \E t \in Tasks : CancelStarts(t)
          BY DEF Next, vars, Enqueue, ReserveDedup, LookupOwner, PeekExisting, DropPlaceholder,
             Publish, Unreserve, ReleaseDedup, RecordInitial, ReserveFails, ProducerCrash, Work,
             Reclaim, ReadNew, Hydrate, WriteLease, WriteRetry, WriteGivenUp, AddDeadLetter,
             Xack, Xdel, WriteSucceeded, FinishFails, WorkerCrash, BeatStarts, BeatWrites,
             BeatClaims, GoesIdle, BackoffElapses, CancelAcks, CancelDeletes, CancelWrites
        <4> QED
          BY <4>1, <4>2, <4>3
      <3>3. ASSUME NEW t \in accepted, NEW v \in Verdicts, Decide(t, v)
            PROVE  Contract!Next
        <4>1. Contract!Decide(t, v)
          BY <3>1, <3>3 DEF Decide, Contract!Decide
        <4> QED
          BY <4>1 DEF Contract!Next, Contract!Verdicts, Verdicts
      <3> QED
        BY <3>1, <3>2, <3>3 DEF Contract!vars
    <2>2. ASSUME NEW t \in Tasks, enq[t] = "publish", UNCHANGED verdict,
                 entry' = [entry EXCEPT ![t] = "new"]
          PROVE  Contract!Next
      <3>1. entry[t] = "absent"
        BY <2>2 DEF FirstPublication
      <3>2. /\ t \notin accepted
            /\ accepted' = accepted \cup {t}
            /\ settled' = settled
        BY <2>2, <3>1 DEF Settled, TypeOK
      <3>3. Contract!Accept(t)
        BY <2>2, <3>2 DEF Contract!Accept
      <3> QED
        BY <3>3 DEF Contract!Next
    <2>3. ASSUME NEW t \in Tasks, entry[t] = "new", UNCHANGED verdict,
                 entry' = [entry EXCEPT ![t] = "pending"]
          PROVE  UNCHANGED Contract!vars
      <3>1. accepted' = accepted /\ settled' = settled
        BY <2>3 DEF Settled, TypeOK
      <3> QED
        BY <2>3, <3>1 DEF Contract!vars
    <2>4. ASSUME NEW t \in Tasks, Acked(t) \/ Deleted(t), verdict[t] # {}, UNCHANGED verdict
          PROVE  [Contract!Next]_(Contract!vars)
      <3>1. accepted' = accepted
        BY <2>4 DEF Acked, Deleted, TypeOK
      <3>2. \/ settled' = settled
            \/ /\ t \in accepted \ settled
               /\ settled' = settled \cup {t}
        BY <2>4 DEF Acked, Deleted, Settled, TypeOK
      <3>3. CASE settled' = settled
        BY <2>4, <3>1, <3>3 DEF Contract!vars
      <3>4. CASE t \in accepted \ settled /\ settled' = settled \cup {t}
        <4>1. Contract!Settle(t)
          BY <2>4, <3>1, <3>4 DEF Contract!Settle
        <4> QED
          BY <4>1 DEF Contract!Next
      <3> QED
        BY <3>2, <3>3, <3>4
    <2> QED
      BY <2>1, <2>2, <2>3, <2>4, EntrySteps DEF ReadNew
  <1> QED
    BY <1>1, <1>2, TypeCorrect, FateInvariant, PublishedInvariant, FirstPublicationInvariant,
       PTL DEF Spec, KeepsContract, Contract!Spec

-----------------------------------------------------------------------------
(* One handler at a time, as long as no worker has stalled. *)

\* What an entry a worker holds looks like.
HeldIsDelivered == \A w \in Workers : step[w] # "poll" => entry[task[w]] \notin {"absent", "new"}
UndeliveredIsNotIdle == \A t \in Tasks : entry[t] \in {"absent", "new"} => ~ idle[t]

Alone == \A v, w \in Workers : step[v] # "poll" /\ step[w] # "poll" /\ task[v] = task[w] => v = w
HeldIsRenewed == \A w \in Workers : step[w] # "poll" /\ entry[task[w]] = "pending" => ~ idle[task[w]]

\* Only its own worker, about to let go of it, or a canceller takes an entry off the queue.
TakenOff == {"ack_xdel", "ack_hash", "bury_xdel", "discard_xdel"}
SettledByHolder ==
    \A w \in Workers : step[w] # "poll" /\ Settled(task[w])
                        => step[w] \in TakenOff \/ "cancelled" \in verdict[task[w]]

ExclusionInv ==
    /\ HeldIsDelivered
    /\ UndeliveredIsNotIdle
    /\ Calm({"stall"}) => Alone /\ HeldIsRenewed /\ SettledByHolder

\* Mishaps are counted, never forgotten.
LEMMA CalmBefore ==
  ASSUME TypeOK, [Next]_vars, NEW kinds \in SUBSET Kinds, Calm(kinds)'
  PROVE  Calm(kinds)
  <1>1. UNCHANGED mishaps \/ \E k \in Kinds : Mishap(k)
    <2>1. ASSUME NEW t \in Tasks, Enqueue(t) \/ ReserveFails(t) \/ ProducerCrash(t)
          PROVE  UNCHANGED mishaps \/ \E k \in Kinds : Mishap(k)
      BY <2>1 DEF Enqueue, ReserveDedup, LookupOwner, PeekExisting, DropPlaceholder, Publish,
         Unreserve, ReleaseDedup, RecordInitial, ReserveFails, ProducerCrash, Kinds
    <2>2. ASSUME NEW w \in Workers, Work(w) \/ FinishFails(w) \/ WorkerCrash(w) \/ BeatStarts(w)
          PROVE  UNCHANGED mishaps \/ \E k \in Kinds : Mishap(k)
      BY <2>2 DEF Work, Reclaim, ReadNew, Hydrate, WriteLease, HandlerSucceeds, HandlerRaises,
         CountAttempt, NoHandler, WriteHash, WriteRetry, WriteGivenUp, AddDeadLetter, Xack,
         Xdel, WriteSucceeded, FinishFails, WorkerCrash, BeatStarts, Kinds
    <2>3. ASSUME \/ \E b \in beats : BeatWrites(b) \/ BeatClaims(b)
                 \/ \E t \in Tasks : CancelStarts(t) \/ GoesIdle(t) \/ BackoffElapses(t)
                 \/ CancelAcks \/ CancelDeletes \/ CancelWrites
          PROVE  UNCHANGED mishaps \/ \E k \in Kinds : Mishap(k)
      BY <2>3 DEF BeatWrites, BeatClaims, CancelStarts, GoesIdle, BackoffElapses, CancelAcks,
         CancelDeletes, CancelWrites, WriteHash, Kinds
    <2> QED
      BY <2>1, <2>2, <2>3 DEF Next, vars
  <1>2. ASSUME NEW k \in Kinds, Mishap(k)  PROVE Calm(kinds)
    BY <1>2 DEF Mishap, Calm, TypeOK
  <1> QED
    BY <1>1, <1>2 DEF Calm

\* A worker that holds a task has just taken it or goes on with it.
LEMMA HeldSteps ==
  ASSUME TypeOK, [Next]_vars, NEW v \in Workers, step'[v] # "poll"
  PROVE  \/ \E t \in Tasks : Reclaim(v, t) \/ ReadNew(v, t)
         \/ /\ step[v] # "poll"
            /\ task'[v] = task[v]
            /\ step[v] \in TakenOff => step'[v] \in TakenOff
  <1> DEFINE takes == \E t \in Tasks : Reclaim(v, t) \/ ReadNew(v, t)
             goesOn == /\ step[v] # "poll"
                       /\ task'[v] = task[v]
                       /\ step[v] \in TakenOff => step'[v] \in TakenOff
  <1>1. CASE UNCHANGED <<step, task>>
    BY <1>1
  <1>2. ASSUME NEW w \in Workers, Work(w) \/ FinishFails(w) \/ WorkerCrash(w)
        PROVE  takes \/ goesOn
    <2>1. CASE \E t \in Tasks : Reclaim(w, t) \/ ReadNew(w, t)
      BY <2>1 DEF Reclaim, ReadNew, Take, Goto, TypeOK
    <2>2. CASE ~ \E t \in Tasks : Reclaim(w, t) \/ ReadNew(w, t)
      <3>1. /\ \A u \in Workers \ {w} : step'[u] = step[u] /\ task'[u] = task[u]
            /\ step[w] # "poll"
            /\ step'[w] = "poll" \/ task'[w] = task[w]
        BY <1>2, <2>2 DEF Work, Hydrate, HydrateAs, WriteLease, HandlerSucceeds,
           HandlerRaises, RetryOrGiveUp, NoHandler, WriteRetry, WriteGivenUp,
           AddDeadLetter, Xack, Xdel, WriteSucceeded, FinishFails, WorkerCrash, Leave, Goto,
           DiscardSteps, TypeOK
      <3>2. step[w] \in TakenOff => step'[w] \in TakenOff \/ step'[w] = "poll"
        BY <1>2, <2>2 DEF Work, Hydrate, WriteLease, HandlerSucceeds,
           HandlerRaises, NoHandler, WriteRetry, WriteGivenUp,
           AddDeadLetter, Xack, Xdel, WriteSucceeded, FinishFails, WorkerCrash, Leave, Goto,
           TakenOff, TypeOK
      <3> QED
        BY <3>1, <3>2
    <2> QED
      BY <2>1, <2>2
  <1>3. \/ UNCHANGED <<step, task>>
        \/ \E w \in Workers : Work(w) \/ FinishFails(w) \/ WorkerCrash(w)
    BY DEF Next, vars, workers, Enqueue, ReserveDedup, LookupOwner, PeekExisting,
       DropPlaceholder, Publish, Unreserve, ReleaseDedup, RecordInitial, ReserveFails,
       ProducerCrash, BeatStarts, BeatWrites, BeatClaims, CancelStarts, GoesIdle,
       BackoffElapses, CancelAcks, CancelDeletes, CancelWrites
  <1> QED
    BY <1>1, <1>2, <1>3

\* Only the passing of time makes an entry idle.
LEMMA IdleSteps ==
  ASSUME TypeOK, [Next]_vars, NEW t \in Tasks, idle'[t]
  PROVE  idle[t] \/ GoesIdle(t)
  <1>1. ASSUME NEW u \in Tasks, Enqueue(u) \/ ReserveFails(u) \/ ProducerCrash(u)
        PROVE  UNCHANGED idle
    BY <1>1 DEF redis, Enqueue, ReserveDedup, LookupOwner, PeekExisting, DropPlaceholder,
       Publish, Unreserve, ReleaseDedup, RecordInitial, ReserveFails, ProducerCrash
  <1>2. ASSUME NEW w \in Workers, Work(w) \/ FinishFails(w) \/ WorkerCrash(w) \/ BeatStarts(w)
        PROVE  idle[t]
    BY <1>2 DEF redis, Work, Reclaim, ReadNew, Hydrate, WriteLease, HandlerSucceeds,
       HandlerRaises, NoHandler, WriteRetry, WriteGivenUp, AddDeadLetter, Xack, Xdel,
       WriteSucceeded, FinishFails, WorkerCrash, BeatStarts, TypeOK
  <1>3. ASSUME NEW b \in beats, BeatWrites(b) \/ BeatClaims(b)
        PROVE  idle[t]
    BY <1>3 DEF BeatWrites, BeatClaims, TypeOK
  <1>4. ASSUME NEW u \in Tasks, GoesIdle(u)
        PROVE  idle[t] \/ GoesIdle(t)
    <2>1. u # t => idle'[t] = idle[t]
      BY <1>4 DEF GoesIdle, TypeOK
    <2> QED
      BY <1>4, <2>1
  <1>5. ASSUME \/ CancelAcks \/ CancelDeletes \/ CancelWrites
               \/ \E u \in Tasks : CancelStarts(u) \/ BackoffElapses(u)
        PROVE  UNCHANGED idle
    BY <1>5 DEF redis, CancelAcks, CancelDeletes, CancelWrites, CancelStarts, BackoffElapses
  <1>6. UNCHANGED idle => idle[t]
    OBVIOUS
  <1>7. CASE UNCHANGED vars
    BY <1>6, <1>7 DEF vars, redis
  <1>8. CASE Next
    BY <1>1, <1>2, <1>3, <1>4, <1>5, <1>6, <1>8 DEF Next
  <1> QED
    BY <1>7, <1>8

\* Decisions are never taken back, by any step.
LEMMA VerdictSteps ==
  ASSUME TypeOK, [Next]_vars, NEW t \in Tasks
  PROVE  verdict[t] \subseteq verdict'[t]
  <1>1. ASSUME NEW w \in Workers, HandlerSucceeds(w) \/ HandlerRaises(w) \/ NoHandler(w)
        PROVE  verdict[t] \subseteq verdict'[t]
    BY <1>1 DEF HandlerSucceeds, HandlerRaises, RetryOrGiveUp, NoHandler, Decide, TypeOK
  <1>2. ASSUME NEW u \in Tasks, CancelStarts(u)
        PROVE  verdict[t] \subseteq verdict'[t]
    BY <1>2 DEF CancelStarts, Decide, TypeOK
  <1>3. \/ UNCHANGED verdict
        \/ \E w \in Workers : HandlerSucceeds(w) \/ HandlerRaises(w) \/ NoHandler(w)
        \/ \E u \in Tasks : CancelStarts(u)
    BY DEF Next, vars, Enqueue, ReserveDedup, LookupOwner, PeekExisting, DropPlaceholder,
       Publish, Unreserve, ReleaseDedup, RecordInitial, ReserveFails, ProducerCrash, Work,
       Reclaim, ReadNew, Hydrate, WriteLease, WriteRetry, WriteGivenUp, AddDeadLetter,
       Xack, Xdel, WriteSucceeded, FinishFails, WorkerCrash, BeatStarts, BeatWrites,
       BeatClaims, GoesIdle, BackoffElapses, CancelAcks, CancelDeletes, CancelWrites
  <1> QED
    BY <1>1, <1>2, <1>3

LEMMA DeliveredInvariant ==
  ASSUME TypeOK, FateInv, FirstPublication, HeldIsDelivered, UndeliveredIsNotIdle, [Next]_vars
  PROVE  HeldIsDelivered' /\ UndeliveredIsNotIdle'
  <1>1. \A t \in Tasks : entry[t] \notin {"absent", "new"} => entry'[t] \notin {"absent", "new"}
    BY EntrySteps DEF Acked, Deleted, ReadNew, FirstPublication, TypeOK
  <1>2. HeldIsDelivered'
    <2> SUFFICES ASSUME NEW v \in Workers, step'[v] # "poll"
                 PROVE  entry'[task'[v]] \notin {"absent", "new"}
      BY DEF HeldIsDelivered
    <2>1. CASE step[v] # "poll" /\ task'[v] = task[v]
      BY <1>1, <2>1, HeldTask DEF HeldIsDelivered
    <2>2. ASSUME NEW t \in Tasks, Reclaim(v, t) \/ ReadNew(v, t)
          PROVE  entry'[task'[v]] \notin {"absent", "new"}
      BY <2>2 DEF Reclaim, ReadNew, Take, TypeOK
    <2> QED
      BY <2>1, <2>2, HeldSteps
  <1>3. UndeliveredIsNotIdle'
    <2> SUFFICES ASSUME NEW t \in Tasks, entry'[t] \in {"absent", "new"}, idle'[t]
                 PROVE  FALSE
      BY DEF UndeliveredIsNotIdle
    <2>1. ~ idle[t] /\ entry[t] # "pending"
      BY <1>1 DEF UndeliveredIsNotIdle, TypeOK
    <2> QED
      BY <2>1, IdleSteps DEF GoesIdle
  <1> QED
    BY <1>2, <1>3

LEMMA ExclusionStep ==
  ASSUME TypeOK, FateInv, FirstPublication, ExclusionInv, [Next]_vars, Calm({"stall"})'
  PROVE  Alone' /\ HeldIsRenewed' /\ SettledByHolder'
  <1>1. /\ Alone /\ HeldIsRenewed /\ SettledByHolder
        /\ HeldIsDelivered /\ UndeliveredIsNotIdle
    BY CalmBefore DEF ExclusionInv, Kinds
  \* Nobody holds a task that is handed out.
  <1>2. ASSUME NEW w \in Workers, NEW t \in Tasks, Reclaim(w, t) \/ ReadNew(w, t)
        PROVE  /\ \A v \in Workers : step[v] # "poll" => task[v] # t
               /\ ~ idle'[t]
               /\ entry'[t] = "pending"
               /\ task'[w] = t
               /\ \A v \in Workers \ {w} : step'[v] = step[v] /\ task'[v] = task[v]
               /\ \A u \in Tasks \ {t} : entry'[u] = entry[u] /\ idle'[u] = idle[u]
               /\ UNCHANGED verdict
    <2>1. CASE Reclaim(w, t)
      BY <1>1, <2>1 DEF Reclaim, Take, Goto, HeldIsRenewed, TypeOK
    <2>2. CASE ReadNew(w, t)
      BY <1>1, <2>2 DEF ReadNew, Take, Goto, HeldIsDelivered, UndeliveredIsNotIdle, TypeOK
    <2> QED
      BY <1>2, <2>1, <2>2
  <1>3. Alone'
    <2> SUFFICES ASSUME NEW v \in Workers, NEW w \in Workers,
                        step'[v] # "poll", step'[w] # "poll", task'[v] = task'[w], v # w
                 PROVE  FALSE
      BY DEF Alone
    <2>1. ASSUME NEW t \in Tasks, Reclaim(w, t) \/ ReadNew(w, t)  PROVE FALSE
      BY <1>2, <2>1
    <2>2. ASSUME NEW t \in Tasks, Reclaim(v, t) \/ ReadNew(v, t)  PROVE FALSE
      BY <1>2, <2>2
    <2> QED
      BY <1>1, <2>1, <2>2, HeldSteps DEF Alone
  <1>4. HeldIsRenewed'
    <2> SUFFICES ASSUME NEW w \in Workers, step'[w] # "poll", entry'[task'[w]] = "pending",
                        idle'[task'[w]]
                 PROVE  FALSE
      BY DEF HeldIsRenewed
    <2>1. ASSUME NEW t \in Tasks, Reclaim(w, t) \/ ReadNew(w, t)  PROVE FALSE
      BY <1>2, <2>1
    <2>2. CASE step[w] # "poll" /\ task'[w] = task[w]
      <3>1. task[w] \in Tasks
        BY <2>2, HeldTask
      <3>2. CASE GoesIdle(task[w])
        <4>1. Mishap("stall")
          BY <2>2, <3>2 DEF GoesIdle, Holds
        <4> QED
          BY <4>1 DEF Mishap, Calm, TypeOK, Kinds
      <3>3. CASE idle[task[w]]
        <4>1. entry[task[w]] # "pending" /\ entry[task[w]] \notin {"absent", "new"}
          BY <1>1, <2>2, <3>3 DEF HeldIsRenewed, HeldIsDelivered
        <4>2. entry'[task[w]] # "pending"
          BY <3>1, <4>1, EntrySteps DEF Acked, Deleted, ReadNew, FirstPublication, TypeOK
        <4> QED
          BY <2>2, <4>2
      <3> QED
        BY <2>2, <3>1, <3>2, <3>3, IdleSteps
    <2> QED
      BY <2>1, <2>2, HeldSteps
  <1>5. SettledByHolder'
    <2> SUFFICES ASSUME NEW w \in Workers, step'[w] # "poll", Settled(task[w])'
                 PROVE  step'[w] \in TakenOff \/ "cancelled" \in verdict'[task'[w]]
      BY DEF SettledByHolder
    <2>1. ASSUME NEW t \in Tasks, Reclaim(w, t) \/ ReadNew(w, t)  PROVE FALSE
      BY <1>2, <2>1 DEF Settled
    <2>2. CASE /\ step[w] # "poll" /\ task'[w] = task[w]
               /\ step[w] \in TakenOff => step'[w] \in TakenOff
      <3>1. task[w] \in Tasks /\ verdict[task[w]] \subseteq verdict'[task[w]]
        BY <2>2, HeldTask, VerdictSteps
      <3>2. CASE Settled(task[w])
        BY <1>1, <2>2, <3>1, <3>2 DEF SettledByHolder
      <3>3. CASE ~ Settled(task[w])
        <4>1. \/ "cancelled" \in verdict[task[w]]
              \/ \E v \in Workers : task[v] = task[w] /\ (Xack(v) \/ Xdel(v))
          BY <2>2, <3>1, <3>3, EntrySteps DEF Settled, Acked, Deleted, ReadNew,
             FirstPublication, TypeOK
        <4>2. ASSUME NEW v \in Workers, task[v] = task[w], Xack(v) \/ Xdel(v)
              PROVE  step'[w] \in TakenOff
          <5>1. step[v] # "poll"
            BY <4>2 DEF Xack, Xdel, DiscardSteps
          <5>2. v = w
            BY <1>1, <2>2, <4>2, <5>1 DEF Alone
          <5>3. step'[v] \in TakenOff \cup {"poll"}
            BY <4>2 DEF Xack, Xdel, Goto, Leave, TakenOff, TypeOK
          <5> QED
            BY <5>2, <5>3
        <4> QED
          BY <2>2, <3>1, <4>1, <4>2
      <3> QED
        BY <3>2, <3>3
    <2> QED
      BY <2>1, <2>2, HeldSteps
  <1> QED
    BY <1>3, <1>4, <1>5

LEMMA ExclusionInvariant == Spec => []ExclusionInv
  <1>1. Init => ExclusionInv
    BY DEF Init, ExclusionInv, HeldIsDelivered, UndeliveredIsNotIdle, Alone, HeldIsRenewed,
       SettledByHolder
  <1>2. /\ TypeOK /\ FateInv /\ FirstPublication /\ ExclusionInv /\ [Next]_vars
        => ExclusionInv'
    BY DeliveredInvariant, ExclusionStep DEF ExclusionInv
  <1> QED
    BY <1>1, <1>2, TypeCorrect, FateInvariant, FirstPublicationInvariant, PTL DEF Spec

\* Unless a worker stalls beyond retry_idle_ms, a task has one handler at a time, and none
\* once its success alone has taken it off the queue.
THEOREM OneHandler == Spec => []OneHandlerUnlessStalled
  <1>1. TypeOK /\ ExclusionInv => OneHandlerUnlessStalled
    <2> SUFFICES ASSUME TypeOK, ExclusionInv, NEW w \in Workers, step[w] = "handle",
                        Calm({"stall"})
                 PROVE  /\ \A v \in Workers \ {w} : ~ Holds(v, task[w])
                        /\ ~ (Settled(task[w]) /\ verdict[task[w]] = {"ok"})
      BY DEF OneHandlerUnlessStalled
    <2>1. \A v \in Workers \ {w} : ~ Holds(v, task[w])
      BY DEF ExclusionInv, Alone, Holds
    <2>2. Settled(task[w]) => "cancelled" \in verdict[task[w]]
      BY DEF ExclusionInv, SettledByHolder, TakenOff
    <2> QED
      BY <2>1, <2>2
  <1> QED
    BY <1>1, TypeCorrect, ExclusionInvariant, PTL

-----------------------------------------------------------------------------
(* Dead letters. *)

\* Without crashes and Redis errors, a task that was given up has its dead letter, or the
\* worker that gave it up is about to write it.
Burying(t) == \E w \in Workers : task[w] = t /\ step[w] \in {"bury_hash", "bury_dead"}
GivenUp(t) == verdict[t] \cap {"dead", "failed"} # {}

LettersInv == Calm({"crash", "fault"}) => \A t \in Tasks : GivenUp(t) => t \in dead \/ Burying(t)

LEMMA LettersStep ==
  ASSUME TypeOK, LettersInv, [Next]_vars, Calm({"crash", "fault"})', NEW t \in Tasks, GivenUp(t)'
  PROVE  t \in dead' \/ Burying(t)'
  <1>1. GivenUp(t) => t \in dead \/ Burying(t)
    BY CalmBefore DEF LettersInv, Kinds
  <1>2. ASSUME NEW w \in Workers, HandlerSucceeds(w) \/ HandlerRaises(w) \/ NoHandler(w)
        PROVE  GivenUp(t) \/ Burying(t)'
    <2>1. task[w] \in Tasks /\ UNCHANGED task
      BY <1>2, HeldTask DEF HandlerSucceeds, HandlerRaises, NoHandler
    <2>2. CASE HandlerSucceeds(w)
      BY <2>1, <2>2 DEF HandlerSucceeds, Decide, GivenUp, TypeOK
    <2>3. CASE HandlerRaises(w)
      BY <2>1, <2>3 DEF HandlerRaises, RetryOrGiveUp, Decide, GivenUp, Burying, Goto, TypeOK
    <2>4. CASE NoHandler(w)
      BY <2>1, <2>4 DEF NoHandler, Decide, GivenUp, Burying, Goto, TypeOK
    <2> QED
      BY <1>2, <2>2, <2>3, <2>4
  <1>3. GivenUp(t) \/ Burying(t)'
    <2>1. ASSUME NEW u \in Tasks, CancelStarts(u)  PROVE GivenUp(t)
      BY <2>1 DEF CancelStarts, Decide, GivenUp, TypeOK
    <2>2. \/ UNCHANGED verdict
          \/ \E w \in Workers : HandlerSucceeds(w) \/ HandlerRaises(w) \/ NoHandler(w)
          \/ \E u \in Tasks : CancelStarts(u)
      BY DEF Next, vars, Enqueue, ReserveDedup, LookupOwner, PeekExisting, DropPlaceholder,
         Publish, Unreserve, ReleaseDedup, RecordInitial, ReserveFails, ProducerCrash, Work,
         Reclaim, ReadNew, Hydrate, WriteLease, WriteRetry, WriteGivenUp, AddDeadLetter,
         Xack, Xdel, WriteSucceeded, FinishFails, WorkerCrash, BeatStarts, BeatWrites,
         BeatClaims, GoesIdle, BackoffElapses, CancelAcks, CancelDeletes, CancelWrites
    <2>3. CASE UNCHANGED verdict
      BY <2>3 DEF GivenUp
    <2> QED
      BY <1>2, <2>1, <2>2, <2>3
  <1>4. dead \subseteq dead'
    BY DEF Next, vars, redis, Enqueue, ReserveDedup, LookupOwner, PeekExisting, DropPlaceholder,
       Publish, Unreserve, ReleaseDedup, RecordInitial, ReserveFails, ProducerCrash, Work,
       Reclaim, ReadNew, Hydrate, WriteLease, HandlerSucceeds, HandlerRaises, NoHandler,
       WriteRetry, WriteGivenUp, AddDeadLetter, Xack, Xdel, WriteSucceeded, FinishFails,
       WorkerCrash, BeatStarts, BeatWrites, BeatClaims, CancelStarts, GoesIdle, BackoffElapses,
       CancelAcks, CancelDeletes, CancelWrites
  <1>5. ASSUME NEW v \in Workers, task[v] = t, step[v] \in {"bury_hash", "bury_dead"}
        PROVE  t \in dead' \/ Burying(t)'
    <2>1. CASE UNCHANGED <<step, task>>
      BY <1>5, <2>1 DEF Burying
    <2>2. ASSUME NEW w \in Workers, w # v, Work(w) \/ FinishFails(w) \/ WorkerCrash(w)
          PROVE  Burying(t)'
      <3>1. step'[v] = step[v] /\ task'[v] = task[v]
        BY <2>2 DEF Work, Reclaim, ReadNew, Take, Hydrate, HydrateAs, WriteLease, HandlerSucceeds,
           HandlerRaises, RetryOrGiveUp, NoHandler, WriteRetry, WriteGivenUp,
           AddDeadLetter, Xack, Xdel, WriteSucceeded, FinishFails, WorkerCrash, Leave, Goto,
           TypeOK
      <3> QED
        BY <1>5, <3>1 DEF Burying
    <2>3. CASE FinishFails(v) \/ WorkerCrash(v)
      BY <2>3 DEF FinishFails, WorkerCrash, Mishap, Calm, Kinds, TypeOK
    <2>4. CASE WriteGivenUp(v)
      BY <1>5, <2>4 DEF WriteGivenUp, Goto, Burying, TypeOK
    <2>5. CASE AddDeadLetter(v)
      BY <1>5, <2>5 DEF AddDeadLetter
    <2>6. CASE Work(v)
      BY <1>5, <2>4, <2>5, <2>6 DEF Work, Reclaim, ReadNew, Take, Hydrate, WriteLease,
         HandlerSucceeds, HandlerRaises, NoHandler, WriteRetry, Xack, Xdel, WriteSucceeded,
         DiscardSteps
    <2>7. \/ UNCHANGED <<step, task>>
          \/ \E w \in Workers : Work(w) \/ FinishFails(w) \/ WorkerCrash(w)
      BY DEF Next, vars, workers, Enqueue, ReserveDedup, LookupOwner, PeekExisting,
         DropPlaceholder, Publish, Unreserve, ReleaseDedup, RecordInitial, ReserveFails,
         ProducerCrash, BeatStarts, BeatWrites, BeatClaims, CancelStarts, GoesIdle,
         BackoffElapses, CancelAcks, CancelDeletes, CancelWrites
    <2> QED
      BY <2>1, <2>2, <2>3, <2>6, <2>7
  <1> QED
    BY <1>1, <1>3, <1>4, <1>5 DEF Burying

\* A task that was only given up and is gone from the queue is in the dead-letter stream,
\* unless a crash or a Redis error fell between the two writes.
THEOREM DeadLettersAreKept == Spec => []GivenUpIsDeadLettered
  <1>1. Init => LettersInv
    BY DEF Init, LettersInv, GivenUp
  <1>2. TypeOK /\ LettersInv /\ [Next]_vars => LettersInv'
    BY LettersStep DEF LettersInv
  <1>3. TypeOK /\ FateInv /\ LettersInv => GivenUpIsDeadLettered
    <2> SUFFICES ASSUME TypeOK, FateInv, LettersInv, NEW t \in Tasks, Settled(t),
                        verdict[t] \subseteq {"dead", "failed"}, Calm({"crash", "fault"}),
                        \A w \in Workers : ~ (Holds(w, t) /\ step[w] \in BurySteps)
                 PROVE  t \in dead
      BY DEF GivenUpIsDeadLettered
    <2>1. GivenUp(t)
      BY DEF GivenUp, FateInv, NoTaskLost
    <2>2. ~ Burying(t)
      BY DEF Burying, Holds, BurySteps
    <2> QED
      BY <2>1, <2>2 DEF LettersInv
  <1> QED
    BY <1>1, <1>2, <1>3, TypeCorrect, FateInvariant, PTL DEF Spec
=============================================================================
