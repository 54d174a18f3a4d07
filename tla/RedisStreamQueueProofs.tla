----------------------- MODULE RedisStreamQueueProofs -----------------------
(***************************************************************************)
(* Theorems about RedisStreamQueue for any number of producers, workers,   *)
(* heartbeats, attempts and mishaps.                                       *)
(***************************************************************************)
EXTENDS RedisStreamQueue, TLAPS

USE ConstantsAssumption

LEMMA Records == Fresh \in Record /\ Missing \in Record
  BY DEF Fresh, Missing, Record, Status, Terminal

LEMMA RecordWith ==
  ASSUME NEW r \in Record, NEW s \in Status
  PROVE  [r EXCEPT !.status = s] \in Record /\ [r EXCEPT !.later = FALSE] \in Record
  BY DEF Record

LEMMA TypeInit == Init => TypeOK
  <1> SUFFICES ASSUME Init PROVE TypeOK
    OBVIOUS
  <1>1. hash \in [Tasks -> Record] /\ copy \in [Workers -> Record]
    BY Records DEF Init
  <1>2. /\ entry \in [Tasks -> EntryStates]
        /\ enq \in [Tasks -> EnqSteps]
        /\ step \in [Workers -> WorkerSteps]
    BY DEF Init, EntryStates, EnqSteps, WorkerSteps
  <1>3. ctl \in [step : {"none", "xack", "xdel", "hset"}, task : Tasks \cup {None}, rec : Record]
    BY Records DEF Init
  <1> QED
    BY <1>1, <1>2, <1>3 DEF Init, TypeOK

\* Type correctness, split by who takes the step.
LEMMA TypeEnqueue ==
  ASSUME TypeOK, NEW t \in Tasks, Enqueue(t) \/ ReserveFails(t) \/ ProducerCrash(t)
  PROVE  TypeOK'
  <1> USE DEF redis, producers, workers, TypeOK, EnqSteps, EnqDone, EntryStates
  <1>m. ASSUME NEW k \in Kinds, Mishap(k)  PROVE mishaps' \in [Kinds -> Nat]
    BY <1>m DEF Mishap
  <1>f. Fresh \in Record
    BY DEF Fresh, Record, Status
  <1>k. {"fault", "crash"} \subseteq Kinds
    BY DEF Kinds
  <1>1. CASE ReserveDedup(t)      BY <1>1 DEF ReserveDedup
  <1>2. CASE LookupOwner(t)       BY <1>2 DEF LookupOwner
  <1>3. CASE PeekExisting(t)      BY <1>3, <1>m, <1>k DEF PeekExisting
  <1>4. CASE DropPlaceholder(t)   BY <1>4 DEF DropPlaceholder
  <1>5. CASE Publish(t)           BY <1>5, <1>m, <1>k DEF Publish
  <1>6. CASE Unreserve(t)         BY <1>6, <1>m, <1>k DEF Unreserve
  <1>7. CASE ReleaseDedup(t)      BY <1>7, <1>m, <1>k DEF ReleaseDedup
  <1>8. CASE RecordInitial(t)     BY <1>8, <1>m, <1>k, <1>f DEF RecordInitial
  <1>9. CASE ReserveFails(t)      BY <1>9, <1>m, <1>k DEF ReserveFails
  <1>10. CASE ProducerCrash(t)    BY <1>10, <1>m, <1>k DEF ProducerCrash
  <1> QED BY <1>1, <1>2, <1>3, <1>4, <1>5, <1>6, <1>7, <1>8, <1>9, <1>10 DEF Enqueue

LEMMA TypeMishap ==
  ASSUME TypeOK, NEW k \in Kinds, Mishap(k)
  PROVE  mishaps' \in [Kinds -> Nat]
  BY DEF TypeOK, Mishap

LEMMA TypeWriteHash ==
  ASSUME TypeOK, NEW t \in Tasks, NEW rec \in Record, WriteHash(t, rec)
  PROVE  hash' \in [Tasks -> Record] /\ mishaps' \in [Kinds -> Nat]
  BY TypeMishap DEF TypeOK, WriteHash, Kinds

\* A worker that is not polling holds a task.
LEMMA HeldTask ==
  ASSUME TypeOK, NEW w \in Workers, step[w] # "poll"
  PROVE  task[w] \in Tasks /\ copy[w] \in Record /\ hash[task[w]] \in Record
  BY DEF TypeOK

LEMMA TypeClaim ==
  ASSUME TypeOK, NEW w \in Workers,
         (\E t \in Tasks : Reclaim(w, t) \/ ReadNew(w, t)) \/ Hydrate(w) \/ WriteLease(w)
  PROVE  TypeOK'
  <1> USE DEF redis, producers, TypeOK, WorkerSteps, AckSteps, BurySteps, DiscardSteps
  <1>1. ASSUME NEW t \in Tasks, Reclaim(w, t)  PROVE TypeOK'
    BY <1>1 DEF Reclaim, Take, Goto
  <1>2. ASSUME NEW t \in Tasks, ReadNew(w, t)  PROVE TypeOK'
    BY <1>2 DEF ReadNew, Take, Goto, EntryStates
  <1>3. CASE Hydrate(w)
    <2>1. ASSUME NEW rec \in Record, HydrateAs(w, rec)
          PROVE  /\ step' \in [Workers -> WorkerSteps]
                 /\ task' \in [Workers -> Tasks \cup {None}]
                 /\ copy' \in [Workers -> Record]
                 /\ \A v \in Workers : task'[v] = None <=> step'[v] = "poll"
      <3>1. [rec EXCEPT !.status = "running", !.sid = TRUE] \in Record
        BY DEF Record, Status
      <3> QED
        BY <1>3, <2>1, <3>1, Records DEF Hydrate, HydrateAs, Leave, Goto
    <2>2. mishaps' \in [Kinds -> Nat]
      BY <1>3, TypeMishap DEF Hydrate, Kinds
    <2>3. (IF hash[task[w]].status = "missing" THEN Fresh ELSE hash[task[w]]) \in Record
      BY <1>3, HeldTask, Records DEF Hydrate
    <2>4. \E rec \in Record : HydrateAs(w, rec)
      BY <1>3, <2>3, Records DEF Hydrate
    <2> QED
      BY <1>3, <2>1, <2>2, <2>4 DEF Hydrate
  <1>4. CASE WriteLease(w)
    BY <1>4, HeldTask, TypeWriteHash DEF WriteLease, Goto
  <1> QED
    BY <1>1, <1>2, <1>3, <1>4

LEMMA TypeHandler ==
  ASSUME TypeOK, NEW w \in Workers, HandlerSucceeds(w) \/ HandlerRaises(w) \/ NoHandler(w)
  PROVE  TypeOK'
  <1>1. /\ task[w] \in Tasks /\ copy[w] \in Record /\ hash[task[w]] \in Record
        /\ step[w] # "poll"
    BY HeldTask DEF HandlerSucceeds, HandlerRaises, NoHandler
  <1>2. ASSUME NEW v \in Verdicts, Decide(task[w], v)
        PROVE  verdict' \in [Tasks -> SUBSET Verdicts]
    BY <1>1, <1>2 DEF Decide, TypeOK
  <1>3. ASSUME NEW s \in WorkerSteps \ {"poll"}, Goto(w, s), UNCHANGED task
        PROVE  /\ step' \in [Workers -> WorkerSteps]
               /\ task' \in [Workers -> Tasks \cup {None}]
               /\ \A v \in Workers : task'[v] = None <=> step'[v] = "poll"
    BY <1>1, <1>3 DEF Goto, TypeOK
  <1>4. ASSUME NEW s \in Status, NEW n \in Nat, NEW l \in BOOLEAN
        PROVE  /\ [copy[w] EXCEPT !.status = s] \in Record
               /\ [copy[w] EXCEPT !.status = s, !.attempts = n] \in Record
               /\ [copy[w] EXCEPT !.status = s, !.attempts = n, !.later = l] \in Record
    BY <1>1 DEF Record
  <1>5. {"succeeded", "queued", "dead", "failed"} \subseteq Status
    BY DEF Status, Terminal
  <1>6. {"ack_xack", "retry_hash", "bury_hash"} \subseteq WorkerSteps \ {"poll"}
    BY DEF WorkerSteps, AckSteps, BurySteps
  <1>7. ASSUME NEW rec \in Record, copy' = [copy EXCEPT ![w] = rec]
        PROVE  copy' \in [Workers -> Record]
    BY <1>7 DEF TypeOK
  <1>8. copy[w].attempts + 1 \in Nat /\ hash[task[w]].attempts + 1 \in Nat
    BY <1>1 DEF Record
  <1>9. ASSUME NEW n, CountAttempt(w, n)
        PROVE  mishaps' \in [Kinds -> Nat]
    BY <1>9, TypeMishap DEF CountAttempt, Kinds, TypeOK
  <1>10. ASSUME failures' = [failures EXCEPT ![task[w]] = @ + 1]
         PROVE  failures' \in [Tasks -> Nat]
    BY <1>10, <1>1 DEF TypeOK
  <1>11. CASE HandlerSucceeds(w)
    <2>1. copy' = [copy EXCEPT ![w] = [copy[w] EXCEPT !.status = "succeeded"]]
      BY <1>11 DEF HandlerSucceeds
    <2>2. copy' \in [Workers -> Record]
      BY <1>4, <1>5, <1>7, <1>8, <2>1
    <2> QED
      BY <1>2, <1>3, <1>6, <1>11, <2>2 DEF HandlerSucceeds, redis, producers, TypeOK, Verdicts
  <1>12. CASE HandlerRaises(w)
    <2>1. PICK n \in {copy[w].attempts + 1, hash[task[w]].attempts + 1} :
             CountAttempt(w, n) /\ RetryOrGiveUp(w, n)
      BY <1>12 DEF HandlerRaises
    <2>2. \/ copy' = [copy EXCEPT ![w] =
                        [copy[w] EXCEPT !.status = "queued", !.attempts = n, !.later = TRUE]]
          \/ copy' = [copy EXCEPT ![w] = [copy[w] EXCEPT !.status = "dead", !.attempts = n]]
      BY <2>1 DEF RetryOrGiveUp
    <2>3. copy' \in [Workers -> Record]
      BY <1>4, <1>5, <1>7, <1>8, <2>2
    <2>4. verdict' \in [Tasks -> SUBSET Verdicts]
      BY <1>2, <2>1 DEF RetryOrGiveUp, Verdicts, TypeOK
    <2>5. /\ step' \in [Workers -> WorkerSteps]
          /\ task' \in [Workers -> Tasks \cup {None}]
          /\ \A v \in Workers : task'[v] = None <=> step'[v] = "poll"
      BY <1>3, <1>6, <1>12, <2>1 DEF RetryOrGiveUp, HandlerRaises
    <2> QED
      BY <1>9, <1>10, <1>12, <2>1, <2>3, <2>4, <2>5 DEF HandlerRaises, redis, producers, TypeOK
  <1>13. CASE NoHandler(w)
    <2>1. PICK n \in {copy[w].attempts + 1, hash[task[w]].attempts + 1} :
             /\ CountAttempt(w, n)
             /\ copy' = [copy EXCEPT ![w].status = "failed", ![w].attempts = n]
      BY <1>13 DEF NoHandler
    <2>2. copy' = [copy EXCEPT ![w] = [copy[w] EXCEPT !.status = "failed", !.attempts = n]]
      BY <2>1
    <2>3. copy' \in [Workers -> Record]
      BY <1>4, <1>5, <1>7, <1>8, <2>2
    <2>4. verdict' \in [Tasks -> SUBSET Verdicts]
      BY <1>2, <1>13 DEF NoHandler, Verdicts
    <2>5. /\ step' \in [Workers -> WorkerSteps]
          /\ task' \in [Workers -> Tasks \cup {None}]
          /\ \A v \in Workers : task'[v] = None <=> step'[v] = "poll"
      BY <1>3, <1>6, <1>13 DEF NoHandler
    <2> QED
      BY <1>9, <1>10, <1>13, <2>1, <2>3, <2>4, <2>5 DEF NoHandler, redis, producers, TypeOK
  <1> QED
    BY <1>11, <1>12, <1>13

LEMMA TypeFinish ==
  ASSUME TypeOK, NEW w \in Workers,
         \/ WriteRetry(w) \/ WriteGivenUp(w) \/ AddDeadLetter(w) \/ Xack(w) \/ Xdel(w)
         \/ WriteSucceeded(w) \/ FinishFails(w) \/ WorkerCrash(w)
  PROVE  TypeOK'
  <1> USE DEF redis, producers, TypeOK, WorkerSteps, AckSteps, BurySteps, DiscardSteps, Goto
  <1>1. ASSUME Leave(w)
        PROVE  /\ step' \in [Workers -> WorkerSteps]
               /\ task' \in [Workers -> Tasks \cup {None}]
               /\ copy' \in [Workers -> Record]
               /\ \A v \in Workers : task'[v] = None <=> step'[v] = "poll"
    BY <1>1, Records DEF Leave
  <1>2. ASSUME NEW t \in Tasks, Acked(t) \/ Deleted(t)
        PROVE  entry' \in [Tasks -> EntryStates]
    BY <1>2 DEF Acked, Deleted, EntryStates
  <1>3. CASE WriteRetry(w)
    BY <1>1, <1>3, HeldTask, TypeWriteHash DEF WriteRetry
  <1>4. CASE WriteGivenUp(w)
    BY <1>4, HeldTask, TypeWriteHash DEF WriteGivenUp
  <1>5. CASE AddDeadLetter(w)
    BY <1>5, HeldTask DEF AddDeadLetter
  <1>6. CASE Xack(w)
    BY <1>2, <1>6, HeldTask DEF Xack
  <1>7. CASE Xdel(w)
    BY <1>1, <1>2, <1>7, HeldTask DEF Xdel
  <1>8. CASE WriteSucceeded(w)
    BY <1>1, <1>8, HeldTask, TypeWriteHash DEF WriteSucceeded
  <1>9. CASE FinishFails(w)
    BY <1>1, <1>9, TypeMishap DEF FinishFails, Kinds
  <1>10. CASE WorkerCrash(w)
    BY <1>1, <1>10, TypeMishap DEF WorkerCrash, Kinds
  <1> QED
    BY <1>3, <1>4, <1>5, <1>6, <1>7, <1>8, <1>9, <1>10

LEMMA TypeBeat ==
  ASSUME TypeOK,
         \/ \E w \in Workers : BeatStarts(w)
         \/ \E b \in beats : BeatWrites(b) \/ BeatClaims(b)
  PROVE  TypeOK'
  <1> USE DEF redis, producers, workers, TypeOK
  <1>1. ASSUME NEW w \in Workers, BeatStarts(w)  PROVE TypeOK'
    <2>1. task[w] \in Tasks
      BY <1>1, HeldTask DEF BeatStarts, Beating, AckSteps, BurySteps
    <2> QED
      BY <1>1, <2>1, TypeMishap DEF BeatStarts, Kinds
  <1>2. ASSUME NEW b \in beats, BeatWrites(b)  PROVE TypeOK'
    <2>1. b.task \in Tasks /\ b.rec \in Record /\ b.worker \in Workers
      OBVIOUS
    <2>2. [b EXCEPT !.next = "xclaim"] \in
             [worker : Workers, task : Tasks, rec : Record, next : {"hset", "xclaim"}]
      OBVIOUS
    <2> QED
      BY <1>2, <2>1, <2>2, TypeWriteHash DEF BeatWrites
  <1>3. ASSUME NEW b \in beats, BeatClaims(b)  PROVE TypeOK'
    BY <1>3 DEF BeatClaims
  <1> QED
    BY <1>1, <1>2, <1>3

LEMMA TypeCancelAndTime ==
  ASSUME TypeOK,
         \/ CancelAcks \/ CancelDeletes \/ CancelWrites
         \/ \E t \in Tasks : CancelStarts(t) \/ GoesIdle(t) \/ BackoffElapses(t)
  PROVE  TypeOK'
  <1> USE DEF redis, producers, workers, TypeOK
  <1>1. ASSUME NEW t \in Tasks, CancelStarts(t)  PROVE TypeOK'
    <2>1. [hash[t] EXCEPT !.status = "cancelled"] \in Record
      BY RecordWith DEF Status, Terminal
    <2>2. verdict' \in [Tasks -> SUBSET Verdicts]
      BY <1>1 DEF CancelStarts, Decide, Verdicts
    <2>3. ctl' \in [step : {"xack", "hset"}, task : Tasks, rec : Record]
      <3> DEFINE r == [hash[t] EXCEPT !.status = "cancelled"]
      <3>1. \E s \in {"xack", "hset"} : ctl' = [step |-> s, task |-> t, rec |-> r]
        BY <1>1 DEF CancelStarts
      <3>2. r \in Record
        BY <2>1
      <3> HIDE DEF r
      <3> QED
        BY <3>1, <3>2
    <2>4. mishaps' \in [Kinds -> Nat]
      BY <1>1, TypeMishap DEF CancelStarts, Kinds
    <2>5. ctl' \in [step : {"none", "xack", "xdel", "hset"}, task : Tasks \cup {None}, rec : Record]
          /\ (ctl'.task = None <=> ctl'.step = "none")
      BY <2>3
    <2> QED
      BY <1>1, <2>2, <2>4, <2>5 DEF CancelStarts
  <1>2. CASE CancelAcks
    BY <1>2 DEF CancelAcks, Acked, EntryStates
  <1>3. CASE CancelDeletes
    BY <1>3 DEF CancelDeletes, Deleted, EntryStates
  <1>4. CASE CancelWrites
    BY <1>4, Records, TypeWriteHash DEF CancelWrites
  <1>5. ASSUME NEW t \in Tasks, GoesIdle(t)  PROVE TypeOK'
    BY <1>5, TypeMishap DEF GoesIdle, Kinds
  <1>6. ASSUME NEW t \in Tasks, BackoffElapses(t)  PROVE TypeOK'
    <2>1. [hash[t] EXCEPT !.later = FALSE] \in Record
      BY RecordWith DEF Status
    <2> QED
      BY <1>6, <2>1 DEF BackoffElapses
  <1> QED
    BY <1>1, <1>2, <1>3, <1>4, <1>5, <1>6

\* Every state of the queue, of its clients and of Redis is of the expected kind.
THEOREM TypeCorrect == Spec => []TypeOK
  <1>1. TypeOK /\ [Next]_vars => TypeOK'
    <2>1. CASE UNCHANGED vars
      BY <2>1 DEF vars, redis, producers, workers, TypeOK
    <2> QED
      BY <2>1, TypeEnqueue, TypeClaim, TypeHandler, TypeFinish, TypeBeat, TypeCancelAndTime
         DEF Next, Work
  <1> QED
    BY <1>1, TypeInit, PTL DEF Spec
=============================================================================
