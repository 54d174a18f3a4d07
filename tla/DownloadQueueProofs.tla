-------------------------- MODULE DownloadQueueProofs --------------------------
(***************************************************************************)
(* Theorems about DownloadQueue for any requests, keys and torrents, any   *)
(* limit and number of attempts, and any mishaps.                          *)
(***************************************************************************)
EXTENDS DownloadQueue, FiniteSetTheorems, TLAPS

USE DownloadAssumption

WorkerSteps == {"idle", "start", "slot", "execute", "add", "post", "refused", "failed", "ack"}
Trying == {"slot", "execute", "add", "post", "refused", "failed"}

\* What TypeOK rests on: attempts are counted only for tasks that were not given up.
WorkerTyped == worker \in [pc : WorkerSteps, task : Requests \cup {None}]
WorkerHasTask == worker.pc # "idle" => worker.task \in accepted
WorkerTries ==
    worker.pc \in Trying \cup {"start"} => verdict[worker.task] \cap {"failed", "dead", "cancelled"} = {}
AttemptsLeft == \A r \in Requests : ~ GivenUp(r) => attempts[r] < MaxAttempts

TypeInv == TypeOK /\ WorkerTyped /\ WorkerHasTask /\ WorkerTries /\ AttemptsLeft

LEMMA TypeInit == Init => TypeInv
  BY DEF Init, Idle, Queue!Init, TypeInv, TypeOK, WorkerTyped, WorkerSteps, WorkerHasTask,
         WorkerTries, Trying, AttemptsLeft, GivenUp, Keys

LEMMA TypeSubmit ==
  ASSUME TypeInv, NEW r \in Requests,
         InsertRow(r) \/ Enqueue(r) \/ EnqueueAgain(r) \/ EnqueueFails(r)
  PROVE  TypeInv'
  <1> USE DEF queue, downloader, TypeInv, TypeOK, WorkerTyped, WorkerHasTask, WorkerTries,
              AttemptsLeft, GivenUp, Spend, Queue!Accept
  <1>k. KeyOf[r] \in Keys
    BY DEF Keys
  <1>1. CASE InsertRow(r)
    BY <1>1 DEF InsertRow
  <1>2. ASSUME NEW which \in {"first", "again"}, Accepted(r, which)
        PROVE  /\ owner' \in [Keys -> [first : Requests \cup {None}, again : Requests \cup {None}]]
               /\ submit' \in [Requests -> {"idle", "enqueue", "again", "done"}]
               /\ row' = row /\ accepted' = accepted \cup {r} /\ verdict' = verdict
               /\ settled' = settled
    BY <1>2, <1>k DEF Accepted
  <1>3. CASE Enqueue(r)
    BY <1>2, <1>3 DEF Enqueue, Joined
  <1>4. CASE EnqueueAgain(r)
    BY <1>2, <1>4 DEF EnqueueAgain, Joined
  <1>5. CASE EnqueueFails(r)
    BY <1>5 DEF EnqueueFails
  <1> QED
    BY <1>1, <1>3, <1>4, <1>5

LEMMA TypeWorker ==
  ASSUME TypeInv, WorkerStep
  PROVE  TypeInv'
  <1> USE DEF queue, downloader, TypeInv, TypeOK, WorkerTyped, WorkerSteps, WorkerHasTask,
              WorkerTries, Trying, AttemptsLeft, GivenUp, At, Goto, Spend
  <1>1. CASE \E r \in Requests : Take(r)
    BY <1>1 DEF Take
  <1>2. ASSUME Succeed, worker.pc # "idle"
        PROVE  /\ verdict' = [verdict EXCEPT ![worker.task] = @ \cup {"ok"}]
               /\ UNCHANGED <<accepted, settled>>
               /\ worker' = [worker EXCEPT !.pc = "ack"]
    BY <1>2 DEF Succeed, Queue!Decide
  <1>3. CASE Start
    BY <1>2, <1>3 DEF Start
  <1>4. CASE WaitForSlot
    BY <1>4 DEF WaitForSlot
  <1>5. CASE LookUp
    BY <1>2, <1>5 DEF LookUp
  <1>6. CASE Add
    BY <1>6 DEF Add
  <1>7. CASE StagePost
    BY <1>2, <1>7 DEF StagePost
  <1>8. CASE Refused
    BY <1>8 DEF Refused
  <1>9. CASE Failed
    <2> DEFINE r == worker.task
    <2>1. r \in Requests /\ r \in accepted /\ ~ GivenUp(r) /\ attempts[r] < MaxAttempts
      BY <1>9 DEF Failed
    <2>2. attempts' = [attempts EXCEPT ![r] = attempts[r] + 1] /\ attempts[r] + 1 \in 0..MaxAttempts
      BY <1>9, <2>1 DEF Failed
    <2>3. CASE attempts[r] + 1 < MaxAttempts
      BY <1>9, <2>1, <2>2, <2>3 DEF Failed, Idle
    <2>4. CASE ~ (attempts[r] + 1 < MaxAttempts)
      <3>1. /\ verdict' = [verdict EXCEPT ![r] = @ \cup {"dead"}]
            /\ worker' = [worker EXCEPT !.pc = "ack"]
            /\ UNCHANGED <<submit, owner, row, accepted, settled, torrents, active, mishaps>>
        BY <1>9, <2>4 DEF Failed, Queue!Decide
      <3> HIDE DEF r
      <3>2. verdict' \in [Requests -> SUBSET {"ok", "dead"}] /\ "dead" \in verdict'[r]
        BY <2>1, <3>1
      <3>3. AttemptsLeft'
        BY <2>1, <2>2, <3>1, <3>2
      <3>4. worker' \in [pc : WorkerSteps, task : Requests \cup {None}] /\ worker'.task = r
            /\ worker'.pc = "ack"
        BY <3>1 DEF r
      <3> QED
        BY <2>1, <2>2, <3>1, <3>2, <3>3, <3>4
    <2> QED
      BY <2>3, <2>4
  <1>10. CASE Ack
    BY <1>10 DEF Ack, Queue!Settle, Idle
  <1> QED
    BY <1>1, <1>3, <1>4, <1>5, <1>6, <1>7, <1>8, <1>9, <1>10 DEF WorkerStep

LEMMA TypeStep == TypeInv /\ [Next]_vars => TypeInv'
  <1> SUFFICES ASSUME TypeInv, [Next]_vars PROVE TypeInv'
    OBVIOUS
  <1> USE DEF queue, downloader, TypeInv, TypeOK, WorkerTyped, WorkerSteps, WorkerHasTask,
              WorkerTries, Trying, AttemptsLeft, GivenUp
  <1>1. CASE UNCHANGED vars
    BY <1>1 DEF vars
  <1>2. CASE \E x \in active : Finish(x)
    BY <1>2 DEF Finish
  <1>3. CASE \E d \in Direct : AddDirect(d)
    BY <1>3 DEF AddDirect
  <1>4. CASE Crash
    BY <1>4 DEF Crash, Spend, Idle
  <1> QED
    BY <1>1, <1>2, <1>3, <1>4, TypeSubmit, TypeWorker DEF Next

\* Type correctness: a task has no more than MaxAttempts failed attempts, also when its
\* process died between the last of them and the acknowledgement.
THEOREM TypeCorrect == Spec => []TypeOK
  <1>1. TypeInv => TypeOK
    BY DEF TypeInv
  <1> QED
    BY <1>1, TypeInit, TypeStep, PTL DEF Spec

-----------------------------------------------------------------------------
(* submit(): rows and keys *)

\* A request whose submit() is under way has no task yet and keeps its row.
SubmitOwesRow ==
    \A r \in Requests :
        /\ submit[r] # "done" => r \notin accepted
        /\ submit[r] = "idle" => row[r] = "none"
        /\ submit[r] \in {"enqueue", "again"} => row[r] = "queued"
RowInv == SubmitOwesRow /\ OwedHasRow

\* Whoever has a task holds one of the two places of his key, and the second place is given
\* out only when the holder of the first was given up.
Holds(r) == r \in {owner[KeyOf[r]].first, owner[KeyOf[r]].again}
SecondAfterFirst ==
    \A k \in Keys :
        owner[k].again # None => owner[k].first # None /\ GivenUp(owner[k].first)
RetryAfterGivenUp ==
    \A r \in Requests :
        submit[r] = "again" =>
            owner[KeyOf[r]].first # None /\ GivenUp(owner[KeyOf[r]].first)
KeyInv ==
    "enqueue" \notin mishaps =>
        (\A r \in accepted : Holds(r)) /\ SecondAfterFirst /\ RetryAfterGivenUp

\* What the worker does to the queue, the rows and the steps of submit().
LEMMA WorkerEffect ==
  ASSUME TypeInv, WorkerStep
  PROVE  /\ UNCHANGED <<submit, owner, accepted>>
         /\ mishaps \subseteq mishaps'
         /\ \A r \in Requests : GivenUp(r) => GivenUp(r)'
         /\ row' \in [Requests -> {"none", "queued", "downloading", "error"}]
         /\ \A r \in Requests : r # worker.task \/ worker.pc = "idle" => row'[r] = row[r]
         /\ \A r \in Requests : row'[r] = "none" => row[r] = "none"
  <1> USE DEF queue, downloader, TypeInv, TypeOK, WorkerTyped, WorkerSteps, WorkerHasTask,
              GivenUp, At, Goto, Spend
  <1>2. ASSUME Succeed
        PROVE  /\ verdict' = [verdict EXCEPT ![worker.task] = @ \cup {"ok"}]
               /\ UNCHANGED accepted
    BY <1>2 DEF Succeed, Queue!Decide
  <1>1. CASE \E r \in Requests : Take(r)
    BY <1>1 DEF Take
  <1>3. CASE Start
    BY <1>2, <1>3 DEF Start
  <1>4. CASE WaitForSlot
    BY <1>4 DEF WaitForSlot
  <1>5. CASE LookUp
    BY <1>2, <1>5 DEF LookUp
  <1>6. CASE Add
    BY <1>6 DEF Add
  <1>7. CASE StagePost
    BY <1>2, <1>7 DEF StagePost
  <1>8. CASE Refused
    BY <1>8 DEF Refused
  <1>9. CASE Failed
    BY <1>9 DEF Failed, Queue!Decide
  <1>10. CASE Ack
    BY <1>10 DEF Ack, Queue!Settle
  <1> QED
    BY <1>1, <1>3, <1>4, <1>5, <1>6, <1>7, <1>8, <1>9, <1>10 DEF WorkerStep

\* What a crash and the downloader leave alone.
LEMMA WorldEffect ==
  ASSUME TypeInv, Crash \/ (\E x \in active : Finish(x)) \/ \E d \in Direct : AddDirect(d)
  PROVE  /\ UNCHANGED <<owner, queue, row>>
         /\ mishaps \subseteq mishaps'
         /\ submit' \in [Requests -> {"idle", "enqueue", "again", "done"}]
         /\ \A r \in Requests : submit'[r] \in {submit[r], "done"}
  BY DEF Crash, Finish, AddDirect, Spend, TypeInv, TypeOK

LEMMA RowStep == TypeInv /\ RowInv /\ [Next]_vars => RowInv'
  <1> SUFFICES ASSUME TypeInv, RowInv, [Next]_vars PROVE RowInv'
    OBVIOUS
  <1> USE DEF RowInv, SubmitOwesRow, OwedHasRow, queue, downloader, TypeInv, TypeOK
  <1>1. CASE UNCHANGED vars
    BY <1>1 DEF vars
  <1>2. ASSUME NEW r \in Requests, InsertRow(r)  PROVE RowInv'
    BY <1>2 DEF InsertRow
  <1>3. ASSUME NEW r \in Requests, Enqueue(r)  PROVE RowInv'
    BY <1>3 DEF Enqueue, Accepted, Joined, Queue!Accept
  <1>4. ASSUME NEW r \in Requests, EnqueueAgain(r)  PROVE RowInv'
    BY <1>4 DEF EnqueueAgain, Accepted, Joined, Queue!Accept
  <1>5. ASSUME NEW r \in Requests, EnqueueFails(r)  PROVE RowInv'
    BY <1>5 DEF EnqueueFails, Queue!Accept, Spend
  <1>6. CASE WorkerStep
    BY <1>6, WorkerEffect DEF WorkerHasTask
  <1>7. CASE Crash \/ (\E x \in active : Finish(x)) \/ \E d \in Direct : AddDirect(d)
    BY <1>7, WorldEffect
  <1> QED
    BY <1>1, <1>2, <1>3, <1>4, <1>5, <1>6, <1>7 DEF Next

\* submit() writes the history row before it enqueues and deletes it afterwards; no
\* interleaving of submits, failing attempts and crashes leaves an accepted task without one.
THEOREM OwedTasksHaveRows == Spec => []OwedHasRow
  <1>1. Init => RowInv
    BY DEF Init, RowInv, SubmitOwesRow, OwedHasRow, Queue!Init
  <1>2. RowInv => OwedHasRow
    BY DEF RowInv
  <1> QED
    BY <1>1, <1>2, TypeInit, TypeStep, RowStep, PTL DEF Spec

LEMMA KeyStep == TypeInv /\ KeyInv /\ [Next]_vars => KeyInv'
  <1> SUFFICES ASSUME TypeInv, KeyInv, [Next]_vars, "enqueue" \notin mishaps'
               PROVE  (\A r \in accepted : Holds(r))' /\ SecondAfterFirst' /\ RetryAfterGivenUp'
    BY DEF KeyInv
  <1> DEFINE Goal == (\A r \in accepted : Holds(r))' /\ SecondAfterFirst' /\ RetryAfterGivenUp'
  <1>k. \A r \in Requests : KeyOf[r] \in Keys
    BY DEF Keys
  <1> USE DEF KeyInv, Holds, SecondAfterFirst, RetryAfterGivenUp, queue, downloader, TypeInv, TypeOK
  <1>1. CASE UNCHANGED vars
    BY <1>1 DEF vars, GivenUp
  <1>2. ASSUME NEW r \in Requests, InsertRow(r)  PROVE Goal
    BY <1>2 DEF InsertRow, GivenUp
  <1>3. ASSUME NEW r \in Requests, Enqueue(r)  PROVE Goal
    <2>1. CASE owner[KeyOf[r]].first = None /\ Accepted(r, "first")
      BY <1>3, <1>k, <2>1 DEF Enqueue, Accepted, Queue!Accept, GivenUp
    <2>2. CASE Joined(r)
      BY <1>3, <2>2 DEF Enqueue, Joined, GivenUp
    <2>3. CASE /\ owner[KeyOf[r]].first # None /\ GivenUp(owner[KeyOf[r]].first)
               /\ submit' = [submit EXCEPT ![r] = "again"]
               /\ UNCHANGED <<owner, row, queue>>
      BY <1>3, <2>3 DEF Enqueue, GivenUp
    <2> QED
      BY <1>3, <2>1, <2>2, <2>3 DEF Enqueue
  <1>4. ASSUME NEW r \in Requests, EnqueueAgain(r)  PROVE Goal
    <2>0. submit[r] = "again" /\ verdict' = verdict /\ mishaps' = mishaps
      BY <1>4 DEF EnqueueAgain, Accepted, Joined, Queue!Accept
    <2>f. owner[KeyOf[r]].first # None /\ GivenUp(owner[KeyOf[r]].first)
      BY <2>0
    <2>1. CASE owner[KeyOf[r]].again = None /\ Accepted(r, "again")
      <3>1. /\ owner' = [owner EXCEPT ![KeyOf[r]] = [@ EXCEPT !.again = r]]
            /\ accepted' = accepted \cup {r} /\ submit' = [submit EXCEPT ![r] = "done"]
        BY <2>1 DEF Accepted, Queue!Accept
      <3>2. /\ \A k \in Keys : owner'[k].first = owner[k].first
            /\ \A k \in Keys : owner'[k].again = IF k = KeyOf[r] THEN r ELSE owner[k].again
        BY <1>k, <3>1
      <3>3. SecondAfterFirst'
        BY <2>0, <2>f, <3>2 DEF GivenUp
      <3>4. RetryAfterGivenUp'
        BY <1>k, <2>0, <3>1, <3>2 DEF GivenUp
      <3>5. (\A s \in accepted : Holds(s))'
        BY <1>k, <2>0, <2>1, <3>1, <3>2
      <3> QED
        BY <3>3, <3>4, <3>5
    <2>2. CASE Joined(r)
      BY <2>0, <2>2 DEF Joined, GivenUp
    <2> QED
      BY <1>4, <2>1, <2>2 DEF EnqueueAgain
  <1>5. ASSUME NEW r \in Requests, EnqueueFails(r)  PROVE FALSE
    BY <1>5 DEF EnqueueFails, Spend
  <1>6. CASE WorkerStep
    <2>1. /\ "enqueue" \notin mishaps
          /\ UNCHANGED <<submit, owner, accepted>>
          /\ \A r \in Requests : GivenUp(r) => GivenUp(r)'
      BY <1>6, WorkerEffect
    <2>2. \A k \in Keys : owner[k].first \in Requests \cup {None}
      OBVIOUS
    <2> QED
      BY <1>k, <2>1, <2>2 DEF GivenUp
  <1>7. CASE Crash \/ (\E x \in active : Finish(x)) \/ \E d \in Direct : AddDirect(d)
    BY <1>7, WorldEffect DEF GivenUp
  <1> QED
    BY <1>1, <1>2, <1>3, <1>4, <1>5, <1>6, <1>7 DEF Next

\* Concurrent requests with one key never have two tasks that are both still wanted: the
\* second key opens only to those who found the holder of the first given up.
THEOREM KeyHasOneTask == Spec => []OneTaskPerKey
  <1>1. Init => KeyInv
    BY DEF Init, KeyInv, Holds, SecondAfterFirst, RetryAfterGivenUp, Queue!Init
  <1>2. TypeInv /\ KeyInv => OneTaskPerKey
    <2> SUFFICES ASSUME TypeInv, KeyInv, "enqueue" \notin mishaps,
                        NEW r \in accepted, NEW s \in accepted, r # s, KeyOf[r] = KeyOf[s]
                 PROVE  GivenUp(r) \/ GivenUp(s)
      BY DEF OneTaskPerKey
    <2>1. r \in Requests /\ s \in Requests /\ KeyOf[r] \in Keys
      BY DEF TypeInv, TypeOK, Keys
    <2>2. owner[KeyOf[r]].again # None /\ owner[KeyOf[r]].first \in {r, s}
      BY <2>1 DEF KeyInv, Holds
    <2> QED
      BY <2>1, <2>2 DEF KeyInv, SecondAfterFirst
  <1> QED
    BY <1>1, <1>2, TypeInit, TypeStep, KeyStep, PTL DEF Spec

-----------------------------------------------------------------------------
(* The downloader: one torrent each *)

Pairs == \A x \in torrents : x = <<x[1], x[2]>>
PastQueueOnce == \A x \in torrents : x[1] \in Direct => x[2] = 1
AbsentBeforeAdd == worker.pc = "add" => ~ Present(worker.task)
OnceInv ==
    /\ Pairs /\ PastQueueOnce
    /\ "lookup" \notin mishaps => AddedOnce /\ AbsentBeforeAdd

LEMMA NewTorrent ==
  ASSUME TypeInv, worker.pc = "add"
  PROVE  ContentOf[worker.task] \in Contents /\ ContentOf[worker.task] \notin Direct
  BY DEF TypeInv, TypeOK, WorkerTyped, WorkerHasTask, Contents

LEMMA SubmitLeaves ==
  ASSUME NEW r \in Requests, InsertRow(r) \/ Enqueue(r) \/ EnqueueAgain(r) \/ EnqueueFails(r)
  PROVE  UNCHANGED <<worker, torrents, active>> /\ mishaps \subseteq mishaps'
  BY DEF InsertRow, Enqueue, EnqueueAgain, EnqueueFails, Spend, downloader

LEMMA OnceStep == TypeInv /\ OnceInv /\ [Next]_vars => OnceInv'
  <1> SUFFICES ASSUME TypeInv, OnceInv, [Next]_vars PROVE OnceInv'
    OBVIOUS
  <1> USE DEF OnceInv, Pairs, PastQueueOnce, AddedOnce, AbsentBeforeAdd, Present
  <1> DEFINE Same == UNCHANGED torrents /\ mishaps \subseteq mishaps'
  <1>0. ASSUME Same, worker'.pc # "add" \/ UNCHANGED worker  PROVE OnceInv'
    BY <1>0
  <1>1. CASE UNCHANGED vars
    BY <1>0, <1>1 DEF vars
  <1>2. ASSUME NEW r \in Requests,
               InsertRow(r) \/ Enqueue(r) \/ EnqueueAgain(r) \/ EnqueueFails(r)
        PROVE  OnceInv'
    BY <1>0, <1>2, SubmitLeaves
  <1>3. CASE WorkerStep
    <2> USE DEF TypeInv, WorkerTyped, WorkerSteps, At, Goto, Spend, queue, downloader
    <2>1. CASE (\E r \in Requests : Take(r)) \/ Start \/ WaitForSlot \/ Refused \/ Failed \/ Ack
      BY <1>0, <2>1 DEF Take, Start, Succeed, WaitForSlot, Refused, Failed, Ack, Idle
    <2>2. CASE LookUp
      <3>1. CASE Succeed
        BY <1>0, <2>2, <3>1 DEF LookUp, Succeed
      <3>2. CASE ~ Present(worker.task) /\ Goto("add") /\ UNCHANGED <<queue, mishaps>>
        BY <2>2, <3>2 DEF LookUp
      <3>3. CASE Spend("lookup")
        BY <2>2, <3>3 DEF LookUp
      <3> QED
        BY <2>2, <3>1, <3>2, <3>3 DEF LookUp
    <2>3. CASE Add
      <3> DEFINE c == ContentOf[worker.task]
                 old == {x \in torrents : x[1] = c}
                 new == <<c, Cardinality(old) + 1>>
      <3>1. /\ torrents' \in {torrents, torrents \cup {new}}
            /\ worker'.pc # "add" /\ mishaps \subseteq mishaps'
        BY <2>3 DEF Add
      <3>2. c \notin Direct
        BY <2>3, NewTorrent DEF Add
      <3>3. "lookup" \notin mishaps => Cardinality(old) + 1 = 1
        <4>1. "lookup" \notin mishaps => old = {}
          BY <2>3 DEF Add
        <4>2. Cardinality({}) = 0
          BY FS_EmptySet
        <4>3. 0 + 1 = 1
          OBVIOUS
        <4> HIDE DEF old
        <4> QED
          BY <4>1, <4>2, <4>3, Zenon
      <3>4. new = <<new[1], new[2]>> /\ new[1] = c /\ ("lookup" \notin mishaps => new[2] = 1)
        BY <3>3
      <3> HIDE DEF new, old, c
      <3> QED
        BY <3>1, <3>2, <3>4
    <2>4. CASE StagePost
      BY <2>4 DEF StagePost, Succeed
    <2> QED
      BY <1>3, <2>1, <2>2, <2>3, <2>4 DEF WorkerStep
  <1>4. CASE \E x \in active : Finish(x)
    BY <1>0, <1>4 DEF Finish, queue
  <1>5. ASSUME NEW d \in Direct, AddDirect(d)  PROVE OnceInv'
    <2>1. torrents' = torrents \cup {<<d, 1>>} /\ UNCHANGED <<worker, mishaps>>
      BY <1>5 DEF AddDirect, queue
    <2>2. worker.pc = "add" => d # ContentOf[worker.task]
      BY NewTorrent
    <2> QED
      BY <2>1, <2>2
  <1>6. CASE Crash
    BY <1>0, <1>6 DEF Crash, Spend, Idle, queue, downloader
  <1> QED
    BY <1>1, <1>2, <1>3, <1>4, <1>5, <1>6 DEF Next

\* However often its task is handled and whoever asks for the same one, a torrent is added
\* to the downloader once, unless the look-up for torrents of the same content fails.
THEOREM TorrentsAddedOnce == Spec => []AddedOnce
  <1>1. Init => OnceInv
    BY DEF Init, Idle, OnceInv, Pairs, PastQueueOnce, AddedOnce, AbsentBeforeAdd
  <1>2. OnceInv => AddedOnce
    BY DEF OnceInv, AddedOnce
  <1> QED
    BY <1>1, <1>2, TypeInit, TypeStep, OnceStep, PTL DEF Spec

-----------------------------------------------------------------------------
(* Rows and torrents *)

\* A task that still tries has no torrent in its row: the row of another task is never lost.
TryingUnrecorded == worker.pc \in Trying => row[worker.task] # "downloading"
Recorded(c) == \E r \in Requests : ContentOf[r] = c /\ row[r] = "downloading"
RecordInv ==
    mishaps \cap Unrecorded = {} =>
        \A x \in torrents :
            x[1] \in Contents /\ (At("post") => x[1] # ContentOf[worker.task]) => Recorded(x[1])

LEMMA TryingStep == TypeInv /\ RowInv /\ TryingUnrecorded /\ [Next]_vars => TryingUnrecorded'
  <1> SUFFICES ASSUME TypeInv, RowInv, TryingUnrecorded, [Next]_vars PROVE TryingUnrecorded'
    OBVIOUS
  <1> USE DEF TypeInv, TypeOK, WorkerTyped, WorkerHasTask, TryingUnrecorded, Trying, queue, downloader
  <1>1. CASE UNCHANGED vars
    BY <1>1 DEF vars
  <1>2. ASSUME NEW r \in Requests,
               InsertRow(r) \/ Enqueue(r) \/ EnqueueAgain(r) \/ EnqueueFails(r)
        PROVE  TryingUnrecorded'
    <2>1. submit[r] # "done"
      BY <1>2 DEF InsertRow, Enqueue, EnqueueAgain, EnqueueFails
    <2>2. r \notin accepted
      BY <2>1 DEF RowInv, SubmitOwesRow
    <2>3. UNCHANGED worker /\ \A s \in Requests \ {r} : row'[s] = row[s]
      BY <1>2 DEF InsertRow, Enqueue, EnqueueAgain, EnqueueFails, Accepted, Joined
    <2> QED
      BY <2>2, <2>3
  <1>3. CASE WorkerStep
    <2> USE DEF At, Goto, WorkerSteps
    <2>1. CASE \E r \in Requests : Take(r)
      BY <2>1 DEF Take
    <2>2. CASE Start
      BY <2>2 DEF Start, Succeed
    <2>3. CASE WaitForSlot
      BY <2>3 DEF WaitForSlot
    <2>4. CASE LookUp
      BY <2>4 DEF LookUp, Succeed
    <2>5. CASE Add
      BY <2>5 DEF Add
    <2>6. CASE StagePost
      BY <2>6 DEF StagePost, Succeed
    <2>7. CASE Refused
      BY <2>7 DEF Refused
    <2>8. CASE Failed
      BY <2>8 DEF Failed, Idle
    <2>9. CASE Ack
      BY <2>9 DEF Ack, Idle
    <2> QED
      BY <1>3, <2>1, <2>2, <2>3, <2>4, <2>5, <2>6, <2>7, <2>8, <2>9 DEF WorkerStep
  <1>4. CASE (\E x \in active : Finish(x)) \/ \E d \in Direct : AddDirect(d)
    BY <1>4 DEF Finish, AddDirect
  <1>5. CASE Crash
    BY <1>5 DEF Crash, Idle
  <1> QED
    BY <1>1, <1>2, <1>3, <1>4, <1>5 DEF Next

LEMMA RecordStep ==
  TypeInv /\ RowInv /\ OnceInv /\ TryingUnrecorded /\ RecordInv /\ [Next]_vars => RecordInv'
  <1> SUFFICES ASSUME TypeInv, RowInv, OnceInv, TryingUnrecorded, RecordInv, [Next]_vars,
                      mishaps' \cap Unrecorded = {}
               PROVE  RecordInv'
    BY DEF RecordInv
  <1> USE DEF TypeInv, TypeOK, WorkerTyped, WorkerHasTask, RecordInv, Recorded, At, queue, downloader
  \* Most steps add no torrent, and take no id away.
  <1>0. ASSUME mishaps \subseteq mishaps', torrents' \subseteq torrents,
               At("post") => worker' = worker,
               \A r \in Requests : row[r] = "downloading" => row'[r] = "downloading"
        PROVE  RecordInv'
    BY <1>0
  <1>1. CASE UNCHANGED vars
    BY <1>0, <1>1 DEF vars
  <1>2. ASSUME NEW r \in Requests,
               InsertRow(r) \/ Enqueue(r) \/ EnqueueAgain(r) \/ EnqueueFails(r)
        PROVE  RecordInv'
    <2>1. \A s \in Requests : row[s] = "downloading" => row'[s] = "downloading"
      <3>1. CASE InsertRow(r)
        BY <3>1 DEF InsertRow, RowInv, SubmitOwesRow
      <3>2. CASE Enqueue(r)
        BY <3>2 DEF Enqueue, Accepted, Joined, RowInv, SubmitOwesRow
      <3>3. CASE EnqueueAgain(r)
        BY <3>3 DEF EnqueueAgain, Accepted, Joined, RowInv, SubmitOwesRow
      <3>4. CASE EnqueueFails(r)
        BY <3>4 DEF EnqueueFails, RowInv, SubmitOwesRow
      <3> QED
        BY <1>2, <3>1, <3>2, <3>3, <3>4
    <2> QED
      BY <1>0, <1>2, <2>1, SubmitLeaves
  <1>3. CASE WorkerStep
    <2> USE DEF WorkerSteps, Goto, Spend
    <2>0. mishaps \subseteq mishaps'
      BY <1>3, WorkerEffect
    <2>1. CASE (\E r \in Requests : Take(r)) \/ Start \/ WaitForSlot \/ LookUp \/ Failed \/ Ack
      <3>1. ~ At("post") /\ UNCHANGED <<torrents, row>>
        BY <2>1 DEF Take, Start, WaitForSlot, LookUp, Failed, Ack
      <3> QED
        BY <1>0, <2>0, <3>1
    <2>2. CASE Refused
      BY <1>0, <2>0, <2>2 DEF Refused, TryingUnrecorded, Trying
    <2>3. CASE Add
      <3> DEFINE c == ContentOf[worker.task]
                 n == Cardinality({x \in torrents : x[1] = c}) + 1
      <3>1. CASE Goto("refused")
        <4>1. torrents' = torrents
          BY <2>3, <3>1 DEF Add, Unrecorded
        <4> QED
          BY <1>0, <2>0, <2>3, <4>1 DEF Add
      <3>2. CASE torrents' = torrents \cup {<<c, n>>} /\ Goto("post")
        <4>1. worker'.pc = "post" /\ worker'.task = worker.task /\ row' = row
          BY <2>3, <3>2 DEF Add
        <4>2. <<c, n>>[1] = c
          OBVIOUS
        <4> HIDE DEF n
        <4> QED
          BY <2>0, <2>3, <3>2, <4>1, <4>2 DEF Add
      <3> QED
        BY <2>3, <3>1, <3>2 DEF Add
    <2>4. CASE StagePost
      <3>1. row[worker.task] # "none" /\ worker.task \in Requests
        BY <2>0, <2>4 DEF StagePost, RowInv, OwedHasRow, Unrecorded
      <3>2. row' = [row EXCEPT ![worker.task] = "downloading"] /\ torrents' = torrents
        BY <2>4, <3>1 DEF StagePost, Unrecorded
      <3> QED
        BY <2>0, <2>4, <3>1, <3>2 DEF StagePost
    <2> QED
      BY <1>3, <2>1, <2>2, <2>3, <2>4 DEF WorkerStep
  <1>4. CASE \E x \in active : Finish(x)
    BY <1>0, <1>4 DEF Finish
  <1>5. ASSUME NEW d \in Direct, AddDirect(d)  PROVE RecordInv'
    <2>1. /\ torrents' = torrents \cup {<<d, 1>>} /\ UNCHANGED <<worker, row, mishaps>>
          /\ d \notin Contents /\ <<d, 1>>[1] = d
      BY <1>5 DEF AddDirect
    <2> QED
      BY <2>1
  <1>6. CASE Crash
    BY <1>6 DEF Crash, Spend, Unrecorded
  <1> QED
    BY <1>1, <1>2, <1>3, <1>4, <1>5, <1>6 DEF Next

\* Attempts that fail, tasks that are given up and requests for a torrent that is there leave
\* no torrent without the history row that has its id.
THEOREM TorrentsAreRecorded == Spec => []AddedIsRecorded
  <1>1. Init => TryingUnrecorded /\ RecordInv
    BY DEF Init, Idle, TryingUnrecorded, Trying, RecordInv
  <1>2. Init => RowInv /\ OnceInv
    BY DEF Init, Idle, RowInv, SubmitOwesRow, OwedHasRow, Queue!Init, OnceInv, Pairs,
           PastQueueOnce, AddedOnce, AbsentBeforeAdd
  <1>3. RecordInv => AddedIsRecorded
    BY DEF RecordInv, AddedIsRecorded, Recorded, At
  <1> QED
    BY <1>1, <1>2, <1>3, TypeInit, TypeStep, RowStep, OnceStep, TryingStep, RecordStep, PTL DEF Spec

-----------------------------------------------------------------------------
(* The limit of active torrents *)

OfQueue == {x \in active : x[1] \notin Direct}
PastQueue == {x \in active : x[1] \in Direct}
LimitInv ==
    /\ IsFiniteSet(active)
    /\ Cardinality(OfQueue) <= MaxActive
    /\ worker.pc \in {"execute", "add"} => Cardinality(OfQueue) < MaxActive

LEMMA OneMore ==
  ASSUME NEW S, NEW x, IsFiniteSet(S)
  PROVE  Cardinality(S \cup {x}) \in Nat /\ Cardinality(S \cup {x}) <= Cardinality(S) + 1
  <1>1. Cardinality(S) \in Nat
    BY FS_CardinalityType
  <1>2. Cardinality(S \cup {x}) = IF x \in S THEN Cardinality(S) ELSE Cardinality(S) + 1
    BY FS_AddElement
  <1> QED
    BY <1>1, <1>2

LEMMA LimitStep == TypeInv /\ LimitInv /\ [Next]_vars => LimitInv'
  <1> SUFFICES ASSUME TypeInv, LimitInv, [Next]_vars PROVE LimitInv'
    OBVIOUS
  <1> USE DEF LimitInv
  <1>q. /\ IsFiniteSet(OfQueue) /\ Cardinality(OfQueue) \in Nat
        /\ Cardinality(active) \in Nat /\ Cardinality(OfQueue) <= Cardinality(active)
    BY FS_Subset, FS_CardinalityType DEF OfQueue
  <1>0. ASSUME active' \subseteq active, worker'.pc \in {"execute", "add"} =>
                   worker.pc \in {"execute", "add"} \/ Cardinality(active) < MaxActive
        PROVE  LimitInv'
    <2>1. OfQueue' \in SUBSET OfQueue
      BY <1>0 DEF OfQueue
    <2>2. Cardinality(OfQueue') <= Cardinality(OfQueue) /\ Cardinality(OfQueue') \in Nat
      BY <1>q, <2>1, FS_Subset, FS_CardinalityType
    <2>3. IsFiniteSet(active')
      BY <1>0, FS_Subset
    <2> QED
      BY <1>0, <1>q, <2>2, <2>3
  <1>1. CASE UNCHANGED vars
    BY <1>0, <1>1 DEF vars
  <1>2. ASSUME NEW r \in Requests,
               InsertRow(r) \/ Enqueue(r) \/ EnqueueAgain(r) \/ EnqueueFails(r)
        PROVE  LimitInv'
    BY <1>0, <1>2, SubmitLeaves
  <1>3. CASE WorkerStep
    <2> USE DEF TypeInv, WorkerTyped, WorkerSteps, At, Goto, downloader
    <2>1. CASE (\E r \in Requests : Take(r)) \/ Start \/ WaitForSlot \/ LookUp \/ Refused
               \/ Failed \/ Ack
      BY <1>0, <2>1 DEF Take, Start, Succeed, WaitForSlot, LookUp, Refused, Failed, Ack, Idle
    <2>2. CASE StagePost
      BY <1>0, <2>2 DEF StagePost, Succeed
    <2>3. CASE Add
      <3> DEFINE c == ContentOf[worker.task]
                 new == <<c, Cardinality({x \in torrents : x[1] = c}) + 1>>
      <3>1. CASE active' = active
        BY <1>0, <2>3, <3>1 DEF Add
      <3>2. CASE active' = active \cup {new}
        <4>1. worker.pc = "add" /\ worker'.pc \notin {"execute", "add"}
          BY <2>3 DEF Add
        <4>2. new[1] \notin Direct
          BY <4>1, NewTorrent
        <4> HIDE DEF new
        <4>3. OfQueue' = OfQueue \cup {new} /\ IsFiniteSet(active')
          <5>1. IsFiniteSet(active \cup {new})
            BY FS_AddElement
          <5>2. OfQueue' = OfQueue \cup {new}
            BY <3>2, <4>2 DEF OfQueue
          <5> QED
            BY <3>2, <5>1, <5>2
        <4>4. Cardinality(OfQueue') <= Cardinality(OfQueue) + 1 /\ Cardinality(OfQueue') \in Nat
          <5>1. /\ Cardinality(OfQueue \cup {new}) \in Nat
                /\ Cardinality(OfQueue \cup {new}) <= Cardinality(OfQueue) + 1
            BY <1>q, OneMore
          <5> QED
            BY <4>3, <5>1
        <4> QED
          BY <1>q, <4>1, <4>3, <4>4
      <3> QED
        BY <2>3, <3>1, <3>2 DEF Add
    <2> QED
      BY <1>3, <2>1, <2>2, <2>3 DEF WorkerStep
  <1>4. CASE \E x \in active : Finish(x)
    BY <1>0, <1>4 DEF Finish
  <1>5. ASSUME NEW d \in Direct, AddDirect(d)  PROVE LimitInv'
    <2>1. active' = active \cup {<<d, 1>>} /\ worker' = worker /\ <<d, 1>>[1] = d
      BY <1>5 DEF AddDirect
    <2>2. OfQueue' = OfQueue
      BY <2>1 DEF OfQueue
    <2>3. IsFiniteSet(active')
      BY <2>1, FS_AddElement
    <2> QED
      BY <2>1, <2>2, <2>3
  <1>6. CASE Crash
    BY <1>0, <1>6 DEF Crash, Idle, downloader
  <1> QED
    BY <1>1, <1>2, <1>3, <1>4, <1>5, <1>6 DEF Next

\* A full downloader: each torrent past the queue is there once.
LEMMA PastQueueBound ==
  ASSUME TypeInv, OnceInv, LimitInv
  PROVE  IsFiniteSet(PastQueue) /\ Cardinality(PastQueue) <= Cardinality(Direct)
  <1> DEFINE f == [x \in PastQueue |-> x[1]]
  <1>1. f \in [PastQueue -> Direct]
    BY DEF PastQueue
  <1>2. ASSUME NEW x \in PastQueue, NEW y \in PastQueue, x[1] = y[1]  PROVE x = y
    <2>1. x = <<x[1], x[2]>> /\ y = <<y[1], y[2]>> /\ x[2] = 1 /\ y[2] = 1
      BY DEF PastQueue, TypeInv, TypeOK, OnceInv, Pairs, PastQueueOnce
    <2> QED
      BY <1>2, <2>1
  <1>3. f \in Injection(PastQueue, Direct)
    BY <1>1, <1>2 DEF Injection, IsInjective
  <1> QED
    BY <1>3, FS_Injection

\* The worker polls the downloader and then adds a torrent, while others are added past the
\* queue: the limit is exceeded by those alone.
THEOREM LimitIsKept == Spec => []WithinLimit
  <1>1. Init => LimitInv /\ OnceInv
    <2> SUFFICES ASSUME Init PROVE LimitInv /\ OnceInv
      OBVIOUS
    <2>1. active = {} /\ OfQueue = {} /\ worker.pc = "idle" /\ OnceInv
      BY DEF Init, OfQueue, Idle, OnceInv, Pairs, PastQueueOnce, AddedOnce, AbsentBeforeAdd
    <2> QED
      BY <2>1, FS_EmptySet DEF LimitInv
  <1>2. TypeInv /\ OnceInv /\ LimitInv => WithinLimit
    <2> SUFFICES ASSUME TypeInv, OnceInv, LimitInv PROVE WithinLimit
      OBVIOUS
    <2>1. IsFiniteSet(OfQueue) /\ Cardinality(OfQueue) \in Nat
      BY FS_Subset, FS_CardinalityType DEF LimitInv, OfQueue
    <2>2. /\ IsFiniteSet(PastQueue) /\ Cardinality(PastQueue) <= Cardinality(Direct)
          /\ Cardinality(PastQueue) \in Nat /\ Cardinality(Direct) \in Nat
      BY PastQueueBound, FS_CardinalityType
    <2>3. active = OfQueue \cup PastQueue /\ OfQueue \cap PastQueue = {}
      BY DEF OfQueue, PastQueue
    <2>4. Cardinality(active) = Cardinality(OfQueue) + Cardinality(PastQueue)
      <3>1. Cardinality(OfQueue \cap PastQueue) = 0
        BY <2>3, FS_EmptySet
      <3>2. Cardinality(OfQueue \cup PastQueue) =
               Cardinality(OfQueue) + Cardinality(PastQueue) - Cardinality(OfQueue \cap PastQueue)
        BY <2>1, <2>2, FS_Union
      <3> QED
        BY <2>1, <2>2, <2>3, <3>1, <3>2
    <2> QED
      BY <2>1, <2>2, <2>4 DEF WithinLimit, LimitInv
  <1> QED
    BY <1>1, <1>2, TypeInit, TypeStep, OnceStep, LimitStep, PTL DEF Spec
=============================================================================
