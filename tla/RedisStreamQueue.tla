-------------------------- MODULE RedisStreamQueue --------------------------
(***************************************************************************)
(* The durable task queue: RedisStreamTaskQueue                            *)
(* (infrastructure/task_queue/redis_stream.py) and the TaskWorker threads  *)
(* that consume it (worker.py).  One action is one Redis command together  *)
(* with the local computation around it, so that producers, workers, their *)
(* heartbeat threads, an operator's cancel() and the passing of time       *)
(* interleave between any two commands, as they do in the code.            *)
(*                                                                         *)
(* Every enqueue() call is identified with the task it creates, and a task *)
(* with its one stream entry.  Payloads, results, errors and wall-clock    *)
(* times are abstracted: a deadline is either ahead or past.  The model    *)
(* covers one TTL window (dedup_ttl_seconds = task_ttl_seconds = 86400):   *)
(* neither a dedup key nor a task hash expires.                            *)
(***************************************************************************)
EXTENDS Naturals, FiniteSets

CONSTANTS Tasks,        \* one per enqueue() call
          Keys,         \* dedup keys
          KeyOf,        \* the dedup key each enqueue() call passes
          Workers,      \* consumer threads; each is a process of its own here
          MaxAttempts,  \* max_attempts
          DedupTries,   \* rounds of _reserve_dedup, 5 in the code
          Budget,       \* how often each kind of mishap may happen in a behaviour
          MaxMishaps,   \* and how many may happen in all
          None

Kinds == {"fault", "crash", "stall", "beat", "cancel"}

ASSUME ConstantsAssumption ==
    /\ KeyOf \in [Tasks -> Keys]
    /\ MaxAttempts \in Nat \ {0}
    /\ DedupTries \in Nat \ {0}
    /\ Budget \in [Kinds -> Nat]
    /\ MaxMishaps \in Nat
    /\ None \notin Tasks

VARIABLES
    \* --- Redis
    dedup,     \* dedup key -> task id that reserved it, or None
    entry,     \* the task's entry in the stream and the consumer group
    idle,      \* a pending entry has been idle for retry_idle_ms
    hash,      \* the task's state hash
    dead,      \* tasks in the dead-letter stream
    \* --- producers, inside enqueue()
    enq,       \* the producer's next command
    tries,     \* rounds of _reserve_dedup so far
    found,     \* existing_id, read from the dedup key
    \* --- workers
    step,      \* the worker thread's next command
    task,      \* the task the worker holds
    copy,      \* the worker's Task object
    beats,     \* heartbeat() calls in flight
    ctl,       \* an operator's cancel() in flight
    \* --- history and bounds
    verdict,   \* decisions taken so far about each task
    failures,  \* fail() calls so far for each task
    mishaps    \* how often each kind of mishap has happened

redis == <<dedup, entry, idle, hash, dead>>
producers == <<enq, tries, found>>
workers == <<step, task, copy>>
vars == <<redis, producers, workers, beats, ctl, verdict, failures, mishaps>>

-----------------------------------------------------------------------------
(* Task objects and the values Redis holds *)

Terminal == {"succeeded", "failed", "cancelled", "dead"}
Status == {"missing", "queued", "running"} \cup Terminal

\* later: next_retry_at lies ahead;  sid: stream_id is known.
Record == [status : Status, attempts : Nat, later : BOOLEAN, sid : BOOLEAN]
Fresh == [status |-> "queued", attempts |-> 0, later |-> FALSE, sid |-> FALSE]
Missing == [status |-> "missing", attempts |-> 0, later |-> FALSE, sid |-> FALSE]

EntryStates == {"absent", "new", "pending", "acked", "deleted"}
EnqDone == {"accepted", "existing", "refused", "crashed"}
EnqSteps == {"reserve", "lookup", "peek", "drop", "publish", "unreserve",
             "release", "record"} \cup EnqDone
BurySteps == {"bury_hash", "bury_dead", "bury_xack", "bury_xdel"}
AckSteps == {"ack_xack", "ack_xdel", "ack_hash"}
DiscardSteps == {"discard_xack", "discard_xdel"}
WorkerSteps == {"poll", "hydrate", "lease", "unregistered", "handle", "retry_hash"}
                  \cup AckSteps \cup BurySteps \cup DiscardSteps
Verdicts == {"ok", "dead", "failed", "cancelled"}
VerdictOf(status) == IF status = "succeeded" THEN "ok" ELSE status

Settled(t) == entry[t] \in {"acked", "deleted"}
Holds(w, t) == task[w] = t /\ step[w] # "poll"

\* One more mishap of a kind, if the bounds on behaviours allow it.
Mishap(kind) ==
    /\ mishaps[kind] < Budget[kind]
    /\ mishaps["fault"] + mishaps["crash"] + mishaps["stall"] + mishaps["beat"]
          + mishaps["cancel"] < MaxMishaps
    /\ mishaps' = [mishaps EXCEPT ![kind] = @ + 1]

Calm(kinds) == \A k \in kinds : mishaps[k] = 0

Decide(t, v) == verdict' = [verdict EXCEPT ![t] = @ \cup {v}]

Init ==
    /\ dedup = [k \in Keys |-> None]
    /\ entry = [t \in Tasks |-> "absent"]
    /\ idle = [t \in Tasks |-> FALSE]
    /\ hash = [t \in Tasks |-> Missing]
    /\ dead = {}
    /\ enq = [t \in Tasks |-> "reserve"]
    /\ tries = [t \in Tasks |-> 0]
    /\ found = [t \in Tasks |-> None]
    /\ step = [w \in Workers |-> "poll"]
    /\ task = [w \in Workers |-> None]
    /\ copy = [w \in Workers |-> Fresh]
    /\ beats = {}
    /\ ctl = [step |-> "none", task |-> None, rec |-> Fresh]
    /\ verdict = [t \in Tasks |-> {}]
    /\ failures = [t \in Tasks |-> 0]
    /\ mishaps = [k \in Kinds |-> 0]

-----------------------------------------------------------------------------
(* enqueue() *)

\* SET dedup_key task_id NX; after DedupTries lost rounds the submission is refused.
ReserveDedup(t) ==
    /\ enq[t] = "reserve"
    /\ \/ /\ tries[t] >= DedupTries
          /\ enq' = [enq EXCEPT ![t] = "refused"]
          /\ UNCHANGED dedup
       \/ /\ tries[t] < DedupTries
          /\ dedup[KeyOf[t]] = None
          /\ dedup' = [dedup EXCEPT ![KeyOf[t]] = t]
          /\ enq' = [enq EXCEPT ![t] = "publish"]
       \/ /\ tries[t] < DedupTries
          /\ dedup[KeyOf[t]] # None
          /\ enq' = [enq EXCEPT ![t] = "lookup"]
          /\ UNCHANGED dedup
    /\ UNCHANGED <<entry, idle, hash, dead, tries, found, workers, beats, ctl, verdict, failures, mishaps>>

\* GET dedup_key
LookupOwner(t) ==
    /\ enq[t] = "lookup"
    /\ found' = [found EXCEPT ![t] = dedup[KeyOf[t]]]
    /\ IF dedup[KeyOf[t]] = None
       THEN /\ enq' = [enq EXCEPT ![t] = "reserve"]
            /\ tries' = [tries EXCEPT ![t] = @ + 1]
       ELSE /\ enq' = [enq EXCEPT ![t] = "peek"]
            /\ UNCHANGED tries
    /\ UNCHANGED <<redis, workers, beats, ctl, verdict, failures, mishaps>>

\* get(existing_id); a Redis error reads as "no such task".
PeekExisting(t) ==
    /\ enq[t] = "peek"
    /\ \/ /\ hash[found[t]].status # "missing"
          /\ enq' = [enq EXCEPT ![t] = "existing"]
          /\ UNCHANGED mishaps
       \/ /\ hash[found[t]].status = "missing"
          /\ enq' = [enq EXCEPT ![t] = "drop"]
          /\ UNCHANGED mishaps
       \/ /\ Mishap("fault")
          /\ enq' = [enq EXCEPT ![t] = "drop"]
    /\ UNCHANGED <<redis, tries, found, workers, beats, ctl, verdict, failures>>

\* DEL dedup_key, whoever holds it by now
DropPlaceholder(t) ==
    /\ enq[t] = "drop"
    /\ dedup' = [dedup EXCEPT ![KeyOf[t]] = None]
    /\ tries' = [tries EXCEPT ![t] = @ + 1]
    /\ enq' = [enq EXCEPT ![t] = "reserve"]
    /\ UNCHANGED <<entry, idle, hash, dead, found, workers, beats, ctl, verdict, failures, mishaps>>

\* A Redis error inside _reserve_dedup: QueueUnavailableError, nothing to release.
ReserveFails(t) ==
    /\ enq[t] \in {"reserve", "lookup", "drop"}
    /\ Mishap("fault")
    /\ enq' = [enq EXCEPT ![t] = "refused"]
    /\ UNCHANGED <<redis, tries, found, workers, beats, ctl, verdict, failures>>

\* A slip of the kind the order of enqueue() avoids: the state hash first, then the stream.
PublishAfterHash(t) ==
    /\ enq[t] = "publish"
    /\ \/ /\ hash[t].status = "missing"
          /\ hash' = [hash EXCEPT ![t] = Fresh]
          /\ UNCHANGED <<enq, entry, mishaps>>
       \/ /\ hash[t].status # "missing"
          /\ entry' = [entry EXCEPT ![t] = "new"]
          /\ enq' = [enq EXCEPT ![t] = "record"]
          /\ UNCHANGED <<hash, mishaps>>
       \/ /\ Mishap("fault")
          /\ enq' = [enq EXCEPT ![t] = "unreserve"]
          /\ UNCHANGED <<entry, hash>>
    /\ UNCHANGED <<dedup, idle, dead, tries, found, workers, beats, ctl, verdict, failures>>

\* XADD; on an error (before the write, or its reply lost after it) the reservation is released.
Publish(t) ==
    /\ enq[t] = "publish"
    /\ \/ /\ entry' = [entry EXCEPT ![t] = "new"]
          /\ enq' = [enq EXCEPT ![t] = "record"]
          /\ UNCHANGED mishaps
       \/ /\ Mishap("fault")
          /\ entry' \in {entry, [entry EXCEPT ![t] = "new"]}
          /\ enq' = [enq EXCEPT ![t] = "unreserve"]
    /\ UNCHANGED <<dedup, idle, hash, dead, tries, found, workers, beats, ctl, verdict, failures>>

\* _release_dedup: GET ...
Unreserve(t) ==
    /\ enq[t] = "unreserve"
    /\ \/ /\ enq' = [enq EXCEPT ![t] = IF dedup[KeyOf[t]] = t THEN "release" ELSE "refused"]
          /\ UNCHANGED mishaps
       \/ /\ Mishap("fault")
          /\ enq' = [enq EXCEPT ![t] = "refused"]
    /\ UNCHANGED <<redis, tries, found, workers, beats, ctl, verdict, failures>>

\* ... then DEL, as a second command
ReleaseDedup(t) ==
    /\ enq[t] = "release"
    /\ \/ /\ dedup' = [dedup EXCEPT ![KeyOf[t]] = None]
          /\ UNCHANGED mishaps
       \/ /\ Mishap("fault")
          /\ UNCHANGED dedup
    /\ enq' = [enq EXCEPT ![t] = "refused"]
    /\ UNCHANGED <<entry, idle, hash, dead, tries, found, workers, beats, ctl, verdict, failures>>

\* HSET of the initial state; an error is only logged.
RecordInitial(t) ==
    /\ enq[t] = "record"
    /\ \/ /\ hash' = [hash EXCEPT ![t] = Fresh]
          /\ UNCHANGED mishaps
       \/ /\ Mishap("fault")
          /\ UNCHANGED hash
    /\ enq' = [enq EXCEPT ![t] = "accepted"]
    /\ UNCHANGED <<dedup, entry, idle, dead, tries, found, workers, beats, ctl, verdict, failures>>

ProducerCrash(t) ==
    /\ enq[t] \notin EnqDone
    /\ Mishap("crash")
    /\ enq' = [enq EXCEPT ![t] = "crashed"]
    /\ UNCHANGED <<redis, tries, found, workers, beats, ctl, verdict, failures>>

Enqueue(t) ==
    \/ ReserveDedup(t) \/ LookupOwner(t) \/ PeekExisting(t) \/ DropPlaceholder(t)
    \/ Publish(t) \/ Unreserve(t) \/ ReleaseDedup(t) \/ RecordInitial(t)

-----------------------------------------------------------------------------
(* claim(), called with count = 1 by TaskWorker._consume_loop *)

Goto(w, s) == step' = [step EXCEPT ![w] = s]

\* A slip: the worker polls again without letting go of its task.
LeaveKeepingTask(w) ==
    /\ Goto(w, "poll")
    /\ copy' = [copy EXCEPT ![w] = Fresh]
    /\ UNCHANGED task

\* The worker is done with its task, one way or another, and polls again.
Leave(w) ==
    /\ Goto(w, "poll")
    /\ task' = [task EXCEPT ![w] = None]
    /\ copy' = [copy EXCEPT ![w] = Fresh]

Take(w, t) ==
    /\ step[w] = "poll"
    /\ Goto(w, "hydrate")
    /\ task' = [task EXCEPT ![w] = t]

\* A slip: XAUTOCLAIM without its min-idle-time.
ReclaimAnyAge(w, t) ==
    /\ Take(w, t)
    /\ entry[t] = "pending"
    /\ idle' = [idle EXCEPT ![t] = FALSE]
    /\ UNCHANGED <<dedup, entry, hash, dead, producers, copy, beats, ctl, verdict, failures, mishaps>>

\* A slip: only '>' is ever read, so that pending entries stay where they are.
ReclaimNothing(w, t) == FALSE

\* XAUTOCLAIM of an entry that has been idle for retry_idle_ms
Reclaim(w, t) ==
    /\ Take(w, t)
    /\ entry[t] = "pending" /\ idle[t]
    /\ idle' = [idle EXCEPT ![t] = FALSE]
    /\ UNCHANGED <<dedup, entry, hash, dead, producers, copy, beats, ctl, verdict, failures, mishaps>>

\* XREADGROUP '>', only when nothing was reclaimed
ReadNew(w, t) ==
    /\ Take(w, t)
    /\ ~ \E u \in Tasks : entry[u] = "pending" /\ idle[u]
    /\ entry[t] = "new"
    /\ entry' = [entry EXCEPT ![t] = "pending"]
    /\ UNCHANGED <<dedup, idle, hash, dead, producers, copy, beats, ctl, verdict, failures, mishaps>>

\* What claim() does with the task it read: drop a finished one, leave one that
\* backs off pending, lease the others.
HydrateAs(w, rec) ==
    \/ /\ rec.status \in Terminal
       /\ Goto(w, "discard_xack")
       /\ UNCHANGED <<task, copy>>
    \/ /\ rec.status \notin Terminal
       /\ rec.later
       /\ Leave(w)
    \/ /\ rec.status \notin Terminal
       /\ ~ rec.later
       /\ copy' = [copy EXCEPT ![w] = [rec EXCEPT !.status = "running", !.sid = TRUE]]
       /\ Goto(w, "lease")
       /\ UNCHANGED task

\* HGETALL; without a hash, or on an error, the task is rebuilt from the stream.
Hydrate(w) ==
    /\ step[w] = "hydrate"
    /\ \/ /\ HydrateAs(w, IF hash[task[w]].status = "missing" THEN Fresh ELSE hash[task[w]])
          /\ UNCHANGED mishaps
       \/ /\ Mishap("fault")
          /\ HydrateAs(w, Fresh)
    /\ UNCHANGED <<redis, producers, beats, ctl, verdict, failures>>

\* _write_hash: an error is logged and otherwise ignored.
WriteHash(t, rec) ==
    \/ /\ hash' = [hash EXCEPT ![t] = rec]
       /\ UNCHANGED mishaps
    \/ /\ Mishap("fault")
       /\ UNCHANGED hash

\* The lease is written; then _run_task looks its handler up.
WriteLease(w) ==
    /\ step[w] = "lease"
    /\ WriteHash(task[w], copy[w])
    /\ \/ Goto(w, "handle")
       \/ Goto(w, "unregistered")
    /\ UNCHANGED <<dedup, entry, idle, dead, producers, task, copy, beats, ctl, verdict, failures>>

-----------------------------------------------------------------------------
(* TaskWorker._run_task: the handler, then ack() or fail() *)

\* A slip: the task is acknowledged before its handler runs.
AckBeforeHandler(w) ==
    /\ step[w] = "handle"
    /\ copy' = [copy EXCEPT ![w].status = "succeeded"]
    /\ Goto(w, "ack_xack")
    /\ UNCHANGED <<redis, producers, task, beats, ctl, verdict, failures, mishaps>>

HandlerSucceeds(w) ==
    /\ step[w] = "handle"
    /\ Decide(task[w], "ok")
    /\ copy' = [copy EXCEPT ![w].status = "succeeded"]
    /\ Goto(w, "ack_xack")
    /\ UNCHANGED <<redis, producers, task, beats, ctl, failures, mishaps>>

\* fail() counts from the larger of the worker's and the hash's attempts; an error
\* while reading the hash counts as 0.
CountAttempt(w, n) ==
    \/ /\ n = 1 + (IF hash[task[w]].attempts > copy[w].attempts
                   THEN hash[task[w]].attempts ELSE copy[w].attempts)
       /\ UNCHANGED mishaps
    \/ /\ Mishap("fault")
       /\ n = copy[w].attempts + 1

\* A slip in the comparison: one attempt too few.
GiveUpEarly(w, n) ==
    IF n < MaxAttempts - 1
    THEN /\ copy' = [copy EXCEPT ![w].status = "queued", ![w].attempts = n, ![w].later = TRUE]
         /\ Goto(w, "retry_hash")
         /\ UNCHANGED verdict
    ELSE /\ copy' = [copy EXCEPT ![w].status = "dead", ![w].attempts = n]
         /\ Goto(w, "bury_hash")
         /\ Decide(task[w], "dead")

\* fail(retryable=True) backs off until the attempts are exhausted.
RetryOrGiveUp(w, n) ==
    IF n < MaxAttempts
    THEN /\ copy' = [copy EXCEPT ![w].status = "queued", ![w].attempts = n, ![w].later = TRUE]
         /\ Goto(w, "retry_hash")
         /\ UNCHANGED verdict
    ELSE /\ copy' = [copy EXCEPT ![w].status = "dead", ![w].attempts = n]
         /\ Goto(w, "bury_hash")
         /\ Decide(task[w], "dead")

HandlerRaises(w) ==
    /\ step[w] = "handle"
    /\ \E n \in {copy[w].attempts + 1, hash[task[w]].attempts + 1} :
          CountAttempt(w, n) /\ RetryOrGiveUp(w, n)
    /\ failures' = [failures EXCEPT ![task[w]] = @ + 1]
    /\ UNCHANGED <<redis, producers, task, beats, ctl>>

\* fail(retryable=False): the task type has no handler, and no heartbeat runs.
NoHandler(w) ==
    /\ step[w] = "unregistered"
    /\ \E n \in {copy[w].attempts + 1, hash[task[w]].attempts + 1} :
          /\ CountAttempt(w, n)
          /\ copy' = [copy EXCEPT ![w].status = "failed", ![w].attempts = n]
    /\ failures' = [failures EXCEPT ![task[w]] = @ + 1]
    /\ Decide(task[w], "failed")
    /\ Goto(w, "bury_hash")
    /\ UNCHANGED <<redis, producers, task, beats, ctl>>

\* The entry stays pending; XAUTOCLAIM will hand it out again.
WriteRetry(w) ==
    /\ step[w] = "retry_hash"
    /\ WriteHash(task[w], copy[w])
    /\ Leave(w)
    /\ UNCHANGED <<dedup, entry, idle, dead, producers, beats, ctl, verdict, failures>>

WriteGivenUp(w) ==
    /\ step[w] = "bury_hash"
    /\ WriteHash(task[w], copy[w])
    /\ Goto(w, "bury_dead")
    /\ UNCHANGED <<dedup, entry, idle, dead, producers, task, copy, beats, ctl, verdict, failures>>

\* A slip: the entry is acknowledged without its dead letter.
SkipDeadLetter(w) ==
    /\ step[w] = "bury_dead"
    /\ Goto(w, "bury_xack")
    /\ UNCHANGED <<redis, producers, task, copy, beats, ctl, verdict, failures, mishaps>>

AddDeadLetter(w) ==
    /\ step[w] = "bury_dead"
    /\ dead' = dead \cup {task[w]}
    /\ Goto(w, "bury_xack")
    /\ UNCHANGED <<dedup, entry, idle, hash, producers, task, copy, beats, ctl, verdict, failures, mishaps>>

\* XACK: the entry leaves the pending list; unknown ids are ignored.
Acked(t) == entry' = [entry EXCEPT ![t] = IF @ = "pending" THEN "acked" ELSE @]
\* XDEL: the entry leaves the stream.
Deleted(t) == entry' = [entry EXCEPT ![t] = IF @ = "absent" THEN @ ELSE "deleted"]

Xack(w) ==
    /\ \/ step[w] = "ack_xack" /\ Goto(w, "ack_xdel")
       \/ step[w] = "bury_xack" /\ Goto(w, "bury_xdel")
       \/ step[w] = "discard_xack" /\ Goto(w, "discard_xdel")
    /\ Acked(task[w])
    /\ UNCHANGED <<dedup, idle, hash, dead, producers, task, copy, beats, ctl, verdict, failures, mishaps>>

Xdel(w) ==
    /\ \/ step[w] = "ack_xdel" /\ Goto(w, "ack_hash") /\ UNCHANGED <<task, copy>>
       \/ step[w] \in {"bury_xdel", "discard_xdel"} /\ Leave(w)
    /\ Deleted(task[w])
    /\ UNCHANGED <<dedup, idle, hash, dead, producers, beats, ctl, verdict, failures, mishaps>>

WriteSucceeded(w) ==
    /\ step[w] = "ack_hash"
    /\ WriteHash(task[w], copy[w])
    /\ Leave(w)
    /\ UNCHANGED <<dedup, entry, idle, dead, producers, beats, ctl, verdict, failures>>

\* A Redis error in claim(), ack(), fail() or _finish_stream_entry() ends the call there.
\* A command that was executed but whose reply was lost is this step one command later.
FinishFails(w) ==
    /\ step[w] \in {"hydrate", "ack_xack", "ack_xdel", "bury_dead", "bury_xack", "bury_xdel"} \cup DiscardSteps
    /\ Mishap("fault")
    /\ Leave(w)
    /\ UNCHANGED <<redis, producers, beats, ctl, verdict, failures>>

\* The worker's process dies with its heartbeat thread, and another takes its place.
WorkerCrash(w) ==
    /\ step[w] # "poll"
    /\ Mishap("crash")
    /\ Leave(w)
    /\ beats' = {b \in beats : b.worker # w}
    /\ UNCHANGED <<redis, producers, ctl, verdict, failures>>

Work(w) ==
    \/ \E t \in Tasks : Reclaim(w, t) \/ ReadNew(w, t)
    \/ Hydrate(w) \/ WriteLease(w)
    \/ HandlerSucceeds(w) \/ HandlerRaises(w) \/ NoHandler(w)
    \/ WriteRetry(w) \/ WriteGivenUp(w) \/ AddDeadLetter(w)
    \/ Xack(w) \/ Xdel(w) \/ WriteSucceeded(w)

-----------------------------------------------------------------------------
(* heartbeat(): a thread of its own that serialises the worker's Task object,  *)
(* writes all of it and re-claims the entry.  It is stopped after ack()/fail() *)
(* and joined for one second only, so a beat may outlive the worker's turn.    *)

Beating(w) ==
    /\ step[w] \in {"handle", "retry_hash"} \cup AckSteps \cup BurySteps
    /\ copy[w].status # "failed"

BeatStarts(w) ==
    /\ Beating(w)
    /\ ~ \E b \in beats : b.worker = w /\ b.task = task[w]
    /\ Mishap("beat")
    /\ beats' = beats \cup {[worker |-> w, task |-> task[w], rec |-> copy[w], next |-> "hset"]}
    /\ UNCHANGED <<redis, producers, workers, ctl, verdict, failures>>

BeatWrites(b) ==
    /\ b.next = "hset"
    /\ WriteHash(b.task, b.rec)
    /\ beats' = (beats \ {b}) \cup {[b EXCEPT !.next = "xclaim"]}
    /\ UNCHANGED <<dedup, entry, idle, dead, producers, workers, ctl, verdict, failures>>

\* XCLAIM JUSTID without FORCE: renews a pending entry, ignores any other id.
BeatClaims(b) ==
    /\ b.next = "xclaim"
    /\ idle' = [idle EXCEPT ![b.task] = @ /\ entry[b.task] # "pending"]
    /\ beats' = beats \ {b}
    /\ UNCHANGED <<dedup, entry, hash, dead, producers, workers, ctl, verdict, failures, mishaps>>

-----------------------------------------------------------------------------
(* cancel(), called with get(task_id) by LifecycleActionService.cancel *)

CancelStarts(t) ==
    /\ ctl.step = "none"
    /\ hash[t].status # "missing"
    /\ Mishap("cancel")
    /\ Decide(t, "cancelled")
    /\ ctl' = [step |-> IF hash[t].sid THEN "xack" ELSE "hset",
               task |-> t, rec |-> [hash[t] EXCEPT !.status = "cancelled"]]
    /\ UNCHANGED <<redis, producers, workers, beats, failures>>

CancelAcks ==
    /\ ctl.step = "xack"
    /\ Acked(ctl.task)
    /\ ctl' = [ctl EXCEPT !.step = "xdel"]
    /\ UNCHANGED <<dedup, idle, hash, dead, producers, workers, beats, verdict, failures, mishaps>>

CancelDeletes ==
    /\ ctl.step = "xdel"
    /\ Deleted(ctl.task)
    /\ ctl' = [ctl EXCEPT !.step = "hset"]
    /\ UNCHANGED <<dedup, idle, hash, dead, producers, workers, beats, verdict, failures, mishaps>>

CancelWrites ==
    /\ ctl.step = "hset"
    /\ WriteHash(ctl.task, ctl.rec)
    /\ ctl' = [step |-> "none", task |-> None, rec |-> Fresh]
    /\ UNCHANGED <<dedup, entry, idle, dead, producers, workers, beats, verdict, failures>>

-----------------------------------------------------------------------------
(* Time *)

\* An entry reaches retry_idle_ms when nobody works on it.  While a worker does, its
\* heartbeat renews it every ten seconds, unless that worker stalls for longer.
GoesIdle(t) ==
    /\ entry[t] = "pending" /\ ~ idle[t]
    /\ \/ (\A w \in Workers : ~ Holds(w, t)) /\ UNCHANGED mishaps
       \/ (\E w \in Workers : Holds(w, t)) /\ Mishap("stall")
    /\ idle' = [idle EXCEPT ![t] = TRUE]
    /\ UNCHANGED <<dedup, entry, hash, dead, producers, workers, beats, ctl, verdict, failures>>

BackoffElapses(t) ==
    /\ hash[t].later
    /\ hash' = [hash EXCEPT ![t].later = FALSE]
    /\ UNCHANGED <<dedup, entry, idle, dead, producers, workers, beats, ctl, verdict, failures, mishaps>>

-----------------------------------------------------------------------------
Next ==
    \/ \E t \in Tasks : Enqueue(t) \/ ReserveFails(t) \/ ProducerCrash(t)
    \/ \E w \in Workers : Work(w) \/ FinishFails(w) \/ WorkerCrash(w) \/ BeatStarts(w)
    \/ \E b \in beats : BeatWrites(b) \/ BeatClaims(b)
    \/ \E t \in Tasks : CancelStarts(t) \/ GoesIdle(t) \/ BackoffElapses(t)
    \/ CancelAcks \/ CancelDeletes \/ CancelWrites

Spec == Init /\ [][Next]_vars

\* Threads run until their command is done, handlers return, and time passes.
Fairness ==
    /\ \A t \in Tasks : WF_vars(Enqueue(t)) /\ WF_vars(GoesIdle(t)) /\ WF_vars(BackoffElapses(t))
    /\ \A w \in Workers : WF_vars(Work(w))
    /\ WF_vars(CancelAcks \/ CancelDeletes \/ CancelWrites)

FairSpec == Spec /\ Fairness

-----------------------------------------------------------------------------
(* Properties *)

TypeOK ==
    /\ dedup \in [Keys -> Tasks \cup {None}]
    /\ entry \in [Tasks -> EntryStates]
    /\ idle \in [Tasks -> BOOLEAN]
    /\ hash \in [Tasks -> Record]
    /\ dead \subseteq Tasks
    /\ enq \in [Tasks -> EnqSteps]
    /\ tries \in [Tasks -> Nat]
    /\ found \in [Tasks -> Tasks \cup {None}]
    /\ step \in [Workers -> WorkerSteps]
    /\ task \in [Workers -> Tasks \cup {None}]
    /\ copy \in [Workers -> Record]
    /\ \A w \in Workers : task[w] = None <=> step[w] = "poll"
    /\ beats \subseteq [worker : Workers, task : Tasks, rec : Record, next : {"hset", "xclaim"}]
    /\ ctl \in [step : {"none", "xack", "xdel", "hset"}, task : Tasks \cup {None}, rec : Record]
    /\ ctl.task = None <=> ctl.step = "none"
    /\ verdict \in [Tasks -> SUBSET Verdicts]
    /\ failures \in [Tasks -> Nat]
    /\ mishaps \in [Kinds -> Nat]

\* An entry leaves the consumer group only when its fate is decided: its handler has
\* succeeded, it was given up, or it was cancelled.  Crashes, Redis errors, stalls and
\* late heartbeats between XADD, XACK, XDEL and the hash writes never drop a task.
NoTaskLost == \A t \in Tasks : Settled(t) => verdict[t] # {}

\* A terminal state that get() reports was really reached, whichever worker,
\* heartbeat or canceller wrote the hash last.
HonestStatus ==
    \A t \in Tasks : hash[t].status \in Terminal => VerdictOf(hash[t].status) \in verdict[t]

\* A submission answered with an existing task is not swallowed: that task has the same
\* dedup key and did reach the stream (enqueue writes the stream before the hash).
DedupNeverSwallows ==
    \A t \in Tasks : enq[t] = "existing" =>
        /\ KeyOf[found[t]] = KeyOf[t]
        /\ entry[found[t]] # "absent"

\* As long as no worker has stalled beyond retry_idle_ms, a task has one handler at a
\* time, and none once its success alone has taken it off the queue.
OneHandlerUnlessStalled ==
    \A w \in Workers :
        (step[w] = "handle" /\ Calm({"stall"})) =>
            /\ \A v \in Workers \ {w} : ~ Holds(v, task[w])
            /\ ~ (Settled(task[w]) /\ verdict[task[w]] = {"ok"})

\* A task is declared dead only after max_attempts calls of fail(), however many workers,
\* heartbeats and hash writes raced over its attempts counter.
GivenUpOnlyWhenExhausted ==
    \A t \in Tasks : "dead" \in verdict[t] => failures[t] >= MaxAttempts

\* A task that was only given up is in the dead-letter stream once it is gone from the
\* queue, unless a crash or a Redis error fell between the two writes.
GivenUpIsDeadLettered ==
    \A t \in Tasks :
        (/\ Settled(t)
         /\ verdict[t] \subseteq {"dead", "failed"}
         /\ Calm({"crash", "fault"})
         /\ \A w \in Workers : ~ (Holds(w, t) /\ step[w] \in BurySteps)) => t \in dead

\* Every task that reaches the stream is eventually decided and acknowledged: it is
\* redelivered after a crash, a lost acknowledgement or a failure, and not for ever.
EverySubmissionSettles == \A t \in Tasks : entry[t] = "new" ~> Settled(t)

\* base.py: "an existing dedup key returns the existing task and writes nothing again".
NoDuplicateEnqueue ==
    \A t, u \in Tasks :
        (t # u /\ KeyOf[t] = KeyOf[u]) => entry[t] = "absent" \/ entry[u] = "absent"

\* After ack(), get() reports SUCCEEDED: once producers and workers are done, a task that
\* has left the queue reads as terminal.
SettledReadsTerminal ==
    (/\ \A t \in Tasks : enq[t] \in EnqDone
     /\ \A w \in Workers : step[w] = "poll")
        => \A t \in Tasks : Settled(t) => hash[t].status \in Terminal

\* The queue implements the contract of its base class: an accepted task is settled once,
\* after a decision about it.
Contract == INSTANCE TaskQueueContract WITH
    accepted <- {t \in Tasks : entry[t] # "absent"},
    settled <- {t \in Tasks : Settled(t)}
KeepsContract == Contract!Spec
=============================================================================
