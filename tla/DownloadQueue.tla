----------------------------- MODULE DownloadQueue -----------------------------
(***************************************************************************)
(* The download queue of one downloader: requests for a movie, each with a *)
(* history row, become tasks of a queue that keeps the contract of         *)
(* TaskQueueContract; one worker waits for a free slot and hands the       *)
(* torrent to the downloader.  A task can be handled twice (its process    *)
(* died before the acknowledgement, an attempt failed although the torrent *)
(* was added), and two users can ask for the same torrent.                 *)
(*                                                                         *)
(* A day of requests: no dedup key expires.  The downloader is external.   *)
(***************************************************************************)
EXTENDS Naturals, FiniteSets

CONSTANTS Requests,     \* calls of submit(); a request's task has its identity
          KeyOf,        \* dedup key: user, identity and torrent
          ContentOf,    \* the torrent's name and size
          None,
          MaxActive,    \* max_active_tasks
          MaxAttempts,
          Direct,       \* torrents added past the queue
          Mishaps,      \* what may go wrong: see Spend
          MaxMishaps    \* how often, all of them together

Keys == {KeyOf[r] : r \in Requests}
Contents == {ContentOf[r] : r \in Requests}

ASSUME DownloadAssumption ==
    /\ None \notin Requests
    /\ IsFiniteSet(Direct) /\ Direct \cap Contents = {}
    /\ MaxActive \in Nat \ {0} /\ MaxAttempts \in Nat \ {0} /\ MaxMishaps \in Nat
    /\ Mishaps \subseteq {"enqueue", "client", "lookup", "refused", "reply", "path",
                          "history", "crash"}

VARIABLES
    submit,    \* where each submit() is
    owner,     \* the request that holds a dedup key, and the key of its retry
    row,       \* STATE of each history row; "downloading" has the downloader's id
    accepted, verdict, settled,    \* the task queue
    attempts,  \* failed attempts of a task
    worker,    \* the worker: step and task
    torrents,  \* the downloader's torrents, the n-th of a content as <<content, n>>
    active,    \* those that are still downloading
    mishaps    \* what has gone wrong; each thing at most once

vars == <<submit, owner, row, accepted, verdict, settled, attempts, worker, torrents, active,
          mishaps>>
queue == <<accepted, verdict, settled>>
downloader == <<torrents, active>>

Queue == INSTANCE TaskQueueContract WITH Tasks <- Requests

Idle == [pc |-> "idle", task |-> None]

Init ==
    /\ submit = [r \in Requests |-> "idle"]
    /\ owner = [k \in Keys |-> [first |-> None, again |-> None]]
    /\ row = [r \in Requests |-> "none"]
    /\ Queue!Init
    /\ attempts = [r \in Requests |-> 0]
    /\ worker = Idle
    /\ torrents = {} /\ active = {}
    /\ mishaps = {}

\* A failing enqueue, no client, a listing that fails, a refused torrent, an answer of the
\* downloader that is lost, an unusable save path, a failing history write, a dead process.
Spend(what) ==
    /\ what \in Mishaps \ mishaps /\ Cardinality(mishaps) < MaxMishaps
    /\ mishaps' = mishaps \cup {what}

At(pc) == worker.pc = pc
Goto(pc) == worker' = [worker EXCEPT !.pc = pc]

-----------------------------------------------------------------------------
(* submit() *)

InsertRow(r) ==
    /\ submit[r] = "idle"
    /\ row' = [row EXCEPT ![r] = "queued"]
    /\ submit' = [submit EXCEPT ![r] = "enqueue"]
    /\ UNCHANGED <<owner, queue, attempts, worker, downloader, mishaps>>

GivenUp(r) == verdict[r] \cap {"failed", "dead", "cancelled"} # {}

\* enqueue() accepts the task under a key nobody holds.
Accepted(r, which) ==
    /\ Queue!Accept(r)
    /\ owner' = [owner EXCEPT ![KeyOf[r]][which] = r]
    /\ submit' = [submit EXCEPT ![r] = "done"]
    /\ UNCHANGED row

\* Another task stands for this request: its row goes.
Joined(r) ==
    /\ row' = [row EXCEPT ![r] = "none"]
    /\ submit' = [submit EXCEPT ![r] = "done"]
    /\ UNCHANGED <<owner, queue>>

\* Mutation: whatever became of the task that holds the key, the request is queued anew.
EnqueueAlways(r) ==
    /\ submit[r] = "enqueue"
    /\ Accepted(r, "first")
    /\ UNCHANGED <<attempts, worker, downloader, mishaps>>

\* A task that was given up does not swallow the request: once more, under another key.
Enqueue(r) ==
    LET holder == owner[KeyOf[r]].first IN
    /\ submit[r] = "enqueue"
    /\ \/ holder = None /\ Accepted(r, "first")
       \/ holder # None /\ ~ GivenUp(holder) /\ Joined(r)
       \/ /\ holder # None /\ GivenUp(holder)
          /\ submit' = [submit EXCEPT ![r] = "again"]
          /\ UNCHANGED <<owner, row, queue>>
    /\ UNCHANGED <<attempts, worker, downloader, mishaps>>

\* Mutation: the row of an accepted retry is deleted too.
EnqueueAgainDeletes(r) ==
    /\ submit[r] = "again"
    /\ submit' = [submit EXCEPT ![r] = "done"]
    /\ row' = [row EXCEPT ![r] = "none"]
    /\ IF owner[KeyOf[r]].again = None
       THEN Queue!Accept(r) /\ owner' = [owner EXCEPT ![KeyOf[r]].again = r]
       ELSE UNCHANGED <<owner, queue>>
    /\ UNCHANGED <<attempts, worker, downloader, mishaps>>

EnqueueAgain(r) ==
    /\ submit[r] = "again"
    /\ IF owner[KeyOf[r]].again = None THEN Accepted(r, "again") ELSE Joined(r)
    /\ UNCHANGED <<attempts, worker, downloader, mishaps>>

\* enqueue() raises, whether the queue has the task or not: the row is deleted, but not
\* when it was the second call.
EnqueueFails(r) ==
    /\ submit[r] \in {"enqueue", "again"} /\ Spend("enqueue")
    /\ Queue!Accept(r) \/ UNCHANGED queue
    /\ row' = [row EXCEPT ![r] = IF submit[r] = "enqueue" THEN "none" ELSE @]
    /\ submit' = [submit EXCEPT ![r] = "done"]
    /\ UNCHANGED <<owner, attempts, worker, downloader>>

-----------------------------------------------------------------------------
(* _handle_task(), one at a time *)

\* A task that was given up before its process died is only acknowledged.
Take(r) ==
    /\ At("idle") /\ r \in accepted \ settled
    /\ worker' = [pc |-> IF GivenUp(r) THEN "ack" ELSE "start", task |-> r]
    /\ UNCHANGED <<submit, owner, row, queue, attempts, downloader, mishaps>>

\* The handler returns; the queue counts the task as done.
Succeed ==
    /\ Queue!Decide(worker.task, "ok")
    /\ Goto("ack")

\* The row has a torrent of an earlier run: nothing is left to do.
Start ==
    /\ At("start")
    /\ IF row[worker.task] = "downloading" THEN Succeed ELSE Goto("slot") /\ UNCHANGED queue
    /\ UNCHANGED <<submit, owner, row, attempts, downloader, mishaps>>

\* Mutation: any number of torrents may be active.
WaitForSlotNever ==
    /\ At("slot") /\ Goto("execute")
    /\ UNCHANGED <<submit, owner, row, queue, attempts, downloader, mishaps>>

\* Mutation: torrents that are done count as well.
WaitForSlotAll ==
    /\ At("slot") /\ Cardinality(torrents) < MaxActive /\ Goto("execute")
    /\ UNCHANGED <<submit, owner, row, queue, attempts, downloader, mishaps>>

\* Polls until fewer than max_active torrents are active; raises without a client.
WaitForSlot ==
    /\ At("slot")
    /\ \/ Cardinality(active) < MaxActive /\ Goto("execute") /\ UNCHANGED mishaps
       \/ Spend("client") /\ Goto("failed")
    /\ UNCHANGED <<submit, owner, row, queue, attempts, downloader>>

Present(r) == \E x \in torrents : x[1] = ContentOf[r]

\* Mutation: a torrent that is there already is not looked for.
LookUpNever ==
    /\ At("execute") /\ Goto("add")
    /\ UNCHANGED <<submit, owner, row, queue, attempts, downloader, mishaps>>

\* _reuse_same_content_torrent(): the torrent that is there is returned, and the history
\* row is left as it is.  A listing that fails finds nothing.
LookUp ==
    LET r == worker.task IN
    /\ At("execute")
    /\ \/ Present(r) /\ Succeed /\ UNCHANGED mishaps
       \/ ~ Present(r) /\ Goto("add") /\ UNCHANGED <<queue, mishaps>>
       \/ Present(r) /\ Spend("lookup") /\ Goto("add") /\ UNCHANGED queue
    /\ UNCHANGED <<submit, owner, row, attempts, downloader>>

\* The downloader takes the torrent and answers with its id, or the answer is lost, or it
\* refuses.
Add ==
    LET content == ContentOf[worker.task]
        new == <<content, Cardinality({x \in torrents : x[1] = content}) + 1>> IN
    /\ At("add")
    /\ \/ Spend("refused") /\ Goto("refused") /\ UNCHANGED downloader
       \/ /\ torrents' = torrents \cup {new} /\ active' = active \cup {new}
          /\ \/ Goto("post") /\ UNCHANGED mishaps
             \/ Spend("reply") /\ Goto("refused")
    /\ UNCHANGED <<submit, owner, row, queue, attempts>>

\* Mutation: the torrent is deleted but goes on downloading.
StagePostLeavesActive ==
    /\ At("post") /\ Succeed
    /\ \/ /\ row' = [row EXCEPT ![worker.task] = "downloading"]
          /\ UNCHANGED <<downloader, mishaps>>
       \/ /\ Spend("path") /\ UNCHANGED <<row, active>>
          /\ torrents' = {x \in torrents : x[1] # ContentOf[worker.task]}
    /\ UNCHANGED <<submit, owner, attempts>>

\* Mutation: the placeholder is not replaced by the downloader's id.
StagePostNever ==
    /\ At("post") /\ Succeed
    /\ UNCHANGED <<submit, owner, row, attempts, downloader, mishaps>>

\* _stage_post(): the row gets the downloader's id, if it is still there and can be
\* written.  Without a save path the torrent is deleted, and the task succeeds all the same.
StagePost ==
    LET r == worker.task IN
    /\ At("post") /\ Succeed
    /\ \/ /\ row' = [row EXCEPT ![r] = IF @ = "none" THEN @ ELSE "downloading"]
          /\ UNCHANGED <<downloader, mishaps>>
       \/ Spend("history") /\ UNCHANGED <<row, downloader>>
       \/ /\ Spend("path") /\ UNCHANGED row
          /\ torrents' = {x \in torrents : x[1] # ContentOf[r]}
          /\ active' = active \cap torrents'
    /\ UNCHANGED <<submit, owner, attempts>>

\* No id: on the last attempt the row says so.
Refused ==
    LET r == worker.task IN
    /\ At("refused") /\ Goto("failed")
    /\ row' = [row EXCEPT ![r] = IF attempts[r] + 1 >= MaxAttempts /\ @ # "none"
                                 THEN "error" ELSE @]
    /\ UNCHANGED <<submit, owner, queue, attempts, downloader, mishaps>>

\* The handler raised: another attempt, or the task is given up.
Failed ==
    LET r == worker.task IN
    /\ At("failed")
    /\ attempts' = [attempts EXCEPT ![r] = @ + 1]
    /\ IF attempts[r] + 1 < MaxAttempts THEN worker' = Idle /\ UNCHANGED queue
       ELSE Queue!Decide(r, "dead") /\ Goto("ack")
    /\ UNCHANGED <<submit, owner, row, downloader, mishaps>>

Ack ==
    /\ At("ack")
    /\ Queue!Settle(worker.task)
    /\ worker' = Idle
    /\ UNCHANGED <<submit, owner, row, attempts, downloader, mishaps>>

-----------------------------------------------------------------------------
(* The world around the queue *)

Finish(x) ==
    /\ x \in active
    /\ active' = active \ {x}
    /\ UNCHANGED <<submit, owner, row, queue, attempts, worker, torrents, mishaps>>

\* A series, or a download of another program.
AddDirect(d) ==
    /\ <<d, 1>> \notin torrents
    /\ torrents' = torrents \cup {<<d, 1>>} /\ active' = active \cup {<<d, 1>>}
    /\ UNCHANGED <<submit, owner, row, queue, attempts, worker, mishaps>>

\* The process dies, with its worker and the submit() calls under way.
Crash ==
    /\ Spend("crash")
    /\ worker' = Idle
    /\ submit' = [r \in Requests |-> IF submit[r] = "idle" THEN "idle" ELSE "done"]
    /\ UNCHANGED <<owner, row, queue, attempts, downloader>>

WorkerStep ==
    \/ \E r \in Requests : Take(r)
    \/ Start \/ WaitForSlot \/ LookUp \/ Add \/ StagePost \/ Refused \/ Failed \/ Ack

Next ==
    \/ \E r \in Requests : InsertRow(r) \/ Enqueue(r) \/ EnqueueAgain(r) \/ EnqueueFails(r)
    \/ WorkerStep
    \/ \E x \in active : Finish(x)
    \/ \E d \in Direct : AddDirect(d)
    \/ Crash

\* A started worker goes on, and a torrent is done one day.
Fairness ==
    /\ WF_vars(WorkerStep)
    /\ WF_vars(\E x \in active : Finish(x))

Spec == Init /\ [][Next]_vars /\ Fairness

-----------------------------------------------------------------------------
(* Properties *)

TypeOK ==
    /\ submit \in [Requests -> {"idle", "enqueue", "again", "done"}]
    /\ owner \in [Keys -> [first : Requests \cup {None}, again : Requests \cup {None}]]
    /\ row \in [Requests -> {"none", "queued", "downloading", "error"}]
    /\ accepted \subseteq Requests /\ settled \subseteq accepted
    /\ verdict \in [Requests -> SUBSET {"ok", "dead"}]
    /\ attempts \in [Requests -> 0..MaxAttempts]
    /\ worker.task \in accepted \cup {None}
    /\ active \subseteq torrents /\ mishaps \subseteq Mishaps

\* After these the task finds a torrent that is not in its row, and leaves the row "queued".
Unrecorded == {"crash", "reply", "path", "history", "enqueue"}

\* However often a task is handled, and whoever else asks for it, its torrent is added to
\* the downloader once, unless a listing of the torrents failed just then.
AddedOnce == "lookup" \notin mishaps => \A x \in torrents : x[2] = 1

\* Concurrent requests with one key have one task between them: a second one is accepted
\* only when the first was given up.
OneTaskPerKey ==
    "enqueue" \notin mishaps =>
        \A r, s \in accepted :
            r # s /\ KeyOf[r] = KeyOf[s] => GivenUp(r) \/ GivenUp(s)

\* An accepted task never runs without the history row of its request, although submit()
\* deletes rows after it has talked to the queue.
OwedHasRow == "enqueue" \notin mishaps => \A r \in accepted : row[r] # "none"

\* Attempts that fail, tasks that are given up and requests for a torrent that is there
\* leave no torrent of the queue without a history row that has its id.  (A crash or a lost
\* answer after the downloader took the torrent does: see Unrecorded.)
AddedIsRecorded ==
    mishaps \cap Unrecorded = {} =>
        \A x \in torrents : x[1] \in Contents /\ ~ At("post") =>
            \E r \in Requests : ContentOf[r] = x[1] /\ row[r] = "downloading"

\* The limit is exceeded at most by downloads that do not go through the queue.
WithinLimit == Cardinality(active) <= MaxActive + Cardinality(Direct)

\* Every accepted task is settled, although its attempts fail, its process dies and the
\* downloader is at its limit.
EventuallySettled == []<>(accepted \subseteq settled)
=============================================================================
