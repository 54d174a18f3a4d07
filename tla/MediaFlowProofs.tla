---------------------------- MODULE MediaFlowProofs ----------------------------
(***************************************************************************)
(* What the snapshot shows has happened, and a torrent is only tagged when *)
(* its file is in its place or was given up, for any number of rounds, of  *)
(* attempts and of mishaps.                                                *)
(***************************************************************************)
EXTENDS MediaFlow, TLAPS

Kinds == {"download.queued", "download.started", "download.completed",
          "transfer.queued", "transfer.started", "transfer.failed", "transfer.completed",
          "scrape.queued", "scrape.started", "scrape.failed", "scrape.completed",
          "library.present", "reconcile.download.queued", "reconcile.download.downloading",
          "reconcile.download.completed", "reconcile.transfer.completed",
          "reconcile.scrape.completed", "reconcile.library.present"}

StageNames == {Stages[i] : i \in DOMAIN Stages} \cup {"none"}

\* Every kind of event has a stage.
LEMMA StageOfKind == \A kind \in Kinds : StageOf(kind) \in StageNames
<1>1. /\ "download_queued" = Stages[1] /\ "downloading" = Stages[2] /\ "downloaded" = Stages[3]
      /\ "transfer_queued" = Stages[4] /\ "transferring" = Stages[5]
      /\ "transferred" = Stages[6] /\ "scrape_queued" = Stages[7] /\ "scraping" = Stages[8]
      /\ "scraped" = Stages[9] /\ "in_library" = Stages[10]
  BY DEF Stages
<1>2. DOMAIN Stages = 1..10
  BY DEF Stages
<1>3. \A i \in 1..10 : Stages[i] \in StageNames
  BY <1>2 DEF StageNames
<1>4. {"download_queued", "downloading", "downloaded", "transfer_queued", "transferring",
       "transferred", "scrape_queued", "scraping", "scraped", "in_library"} \subseteq StageNames
  BY <1>1, <1>3
<1>5. \A kind \in Kinds :
        StageOf(kind) \in {"download_queued", "downloading", "downloaded", "transfer_queued",
                           "transferring", "transferred", "scrape_queued", "scraping",
                           "scraped", "in_library"}
  BY DEF Kinds, StageOf
<1> QED BY <1>4, <1>5

\* An event leaves the snapshot in its stage or brings it to the event's.
LEMMA ProjectStage ==
    ASSUME NEW old \in Snapshots, NEW kind \in Kinds, NEW time \in Nat
    PROVE  /\ Project(old, kind, time) \in Snapshots
           /\ Project(old, kind, time).stage \in {old.stage, StageOf(kind)}
<1>1. StageOf(kind) \in StageNames
  BY StageOfKind
<1>2. Snapshots = [stage : StageNames, started : Nat, last : Nat]
  BY DEF Snapshots, StageNames
<1> HIDE DEF StageNames
<1> DEFINE restart == old.stage \in Terminal /\ kind \in Restarting /\ time > old.started
           forward == Rank(StageOf(kind)) > Rank(old.stage)
           later == IF time > old.last THEN time ELSE old.last
<1>3. later \in Nat
  BY <1>2
<1>4. CASE old = Nothing \/ restart
  <2>1. Project(old, kind, time) = [stage |-> StageOf(kind), started |-> time, last |-> time]
    BY <1>4 DEF Project
  <2> QED BY <2>1, <1>1, <1>2
<1>5. CASE ~ (old = Nothing \/ restart) /\ forward
  <2>1. Project(old, kind, time) = [stage |-> StageOf(kind), started |-> time, last |-> later]
    BY <1>5 DEF Project
  <2> QED BY <2>1, <1>1, <1>2, <1>3
<1>6. CASE ~ (old = Nothing \/ restart) /\ ~ forward
  <2>1. Project(old, kind, time) \in {[old EXCEPT !.last = time], old}
    BY <1>6 DEF Project
  <2>2. [old EXCEPT !.last = time] \in Snapshots /\ [old EXCEPT !.last = time].stage = old.stage
    BY <1>2
  <2> QED BY <2>1, <2>2
<1> QED BY <1>4, <1>5, <1>6

-----------------------------------------------------------------------------

\* The events that tell of a file in its place, and of metadata.
FiledKinds == {"transfer.completed", "reconcile.transfer.completed", "scrape.queued",
               "scrape.started", "scrape.failed", "scrape.completed", "library.present",
               "reconcile.scrape.completed", "reconcile.library.present"}
DescribedKinds == {"scrape.completed", "library.present", "reconcile.scrape.completed",
                   "reconcile.library.present"}

LEMMA StageTells ==
    \A kind \in Kinds : /\ StageOf(kind) \in Filed => kind \in FiledKinds
                        /\ StageOf(kind) \in Described => kind \in DescribedKinds
BY DEF Kinds, StageOf, Filed, Described, FiledKinds, DescribedKinds

Dates == \A key \in DOMAIN timeline : timeline[key] \in Nat

Somewhere == \E r \in Round : placed[r] > 0

\* What the lifecycle keeps, whoever reports.
Lifecycle == clock \in Nat \ {0} /\ snapshot \in Snapshots /\ Dates /\ ShownMeansThere

Kept == (Somewhere => Somewhere') /\ (Metadata # {} => Metadata' # {})

\* An event may be told once what it tells of is there.
Told(kind) == /\ kind \in Kinds
              /\ kind \in FiledKinds => Somewhere'
              /\ kind \in DescribedKinds => Metadata' # {}

\* Whatever is told brings the snapshot to no stage that has not been reached.
LEMMA ShownStep ==
    ASSUME ShownMeansThere, Kept, NEW kind, Told(kind),
           snapshot'.stage \in {snapshot.stage, StageOf(kind)}
    PROVE  ShownMeansThere'
<1>1. StageOf(kind) \in Filed => Somewhere'
  BY StageTells DEF Told
<1>2. StageOf(kind) \in Described => Metadata' # {}
  BY StageTells DEF Told
<1>3. snapshot.stage \in Filed => Somewhere'
  BY DEF ShownMeansThere, Kept, Somewhere
<1>4. snapshot.stage \in Described => Metadata' # {}
  BY DEF ShownMeansThere, Kept
<1> QED BY <1>1, <1>2, <1>3, <1>4 DEF ShownMeansThere, Somewhere

LEMMA ProjectKeeps ==
    ASSUME snapshot \in Snapshots, ShownMeansThere, Kept, NEW kind, Told(kind),
           NEW time \in Nat, snapshot' = Project(snapshot, kind, time)
    PROVE  snapshot' \in Snapshots /\ ShownMeansThere'
<1>1. kind \in Kinds
  BY DEF Told
<1>2. snapshot' \in Snapshots /\ snapshot'.stage \in {snapshot.stage, StageOf(kind)}
  BY <1>1, ProjectStage
<1> QED BY <1>2, ShownStep

\* The same of record_event(), which dates a repeated event with its first time.
LEMMA RecordKeeps ==
    ASSUME snapshot \in Snapshots, Dates, ShownMeansThere, Kept, NEW key, Told(key[1]),
           NEW time \in Nat, Record(key, time)
    PROVE  snapshot' \in Snapshots /\ Dates' /\ ShownMeansThere'
<1>1. CASE key \in DOMAIN timeline
  <2>1. timeline' = timeline /\ snapshot' = Project(snapshot, key[1], timeline[key])
    BY <1>1 DEF Record
  <2>2. timeline[key] \in Nat
    BY <1>1 DEF Dates
  <2>3. Dates'
    BY <2>1 DEF Dates
  <2> QED BY <2>1, <2>2, <2>3, ProjectKeeps
<1>2. CASE key \notin DOMAIN timeline
  <2>1. timeline' = Dated(key, time) /\ snapshot' = Project(snapshot, key[1], time)
    BY <1>2 DEF Record
  <2>2. Dates'
    BY <2>1 DEF Dated, Dates
  <2> QED BY <2>1, <2>2, ProjectKeeps
<1> QED BY <1>1, <1>2

LEMMA NoteKeeps ==
    ASSUME Lifecycle, Kept, NEW key, Told(key[1]), Note(key)
    PROVE  Lifecycle'
<1>1. clock' \in Nat \ {0} /\ Record(key, clock + 1) /\ clock + 1 \in Nat
  BY DEF Note, Lifecycle
<1> QED BY <1>1, RecordKeeps DEF Lifecycle

LEMMA UnchangedKeeps ==
    ASSUME Lifecycle, Kept, UNCHANGED <<timeline, snapshot>>, clock' \in Nat \ {0}
    PROVE  Lifecycle'
BY DEF Lifecycle, Kept, ShownMeansThere, Somewhere, Dates

-----------------------------------------------------------------------------
(* The tasks of a queue *)

\* A task is worked on only while it runs, and it runs only with attempts left.
Attempted(queue) ==
    \A t \in Tasks :
        /\ queue[t].pc # "idle" => queue[t].status = "running"
        /\ queue[t].status \in {"none", "queued", "running"} => queue[t].attempts < MaxAttempts

TransferStatus == {"none", "queued", "running", "succeeded", "skipped", "dead"}
TransferPc == {"idle", "process", "scrape", "noted", "finish", "ack"}
TransferTask == TaskOf(TransferStatus, TransferPc)

ScrapeStatus == {"none", "queued", "running", "succeeded", "dead"}
ScrapePc == {"idle", "write", "scraped", "present", "ack"}
ScrapeTask == TaskOf(ScrapeStatus, ScrapePc)

LEMMA Words ==
    /\ {"queued", "running", "succeeded", "skipped", "dead"} \subseteq TransferStatus
    /\ {"idle", "process", "scrape", "noted", "finish", "ack"} \subseteq TransferPc
    /\ {"queued", "running", "succeeded", "dead"} \subseteq ScrapeStatus
    /\ {"idle", "write", "scraped", "present", "ack"} \subseteq ScrapePc
BY DEF TransferStatus, TransferPc, ScrapeStatus, ScrapePc

\* A queue in which one task has changed.
LEMMA OneTask ==
    ASSUME NEW S, NEW P, NEW queue \in [Tasks -> TaskOf(S, P)], NEW t \in Tasks,
           NEW task \in TaskOf(S, P),
           Attempted(queue), task.pc # "idle" => task.status = "running",
           task.status \in {"none", "queued", "running"} => task.attempts < MaxAttempts
    PROVE  LET q == [queue EXCEPT ![t] = task] IN
           q \in [Tasks -> TaskOf(S, P)] /\ Attempted(q)
BY DEF Attempted

LEMMA CurrentTask ==
    ASSUME NEW queue, NEW r \in Round
    PROVE  Current(queue, r) \in Tasks /\ Current(queue, r)[1] = r /\ <<r, 1>> \in Tasks
           /\ <<r, 2>> \in Tasks
BY DEF Current, Tasks

LEMMA TaskRound == \A t \in Tasks : t[1] \in Round
BY DEF Tasks

\* What enqueue() leaves: the task of the round's first key is there, and no other round's.
LEMMA EnqueuedQueue ==
    ASSUME NEW S, NEW P, "queued" \in S, NEW queue \in [Tasks -> TaskOf(S, P)],
           Attempted(queue), NEW r \in Round, NEW known \in BOOLEAN
    PROVE  LET q == Enqueued(queue, r, known) IN
           /\ q \in [Tasks -> TaskOf(S, P)] /\ Attempted(q)
           /\ q[<<r, 1>>].status # "none"
           /\ \A t \in Tasks :
                 /\ q[t].pc = queue[t].pc /\ q[t].key = queue[t].key
                 /\ queue[t].status # "none" => q[t].status = queue[t].status
                 /\ q[t].status # "none" => queue[t].status # "none" \/ t[1] = r
<1> DEFINE t == Current(queue, r)
           q == Enqueued(queue, r, known)
           task == [queue[t] EXCEPT !.status = "queued", !.known = known]
<1>1. t \in Tasks /\ t[1] = r /\ <<r, 1>> \in Tasks
  BY CurrentTask
<1>2. t # <<r, 1>> => queue[<<r, 1>>].status = "dead"
  BY DEF Current, Dead
<1>3. CASE queue[t].status = "none"
  <2>1. q = [queue EXCEPT ![t] = task]
    BY <1>1, <1>3 DEF Enqueued
  <2>a. queue[t] \in TaskOf(S, P)
    BY <1>1
  <2> HIDE DEF t
  <2>2. task \in TaskOf(S, P) /\ task.pc = queue[t].pc /\ task.key = queue[t].key
        /\ task.status = "queued" /\ task.attempts = queue[t].attempts
    BY <2>a DEF TaskOf
  <2>3. queue[t].attempts < MaxAttempts /\ queue[t].pc = "idle"
    BY <1>1, <1>3 DEF Attempted
  <2>4. q \in [Tasks -> TaskOf(S, P)] /\ Attempted(q)
    <3> HIDE DEF task, q
    <3>1. task.pc # "idle" => task.status = "running"
      BY <2>2, <2>3
    <3>2. task.status \in {"none", "queued", "running"} => task.attempts < MaxAttempts
      BY <2>2, <2>3
    <3> QED BY <1>1, <2>1, <2>2, <3>1, <3>2, OneTask
  <2> HIDE DEF task, q
  <2>5. \A u \in Tasks : q[u] = IF u = t THEN task ELSE queue[u]
    BY <2>1, <1>1
  <2>6. q[<<r, 1>>].status # "none"
    BY <2>5, <2>2, <1>1, <1>2
  <2>7. \A u \in Tasks :
                 /\ q[u].pc = queue[u].pc /\ q[u].key = queue[u].key
                 /\ queue[u].status # "none" => q[u].status = queue[u].status
                 /\ q[u].status # "none" => queue[u].status # "none" \/ u[1] = r
    BY <2>5, <2>2, <1>1, <1>3
  <2> QED BY <2>4, <2>6, <2>7 DEF q
<1>4. CASE queue[t].status # "none"
  <2>1. q = queue
    BY <1>4 DEF Enqueued
  <2>2. queue[<<r, 1>>].status # "none"
    BY <1>2, <1>4
  <2> QED BY <2>1, <2>2
<1> QED BY <1>3, <1>4

Others(queue, t, q) == \A u \in Tasks : u # t => q[u] = queue[u]

\* A step of the worker of a task that runs.
LEMMA StepQueue ==
    ASSUME NEW S, NEW P, NEW queue \in [Tasks -> TaskOf(S, P)], Attempted(queue),
           NEW t \in Tasks, queue[t].status = "running", NEW pc \in P
    PROVE  LET q == Step(queue, t, pc) IN
           /\ q \in [Tasks -> TaskOf(S, P)] /\ Attempted(q) /\ Others(queue, t, q)
           /\ q[t].pc = pc /\ q[t].status = "running" /\ q[t].key = queue[t].key
<1> DEFINE q == Step(queue, t, pc)
           a == [queue[t] EXCEPT !.pc = pc]
<1>1. q = [queue EXCEPT ![t] = a]
  BY DEF Step
<1>2. queue[t] \in TaskOf(S, P) /\ queue[t].attempts < MaxAttempts
  BY DEF Attempted
<1>3. a \in TaskOf(S, P) /\ a.pc = pc /\ a.status = "running" /\ a.key = queue[t].key
      /\ a.attempts < MaxAttempts
  BY <1>2 DEF TaskOf
<1> HIDE DEF a, q
<1>4. q[t] = a /\ Others(queue, t, q)
  BY <1>1 DEF Others
<1>5. q \in [Tasks -> TaskOf(S, P)] /\ Attempted(q)
  BY <1>1, <1>3, OneTask
<1> QED BY <1>3, <1>4, <1>5 DEF q

\* A step that also keeps a key, or forgets it.
LEMMA KeyedQueue ==
    ASSUME NEW S, NEW P, NEW queue \in [Tasks -> TaskOf(S, P)], Attempted(queue),
           NEW t \in Tasks, queue[t].status = "running", NEW pc \in P,
           NEW key \in {<<>>} \cup ({"scrape.queued"} \X Tasks \X Nat)
    PROVE  LET q == Keyed(queue, t, pc, key) IN
           /\ q \in [Tasks -> TaskOf(S, P)] /\ Attempted(q) /\ Others(queue, t, q)
           /\ q[t].pc = pc /\ q[t].status = "running" /\ q[t].key = key
<1> DEFINE q == Keyed(queue, t, pc, key)
           a == [queue[t] EXCEPT !.pc = pc, !.key = key]
<1>1. q = [queue EXCEPT ![t] = a]
  BY DEF Keyed
<1>2. queue[t] \in TaskOf(S, P) /\ queue[t].attempts < MaxAttempts
  BY DEF Attempted
<1>3. a \in TaskOf(S, P) /\ a.pc = pc /\ a.status = "running" /\ a.key = key
      /\ a.attempts < MaxAttempts
  BY <1>2 DEF TaskOf
<1> HIDE DEF a, q
<1>4. q[t] = a /\ Others(queue, t, q)
  BY <1>1 DEF Others
<1>5. q \in [Tasks -> TaskOf(S, P)] /\ Attempted(q)
  BY <1>1, <1>3, OneTask
<1> QED BY <1>3, <1>4, <1>5 DEF q

\* A task that is claimed runs from now on.
LEMMA StartQueue ==
    ASSUME NEW S, NEW P, "running" \in S, NEW queue \in [Tasks -> TaskOf(S, P)], Attempted(queue),
           NEW t \in Tasks, Claimable(queue, t), NEW pc \in P
    PROVE  LET q == [Step(queue, t, pc) EXCEPT ![t].status = "running"] IN
           /\ q \in [Tasks -> TaskOf(S, P)] /\ Attempted(q) /\ Others(queue, t, q)
           /\ q[t].pc = pc /\ q[t].status = "running"
<1> DEFINE q == [Step(queue, t, pc) EXCEPT ![t].status = "running"]
           a == [queue[t] EXCEPT !.pc = pc, !.status = "running"]
<1>1. q = [queue EXCEPT ![t] = a]
  BY DEF Step
<1>2. queue[t] \in TaskOf(S, P) /\ queue[t].attempts < MaxAttempts
  BY DEF Attempted, Claimable
<1>3. a \in TaskOf(S, P) /\ a.pc = pc /\ a.status = "running" /\ a.attempts < MaxAttempts
  BY <1>2 DEF TaskOf
<1> HIDE DEF a, q
<1>4. q[t] = a /\ Others(queue, t, q)
  BY <1>1 DEF Others
<1>5. q \in [Tasks -> TaskOf(S, P)] /\ Attempted(q)
  BY <1>1, <1>3, OneTask
<1> QED BY <1>3, <1>4, <1>5 DEF q

LEMMA EndedQueue ==
    ASSUME NEW S, NEW P, "idle" \in P, NEW queue \in [Tasks -> TaskOf(S, P)], Attempted(queue),
           NEW t \in Tasks, NEW status \in S, status \in {"succeeded", "skipped"}
    PROVE  LET q == Ended(queue, t, status) IN
           /\ q \in [Tasks -> TaskOf(S, P)] /\ Attempted(q) /\ Others(queue, t, q)
           /\ q[t].pc = "idle" /\ q[t].status = status
<1> DEFINE q == Ended(queue, t, status)
           a == [queue[t] EXCEPT !.status = status, !.pc = "idle"]
<1>1. q = [queue EXCEPT ![t] = a]
  BY DEF Ended
<1>2. queue[t] \in TaskOf(S, P)
  OBVIOUS
<1>3. a \in TaskOf(S, P) /\ a.pc = "idle" /\ a.status = status
  BY <1>2 DEF TaskOf
<1> HIDE DEF a, q
<1>4. q[t] = a /\ Others(queue, t, q)
  BY <1>1 DEF Others
<1>5. q \in [Tasks -> TaskOf(S, P)] /\ Attempted(q)
  BY <1>1, <1>3, OneTask
<1> QED BY <1>3, <1>4, <1>5 DEF q

\* A failure takes an attempt, and the last one the task.
LEMMA FailedQueue ==
    ASSUME NEW S, NEW P, "idle" \in P, {"queued", "dead"} \subseteq S,
           NEW queue \in [Tasks -> TaskOf(S, P)], Attempted(queue),
           NEW t \in Tasks, queue[t].status = "running"
    PROVE  LET q == Failed(queue, t) IN
           /\ q \in [Tasks -> TaskOf(S, P)] /\ Attempted(q) /\ Others(queue, t, q)
           /\ q[t].pc = "idle" /\ q[t].status \in {"queued", "dead"}
<1> DEFINE q == Failed(queue, t)
           n == queue[t].attempts + 1
           status == IF n >= MaxAttempts THEN "dead" ELSE "queued"
           a == [queue[t] EXCEPT !.attempts = n, !.pc = "idle", !.status = status]
<1>1. q = [queue EXCEPT ![t] = a]
  BY DEF Failed
<1>2. queue[t] \in TaskOf(S, P) /\ queue[t].attempts < MaxAttempts
  BY DEF Attempted
<1>3. queue[t].attempts \in 0..MaxAttempts
  BY <1>2 DEF TaskOf
<1>4. n \in 0..MaxAttempts /\ (status # "dead" => n < MaxAttempts)
  BY <1>2, <1>3, MediaFlowAssumption
<1>5. a \in TaskOf(S, P) /\ a.pc = "idle" /\ a.status = status /\ a.attempts = n
  <2> HIDE DEF n
  <2> QED BY <1>2, <1>4 DEF TaskOf
<1> HIDE DEF a, q, n
<1>6. q[t] = a /\ Others(queue, t, q)
  BY <1>1 DEF Others
<1>7. q \in [Tasks -> TaskOf(S, P)] /\ Attempted(q)
  BY <1>1, <1>4, <1>5, OneTask
<1> QED BY <1>5, <1>6, <1>7 DEF q

-----------------------------------------------------------------------------
(* The inductive invariant *)

Downloads ==
    /\ row \in [Round -> [state : {"none", "queued", "downloading", "completed"}, date : Nat]]
    /\ torrent \in [Round -> {"none", "downloading", "complete", "tagged"}]
    /\ emitted \subseteq Round

HandlerOK ==
    handler \in {Resting} \cup [pc : {"submit", "enqueue"}, round : Round, key : {<<>>}]
                \cup [pc : {"queued"}, round : Round, key : {"transfer.queued"} \X Tasks \X Nat]

Report3 == [kind : {"reconcile.download.queued", "reconcile.download.downloading",
                    "reconcile.download.completed", "reconcile.transfer.completed"},
            round : Round, time : Nat]

\* What the reconciler has still to record of the transfers is of files in their place.
Reconciling ==
    /\ pass \subseteq Report3 /\ found \in [Round -> Nat]
    /\ \A e \in pass : FromTransfers(e) => placed[e.round] > 0

Queues == /\ transfer \in [Tasks -> TransferTask] /\ Attempted(transfer)
          /\ scrape \in [Tasks -> ScrapeTask] /\ Attempted(scrape)

Files == placed \in [Round -> Nat] /\ nfo \in [Round -> Nat]

\* A transfer task beyond its transfer has its file in its place, and beyond the submission
\* it is submitted.
TransferSteps ==
    \A t \in Tasks :
        /\ transfer[t].pc \in {"scrape", "noted", "finish", "ack"} => placed[t[1]] > 0
        /\ transfer[t].pc \in {"finish", "ack", "noted"} => Submitted(t[1])
        /\ transfer[t].pc = "noted" => transfer[t].key \in {"scrape.queued"} \X Tasks \X Nat

\* Only what is in its place is scraped, and beyond the scraping there are metadata.
ScrapeSteps ==
    \A s \in Tasks :
        /\ scrape[s].status # "none" => placed[s[1]] > 0 /\ Submitted(s[1])
        /\ scrape[s].pc \in {"scraped", "present", "ack"} => nfo[s[1]] > 0

NfoSubmitted == \A r \in Round : nfo[r] > 0 => placed[r] > 0 /\ Submitted(r)

IInv == /\ Lifecycle /\ Downloads /\ HandlerOK /\ Reconciling /\ Queues /\ Files
        /\ TransferSteps /\ ScrapeSteps /\ NfoSubmitted /\ TaggedMeansHandled
        /\ mishaps \in 0..MaxMishaps

LEMMA IInvMeans == IInv => TypeOK /\ ShownMeansThere /\ TaggedMeansHandled
BY DEF IInv, TypeOK, Lifecycle, Dates, Downloads, HandlerOK, Reconciling, Report3, Queues,
       TransferTask, TransferStatus, TransferPc, ScrapeTask, ScrapeStatus, ScrapePc, Files

LEMMA InitIInv == Init => IInv
<1> SUFFICES ASSUME Init PROVE IInv
  OBVIOUS
<1>1. Lifecycle
  BY DEF Init, Lifecycle, Dates, Snapshots, Nothing, ShownMeansThere, Filed, Described
<1>2. Fresh \in TransferTask /\ Fresh \in ScrapeTask
  BY MediaFlowAssumption DEF Fresh, TransferTask, TransferStatus, TransferPc,
                             ScrapeTask, ScrapeStatus, ScrapePc, TaskOf
<1>3. Fresh.pc = "idle" /\ Fresh.status = "none" /\ Fresh.attempts = 0 /\ 0 < MaxAttempts
  BY MediaFlowAssumption DEF Fresh
<1>4. Queues
  BY <1>2, <1>3 DEF Init, Queues, Attempted
<1>5. TransferSteps /\ ScrapeSteps
  BY <1>3 DEF Init, TransferSteps, ScrapeSteps
<1>6. Downloads /\ HandlerOK /\ Reconciling /\ Files /\ NfoSubmitted /\ TaggedMeansHandled
  BY DEF Init, Downloads, HandlerOK, Reconciling, Files, NfoSubmitted, TaggedMeansHandled
<1>7. mishaps \in 0..MaxMishaps
  BY MediaFlowAssumption DEF Init
<1> QED BY <1>1, <1>4, <1>5, <1>6, <1>7 DEF IInv

-----------------------------------------------------------------------------

\* The files only become more, and so does what may be told of them.
Grown == /\ \A r \in Round : placed[r] > 0 => placed'[r] > 0
         /\ \A r \in Round : nfo[r] > 0 => nfo'[r] > 0

LEMMA GrownKept == ASSUME Grown PROVE Kept
BY DEF Grown, Kept, Somewhere, Metadata

\* A note of one of the kinds that tell of no file.
LEMMA NoteEarly ==
    ASSUME Lifecycle, UNCHANGED files, NEW key, key[1] \in Kinds \ FiledKinds, Note(key)
    PROVE  Lifecycle'
<1>1. Kept
  BY GrownKept DEF files, Grown
<1>2. Told(key[1])
  BY DEF Told, FiledKinds, DescribedKinds
<1> QED BY <1>1, <1>2, NoteKeeps

\* A note of a round's file that is in its place, if only now.
LEMMA NotePlaced ==
    ASSUME Lifecycle, Grown, NEW r \in Round, placed'[r] > 0,
           NEW key, key[1] \in Kinds \ DescribedKinds, Note(key)
    PROVE  Lifecycle'
<1>1. Kept /\ Somewhere'
  BY GrownKept DEF Somewhere
<1>2. Told(key[1])
  BY <1>1 DEF Told
<1> QED BY <1>1, <1>2, NoteKeeps

LEMMA NoteFiled ==
    ASSUME Lifecycle, UNCHANGED files, NEW r \in Round, placed[r] > 0,
           NEW key, key[1] \in Kinds \ DescribedKinds, Note(key)
    PROVE  Lifecycle'
<1>1. Grown /\ placed'[r] > 0
  BY DEF files, Grown
<1> QED BY <1>1, NotePlaced

\* A note of its metadata.
LEMMA NoteDescribed ==
    ASSUME Lifecycle, UNCHANGED files, NEW r \in Round, placed[r] > 0, nfo[r] > 0,
           NEW key, key[1] \in Kinds, Note(key)
    PROVE  Lifecycle'
<1>1. Kept /\ Somewhere' /\ Metadata' # {}
  BY GrownKept DEF files, Grown, Somewhere, Metadata
<1>2. Told(key[1])
  BY <1>1 DEF Told
<1> QED BY <1>1, <1>2, NoteKeeps

\* Nothing is reported.
LEMMA Silent ==
    ASSUME Lifecycle, Grown, UNCHANGED <<timeline, snapshot>>, clock' \in Nat \ {0}
    PROVE  Lifecycle'
BY GrownKept, UnchangedKeeps

-----------------------------------------------------------------------------
(* The actions that change neither the queues nor the files *)

\* The torrents that are tagged were so before.
NoneTagged == \A r \in Round : torrent'[r] = "tagged" => torrent[r] = "tagged"

LEMMA SameTasks ==
    ASSUME IInv, UNCHANGED <<transfer, scrape, files, mishaps>>, NoneTagged
    PROVE  /\ Queues' /\ Files' /\ TransferSteps' /\ ScrapeSteps' /\ NfoSubmitted'
           /\ TaggedMeansHandled' /\ mishaps' \in 0..MaxMishaps /\ Grown
BY DEF IInv, files, Queues, Attempted, Files, TransferSteps, ScrapeSteps, NfoSubmitted, Submitted,
       TaggedMeansHandled, Refused, Dead, Over, NoneTagged, Grown

LEMMA SamePass ==
    ASSUME IInv, UNCHANGED reconciler, Grown
    PROVE  Reconciling'
BY DEF IInv, Reconciling, reconciler, Grown, FromTransfers, Report3

LEMMA RequestStep == ASSUME IInv, NEW r \in Round, Request(r) PROVE IInv'
<1>1. NoneTagged /\ UNCHANGED <<transfer, scrape, files, mishaps, torrent, emitted, handler>>
  BY DEF Request, NoneTagged
<1>2. /\ Queues' /\ Files' /\ TransferSteps' /\ ScrapeSteps' /\ NfoSubmitted'
      /\ TaggedMeansHandled' /\ mishaps' \in 0..MaxMishaps /\ Grown
  BY <1>1, SameTasks
<1>3. UNCHANGED reconciler
  BY DEF Request
<1>4. Reconciling'
  BY <1>2, <1>3, SamePass
<1>5. clock + 1 \in Nat \ {0} /\ clock' = clock + 1
  BY DEF IInv, Lifecycle, Request
<1>6. Downloads' /\ HandlerOK'
  BY <1>1, <1>5 DEF IInv, Downloads, HandlerOK, Request
<1>7. Lifecycle'
  <2>1. snapshot' = Project(snapshot, "download.queued", clock + 1)
        /\ timeline' = Restrict(timeline, DOMAIN timeline \cap {Reported})
    BY DEF Request
  <2>2. Told("download.queued")
    BY DEF Told, Kinds, FiledKinds, DescribedKinds
  <2>3. snapshot' \in Snapshots /\ ShownMeansThere'
    BY <1>2, <1>5, <2>1, <2>2, GrownKept, ProjectKeeps DEF IInv, Lifecycle
  <2>4. Dates'
    BY <2>1 DEF IInv, Lifecycle, Dates, Restrict
  <2> QED BY <1>5, <2>3, <2>4 DEF Lifecycle
<1> QED BY <1>2, <1>4, <1>6, <1>7 DEF IInv

LEMMA AddStep == ASSUME IInv, NEW r \in Round, Add(r) PROVE IInv'
<1>1. NoneTagged /\ UNCHANGED <<transfer, scrape, files, mishaps, emitted, handler>>
  BY DEF Add, NoneTagged, IInv, Downloads
<1>2. /\ Queues' /\ Files' /\ TransferSteps' /\ ScrapeSteps' /\ NfoSubmitted'
      /\ TaggedMeansHandled' /\ mishaps' \in 0..MaxMishaps /\ Grown
  BY <1>1, SameTasks
<1>3. UNCHANGED reconciler
  BY DEF Add
<1>4. Reconciling'
  BY <1>2, <1>3, SamePass
<1>5. clock + 1 \in Nat \ {0} /\ clock' = clock + 1
  BY DEF IInv, Lifecycle, Add
<1>6. Downloads' /\ HandlerOK'
  BY <1>1, <1>5 DEF IInv, Downloads, HandlerOK, Add
<1>7. Lifecycle'
  <2>1. snapshot' = Project(snapshot, "download.started", clock + 1) /\ UNCHANGED timeline
    BY DEF Add, Tell
  <2>2. Told("download.started")
    BY DEF Told, Kinds, FiledKinds, DescribedKinds
  <2>3. snapshot' \in Snapshots /\ ShownMeansThere'
    BY <1>2, <1>5, <2>1, <2>2, GrownKept, ProjectKeeps DEF IInv, Lifecycle
  <2>4. Dates'
    BY <2>1 DEF IInv, Lifecycle, Dates
  <2> QED BY <1>5, <2>3, <2>4 DEF Lifecycle
<1> QED BY <1>2, <1>4, <1>6, <1>7 DEF IInv

LEMMA FinishStep == ASSUME IInv, NEW r \in Round, Finish(r) PROVE IInv'
<1>1. /\ NoneTagged
      /\ UNCHANGED <<transfer, scrape, files, mishaps, emitted, handler, row, clock, timeline,
                     snapshot>>
  BY DEF Finish, NoneTagged, IInv, Downloads, lifecycle
<1>2. /\ Queues' /\ Files' /\ TransferSteps' /\ ScrapeSteps' /\ NfoSubmitted'
      /\ TaggedMeansHandled' /\ mishaps' \in 0..MaxMishaps /\ Grown
  BY <1>1, SameTasks
<1>3. UNCHANGED reconciler
  BY DEF Finish
<1>4. Reconciling' /\ Lifecycle'
  BY <1>1, <1>2, <1>3, SamePass, Silent DEF IInv, Lifecycle
<1>5. Downloads' /\ HandlerOK'
  BY <1>1 DEF IInv, Downloads, HandlerOK, Finish
<1> QED BY <1>2, <1>4, <1>5 DEF IInv

LEMMA MarkCompletedStep == ASSUME IInv, NEW r \in Round, MarkCompleted(r) PROVE IInv'
<1>1. /\ NoneTagged
      /\ UNCHANGED <<transfer, scrape, files, mishaps, emitted, handler, torrent, clock, timeline,
                     snapshot>>
  BY DEF MarkCompleted, NoneTagged, lifecycle
<1>2. /\ Queues' /\ Files' /\ TransferSteps' /\ ScrapeSteps' /\ NfoSubmitted'
      /\ TaggedMeansHandled' /\ mishaps' \in 0..MaxMishaps /\ Grown
  BY <1>1, SameTasks
<1>3. UNCHANGED reconciler
  BY DEF MarkCompleted
<1>4. Reconciling' /\ Lifecycle'
  BY <1>1, <1>2, <1>3, SamePass, Silent DEF IInv, Lifecycle
<1>5. Downloads' /\ HandlerOK'
  BY <1>1 DEF IInv, Downloads, HandlerOK, MarkCompleted
<1> QED BY <1>2, <1>4, <1>5 DEF IInv

LEMMA EmitStep == ASSUME IInv, NEW r \in Round, Emit(r) PROVE IInv'
<1>1. NoneTagged /\ UNCHANGED <<transfer, scrape, files, mishaps, torrent, row>>
  BY DEF Emit, NoneTagged
<1>2. /\ Queues' /\ Files' /\ TransferSteps' /\ ScrapeSteps' /\ NfoSubmitted'
      /\ TaggedMeansHandled' /\ mishaps' \in 0..MaxMishaps /\ Grown
  BY <1>1, SameTasks
<1>3. UNCHANGED reconciler
  BY DEF Emit
<1>4. Reconciling'
  BY <1>2, <1>3, SamePass
<1>5. Downloads' /\ HandlerOK'
  BY <1>1 DEF IInv, Downloads, HandlerOK, Emit, Resting
<1>6. Lifecycle'
  <2>1. <<"download.completed", r>>[1] \in Kinds \ FiledKinds
    BY DEF Kinds, FiledKinds
  <2>2. Note(<<"download.completed", r>>)
    BY DEF Emit
  <2> QED BY <1>1, <2>1, <2>2, NoteEarly DEF IInv
<1> QED BY <1>2, <1>4, <1>5, <1>6 DEF IInv

LEMMA SubmitStep == ASSUME IInv, Submit PROVE IInv'
<1>1. /\ NoneTagged
      /\ UNCHANGED <<transfer, scrape, files, mishaps, torrent, row, emitted, clock, timeline,
                     snapshot>>
  BY DEF Submit, NoneTagged, download, lifecycle
<1>2. /\ Queues' /\ Files' /\ TransferSteps' /\ ScrapeSteps' /\ NfoSubmitted'
      /\ TaggedMeansHandled' /\ mishaps' \in 0..MaxMishaps /\ Grown
  BY <1>1, SameTasks
<1>3. UNCHANGED reconciler
  BY DEF Submit
<1>4. Reconciling' /\ Lifecycle'
  BY <1>1, <1>2, <1>3, SamePass, Silent DEF IInv, Lifecycle
<1>5. Downloads'
  BY <1>1 DEF IInv, Downloads
<1>6. HandlerOK'
  BY DEF IInv, HandlerOK, Submit, Resting
<1> QED BY <1>2, <1>4, <1>5, <1>6 DEF IInv

LEMMA RecordQueuedStep == ASSUME IInv, RecordQueued PROVE IInv'
<1>1. NoneTagged /\ UNCHANGED <<transfer, scrape, files, mishaps, torrent, row, emitted>>
  BY DEF RecordQueued, NoneTagged, download
<1>2. /\ Queues' /\ Files' /\ TransferSteps' /\ ScrapeSteps' /\ NfoSubmitted'
      /\ TaggedMeansHandled' /\ mishaps' \in 0..MaxMishaps /\ Grown
  BY <1>1, SameTasks
<1>3. UNCHANGED reconciler
  BY DEF RecordQueued
<1>4. Reconciling'
  BY <1>2, <1>3, SamePass
<1>5. Downloads' /\ HandlerOK'
  BY <1>1 DEF IInv, Downloads, HandlerOK, RecordQueued
<1>6. Lifecycle'
  <2>1. handler.key[1] = "transfer.queued"
    BY DEF IInv, HandlerOK, RecordQueued, Resting
  <2>2. handler.key[1] \in Kinds \ FiledKinds /\ Note(handler.key)
    BY <2>1 DEF Kinds, FiledKinds, RecordQueued
  <2> QED BY <1>1, <2>2, NoteEarly DEF IInv
<1> QED BY <1>2, <1>4, <1>5, <1>6 DEF IInv

LEMMA MetadataDates == ASSUME Files PROVE \A date \in Metadata : date \in Nat
BY DEF Files, Metadata

LEMMA ReconcileStep == ASSUME IInv, Reconcile PROVE IInv'
<1>1. /\ NoneTagged
      /\ UNCHANGED <<transfer, scrape, files, mishaps, torrent, row, emitted, handler, clock,
                     timeline, snapshot>>
  BY DEF Reconcile, NoneTagged, download, lifecycle
<1>2. /\ Queues' /\ Files' /\ TransferSteps' /\ ScrapeSteps' /\ NfoSubmitted'
      /\ TaggedMeansHandled' /\ mishaps' \in 0..MaxMishaps /\ Grown
  BY <1>1, SameTasks
<1>3. Lifecycle'
  BY <1>1, <1>2, Silent DEF IInv, Lifecycle
<1>4. Downloads' /\ HandlerOK'
  BY <1>1 DEF IInv, Downloads, HandlerOK
<1>5. Reconciling'
  <2>1. \A r \in Round : FromRow(r) \in Report3 /\ ~ FromTransfers(FromRow(r))
    BY DEF FromRow, FromTransfers, Report3, IInv, Downloads
  <2>2. \A r \in Round : FromTransfer(r) \in Report3 /\ FromTransfer(r).round = r
    BY DEF FromTransfer, Report3, IInv, Files
  <2>3. pass' = {FromRow(r) : r \in {x \in Round : row[x].date > 0}}
                \cup {FromTransfer(r) : r \in {x \in Round : placed[x] > 0}}
        /\ placed' = placed /\ found' = found
    BY DEF Reconcile, files
  <2>4. \A e \in pass' : e \in Report3 /\ (FromTransfers(e) => placed'[e.round] > 0)
    BY <2>1, <2>2, <2>3
  <2> QED BY <2>3, <2>4 DEF IInv, Reconciling, FromTransfers
<1> QED BY <1>2, <1>3, <1>4, <1>5 DEF IInv

LEMMA ReconcileNextStep == ASSUME IInv, ReconcileNext PROVE IInv'
<1>1. /\ NoneTagged
      /\ UNCHANGED <<transfer, scrape, files, mishaps, torrent, row, emitted, handler, clock,
                     timeline>>
  BY DEF ReconcileNext, NoneTagged, download
<1>2. /\ Queues' /\ Files' /\ TransferSteps' /\ ScrapeSteps' /\ NfoSubmitted'
      /\ TaggedMeansHandled' /\ mishaps' \in 0..MaxMishaps /\ Grown
  BY <1>1, SameTasks
<1>3. Downloads' /\ HandlerOK'
  BY <1>1 DEF IInv, Downloads, HandlerOK
<1> DEFINE told(e) == Project(snapshot, e.kind, e.time)
<1>4. PICK e \in pass :
        /\ pass' = pass \ {e}
        /\ \/ /\ FromTransfers(e) /\ Metadata # {}
              /\ \E date \in IF found[e.round] > 0 THEN {found[e.round]} ELSE Metadata :
                    found' = [found EXCEPT ![e.round] = date] /\ snapshot' = FromNfo(told(e), date)
           \/ snapshot' = told(e) /\ UNCHANGED found
  BY DEF ReconcileNext
<1>5. e \in Report3 /\ (FromTransfers(e) => placed[e.round] > 0)
  BY DEF IInv, Reconciling
<1>6. e.kind \in Kinds /\ e.time \in Nat /\ e.round \in Round
      /\ (FromTransfers(e) <=> e.kind = "reconcile.transfer.completed")
  BY <1>5 DEF Report3, Kinds, FromTransfers
<1>7. Kept /\ (FromTransfers(e) => Somewhere /\ Somewhere')
  BY <1>1, <1>2, <1>5, <1>6, GrownKept DEF Somewhere, files
<1>8. Told(e.kind)
  <2>1. e.kind \in FiledKinds => FromTransfers(e)
    BY <1>5 DEF Report3, FiledKinds, FromTransfers
  <2>2. e.kind \notin DescribedKinds
    BY <1>5 DEF Report3, DescribedKinds
  <2> QED BY <1>6, <1>7, <2>1, <2>2 DEF Told
<1>9. told(e) \in Snapshots /\ told(e).stage \in {snapshot.stage, StageOf(e.kind)}
  BY <1>6, ProjectStage DEF IInv, Lifecycle
<1>10. CASE snapshot' = told(e) /\ UNCHANGED found
  <2>1. snapshot' \in Snapshots /\ ShownMeansThere'
    BY <1>6, <1>7, <1>8, <1>10, ProjectKeeps DEF IInv, Lifecycle
  <2>2. Lifecycle'
    BY <1>1, <2>1 DEF IInv, Lifecycle, Dates
  <2>3. Reconciling'
    BY <1>1, <1>4, <1>10 DEF IInv, Reconciling, FromTransfers, files
  <2> QED BY <1>2, <1>3, <2>2, <2>3 DEF IInv
<1>11. ASSUME FromTransfers(e), Metadata # {},
              NEW date \in IF found[e.round] > 0 THEN {found[e.round]} ELSE Metadata,
              found' = [found EXCEPT ![e.round] = date], snapshot' = FromNfo(told(e), date)
       PROVE  IInv'
  <2>1. date \in Nat
    BY <1>6, <1>11, MetadataDates DEF IInv, Reconciling
  <2> DEFINE scraped == Project(told(e), "reconcile.scrape.completed", date)
             present == Project(scraped, "reconcile.library.present", date)
  <2>2. {"reconcile.scrape.completed", "reconcile.library.present"} \subseteq Kinds
    BY DEF Kinds
  <2>3. scraped \in Snapshots
        /\ scraped.stage \in {told(e).stage, StageOf("reconcile.scrape.completed")}
    BY <1>9, <2>1, <2>2, ProjectStage
  <2>4. present \in Snapshots
        /\ present.stage \in {scraped.stage, StageOf("reconcile.library.present")}
    <3> HIDE DEF scraped
    <3> QED BY <2>1, <2>2, <2>3, ProjectStage
  <2>5. snapshot' = present
    BY <1>11 DEF FromNfo
  <2>6. Metadata' # {} /\ Somewhere'
    BY <1>7, <1>11 DEF Kept
  <2>7. snapshot' \in Snapshots /\ ShownMeansThere'
    BY <2>4, <2>5, <2>6 DEF ShownMeansThere, Somewhere
  <2>8. Lifecycle'
    BY <1>1, <2>7 DEF IInv, Lifecycle, Dates
  <2>9. Reconciling'
    BY <1>1, <1>4, <1>11, <2>1 DEF IInv, Reconciling, FromTransfers, files
  <2> QED BY <1>2, <1>3, <2>8, <2>9 DEF IInv
<1> QED BY <1>4, <1>10, <1>11

-----------------------------------------------------------------------------
(* The actions of the queues *)

\* Another task is enqueued in the transfer queue: nobody works on it yet.
LEMMA TransferEnqueued ==
    ASSUME IInv, UNCHANGED <<scrape, files, mishaps, clock, timeline, snapshot, reconciler, torrent>>,
           NEW r \in Round, NEW known \in BOOLEAN, transfer' = Enqueued(transfer, r, known)
    PROVE  /\ Queues' /\ Files' /\ TransferSteps' /\ ScrapeSteps' /\ NfoSubmitted'
           /\ TaggedMeansHandled' /\ mishaps' \in 0..MaxMishaps /\ Reconciling' /\ Lifecycle'
<1>1. /\ transfer' \in [Tasks -> TransferTask] /\ Attempted(transfer')
      /\ \A t \in Tasks :
            /\ transfer'[t].pc = transfer[t].pc /\ transfer'[t].key = transfer[t].key
            /\ transfer[t].status # "none" => transfer'[t].status = transfer[t].status
  <2>1. transfer \in [Tasks -> TaskOf(TransferStatus, TransferPc)] /\ Attempted(transfer)
    BY DEF IInv, Queues, TransferTask
  <2>2. "queued" \in TransferStatus
    BY Words
  <2>3. /\ transfer' \in [Tasks -> TaskOf(TransferStatus, TransferPc)] /\ Attempted(transfer')
        /\ \A t \in Tasks :
              /\ transfer'[t].pc = transfer[t].pc /\ transfer'[t].key = transfer[t].key
              /\ transfer[t].status # "none" => transfer'[t].status = transfer[t].status
    <3> DEFINE q == Enqueued(transfer, r, known)
    <3>1. /\ q \in [Tasks -> TaskOf(TransferStatus, TransferPc)] /\ Attempted(q)
          /\ q[<<r, 1>>].status # "none"
          /\ \A t \in Tasks :
              /\ q[t].pc = transfer[t].pc /\ q[t].key = transfer[t].key
              /\ transfer[t].status # "none" => q[t].status = transfer[t].status
              /\ q[t].status # "none" => transfer[t].status # "none" \/ t[1] = r
      BY <2>1, <2>2, EnqueuedQueue
    <3> QED BY <3>1
  <2> QED BY <2>3 DEF TransferTask
<1>2. Queues'
  BY <1>1 DEF IInv, Queues, Attempted
<1>3. TransferSteps'
  BY <1>1 DEF IInv, TransferSteps, files, Submitted
<1>4. ScrapeSteps' /\ NfoSubmitted' /\ Files'
  BY DEF IInv, ScrapeSteps, NfoSubmitted, files, Files, Submitted
<1>5. \A q \in Round : Refused(transfer, q) => Refused(transfer', q)
  BY <1>1, CurrentTask DEF Refused, Dead, Over
<1>6. TaggedMeansHandled'
  BY <1>5 DEF IInv, TaggedMeansHandled, files, Submitted, Refused, Dead, Over
<1>7. Grown
  BY DEF Grown, files
<1>8. Lifecycle' /\ Reconciling'
  BY <1>7, Silent, SamePass DEF IInv, Lifecycle
<1> QED BY <1>2, <1>3, <1>4, <1>6, <1>8 DEF IInv

LEMMA EnqueueStep == ASSUME IInv, Enqueue PROVE IInv'
<1> DEFINE r == handler.round
           t == Current(transfer, r)
<1>1. r \in Round
  BY DEF IInv, HandlerOK, Enqueue, Resting
<1>2. /\ transfer' = Enqueued(transfer, r, TRUE)
      /\ UNCHANGED <<scrape, files, mishaps, clock, timeline, snapshot, reconciler, torrent, row,
                     emitted>>
      /\ handler' \in {Resting, [handler EXCEPT !.pc = "queued",
                                   !.key = <<"transfer.queued", t, transfer[t].attempts>>]}
  BY DEF Enqueue, lifecycle, download
<1>3. /\ Queues' /\ Files' /\ TransferSteps' /\ ScrapeSteps' /\ NfoSubmitted'
      /\ TaggedMeansHandled' /\ mishaps' \in 0..MaxMishaps /\ Reconciling' /\ Lifecycle'
  <2> HIDE DEF r
  <2> QED BY <1>1, <1>2, TransferEnqueued
<1>4. Downloads'
  BY <1>2 DEF IInv, Downloads
<1>5. t \in Tasks
  BY <1>1, CurrentTask
<1>6. transfer[t].attempts \in Nat
  BY <1>5, MediaFlowAssumption DEF IInv, Queues, TransferTask, TaskOf
<1>7. HandlerOK'
  <2> HIDE DEF t
  <2>1. handler \in [pc : {"submit", "enqueue"}, round : Round, key : {<<>>}]
    BY DEF IInv, HandlerOK, Enqueue, Resting
  <2>2. <<"transfer.queued", t, transfer[t].attempts>> \in {"transfer.queued"} \X Tasks \X Nat
    BY <1>5, <1>6
  <2> QED BY <1>2, <2>1, <2>2 DEF HandlerOK
<1> QED BY <1>3, <1>4, <1>7 DEF IInv

LEMMA ScanStep == ASSUME IInv, NEW r \in Round, Scan(r) PROVE IInv'
<1>1. /\ transfer' = Enqueued(transfer, r, FALSE)
      /\ UNCHANGED <<scrape, files, mishaps, clock, timeline, snapshot, reconciler, torrent, row,
                     emitted, handler>>
  BY DEF Scan, lifecycle, download
<1>2. /\ Queues' /\ Files' /\ TransferSteps' /\ ScrapeSteps' /\ NfoSubmitted'
      /\ TaggedMeansHandled' /\ mishaps' \in 0..MaxMishaps /\ Reconciling' /\ Lifecycle'
  BY <1>1, TransferEnqueued
<1>3. Downloads' /\ HandlerOK'
  BY <1>1 DEF IInv, Downloads, HandlerOK
<1> QED BY <1>2, <1>3 DEF IInv

-----------------------------------------------------------------------------
(* A worker of the transfer queue *)

\* One transfer task has changed that was not over.
LEMMA TransferChanged ==
    ASSUME IInv, NEW t \in Tasks, UNCHANGED scrape, Grown,
           transfer' \in [Tasks -> TransferTask], Attempted(transfer'),
           Others(transfer, t, transfer'), transfer[t].status \in {"queued", "running"},
           transfer'[t].pc \in {"scrape", "noted", "finish", "ack"} => placed'[t[1]] > 0,
           transfer'[t].pc \in {"finish", "ack", "noted"} => Submitted(t[1]),
           transfer'[t].pc = "noted" => transfer'[t].key \in {"scrape.queued"} \X Tasks \X Nat
    PROVE  /\ Queues' /\ TransferSteps'
           /\ \A r \in Round : Refused(transfer, r) => Refused(transfer', r)
<1>1. Queues'
  BY DEF IInv, Queues, Attempted
<1>2. TransferSteps'
  BY TaskRound DEF IInv, TransferSteps, Others, Submitted, Grown
<1>3. \A r \in Round : Refused(transfer, r) => Refused(transfer', r)
  BY CurrentTask DEF Refused, Dead, Over, Others
<1> QED BY <1>1, <1>2, <1>3

\* Neither the scrape queue nor the files have.
LEMMA ScrapeSame ==
    ASSUME IInv, UNCHANGED <<scrape, files>>
    PROVE  ScrapeSteps' /\ NfoSubmitted' /\ Files' /\ Grown
BY DEF IInv, ScrapeSteps, NfoSubmitted, files, Files, Submitted, Grown

LEMMA ReportKeeps ==
    ASSUME Lifecycle, UNCHANGED files, NEW t \in Tasks,
           NEW kind \in Kinds \ DescribedKinds, kind \in FiledKinds => placed[t[1]] > 0,
           Report(t, kind)
    PROVE  Lifecycle'
<1>1. CASE transfer[t].known
  <2> DEFINE key == <<kind, t, transfer[t].attempts>>
  <2>1. Note(key) /\ key[1] = kind
    BY <1>1 DEF Report
  <2> HIDE DEF key
  <2>2. CASE kind \in FiledKinds
    BY <2>1, <2>2, NoteFiled, TaskRound
  <2>3. CASE kind \notin FiledKinds
    BY <2>1, <2>3, NoteEarly
  <2> QED BY <2>2, <2>3
<1>2. CASE ~ transfer[t].known
  <2>1. UNCHANGED <<timeline, snapshot, clock>>
    BY <1>2 DEF Report, lifecycle
  <2>2. Grown
    BY DEF Grown, files
  <2> QED BY <2>1, <2>2, Silent DEF Lifecycle
<1> QED BY <1>1, <1>2

\* A task whose worker is at some step runs.
LEMMA Running ==
    ASSUME IInv, NEW t \in Tasks
    PROVE  /\ transfer[t].pc # "idle" => transfer[t].status = "running"
           /\ scrape[t].pc # "idle" => scrape[t].status = "running"
           /\ transfer \in [Tasks -> TaskOf(TransferStatus, TransferPc)] /\ Attempted(transfer)
           /\ scrape \in [Tasks -> TaskOf(ScrapeStatus, ScrapePc)] /\ Attempted(scrape)
           /\ transfer[t].key \in {<<>>} \cup ({"scrape.queued"} \X Tasks \X Nat)
           /\ scrape[t].key \in {<<>>} \cup ({"scrape.queued"} \X Tasks \X Nat)
<1>1. /\ transfer \in [Tasks -> TaskOf(TransferStatus, TransferPc)] /\ Attempted(transfer)
      /\ scrape \in [Tasks -> TaskOf(ScrapeStatus, ScrapePc)] /\ Attempted(scrape)
  BY DEF IInv, Queues, TransferTask, ScrapeTask
<1>2. transfer[t] \in TaskOf(TransferStatus, TransferPc)
      /\ scrape[t] \in TaskOf(ScrapeStatus, ScrapePc)
  BY <1>1
<1>3. /\ transfer[t].key \in {<<>>} \cup ({"scrape.queued"} \X Tasks \X Nat)
      /\ scrape[t].key \in {<<>>} \cup ({"scrape.queued"} \X Tasks \X Nat)
  BY <1>2 DEF TaskOf
<1> QED BY <1>1, <1>3 DEF Attempted

\* One transfer task moves on or begins, and only the lifecycle and the torrents follow it.
LEMMA TransferMoved ==
    ASSUME IInv, NEW t \in Tasks, UNCHANGED <<scrape, files, reconciler, row, emitted, handler>>,
           mishaps' \in 0..MaxMishaps, transfer' \in [Tasks -> TransferTask], Attempted(transfer'),
           Others(transfer, t, transfer'), transfer[t].status \in {"queued", "running"},
           transfer'[t].pc \in {"scrape", "noted", "finish", "ack"} => placed[t[1]] > 0,
           transfer'[t].pc \in {"finish", "ack", "noted"} => Submitted(t[1]),
           transfer'[t].pc = "noted" => transfer'[t].key \in {"scrape.queued"} \X Tasks \X Nat,
           Lifecycle',
           \/ UNCHANGED torrent
           \/ /\ torrent' = [torrent EXCEPT ![t[1]] = "tagged"]
              /\ placed[t[1]] > 0 /\ Submitted(t[1])
    PROVE  IInv'
<1>2. ScrapeSteps' /\ NfoSubmitted' /\ Files' /\ Grown
  BY ScrapeSame
<1>1. /\ Queues' /\ TransferSteps'
      /\ \A r \in Round : Refused(transfer, r) => Refused(transfer', r)
  BY <1>2, TransferChanged DEF files
<1>3. Downloads' /\ HandlerOK'
  BY TaskRound DEF IInv, Downloads, HandlerOK
<1>4. TaggedMeansHandled'
  <2>1. UNCHANGED <<placed, scrape>>
    BY DEF files
  <2>2. \A r \in Round : Submitted(r)' <=> Submitted(r)
    BY <2>1 DEF Submitted
  <2> SUFFICES ASSUME NEW r \in Round, torrent'[r] = "tagged"
               PROVE  (placed'[r] > 0 /\ Submitted(r)') \/ Refused(transfer', r)
    BY DEF TaggedMeansHandled
  <2>3. CASE torrent[r] = "tagged"
    BY <1>1, <2>1, <2>2, <2>3 DEF IInv, TaggedMeansHandled
  <2>4. CASE torrent[r] # "tagged"
    <3>1. r = t[1] /\ placed[r] > 0 /\ Submitted(r)
      BY <2>4, TaskRound DEF IInv, Downloads
    <3> QED BY <2>1, <2>2, <3>1
  <2> QED BY <2>3, <2>4
<1>5. Reconciling'
  BY <1>2, SamePass
<1> QED BY <1>1, <1>2, <1>3, <1>4, <1>5 DEF IInv

LEMMA SkipStep == ASSUME IInv, NEW t \in Tasks, Skip(t) PROVE IInv'
<1> DEFINE q == Ended(transfer, t, "skipped")
<1>1. /\ transfer' = q /\ transfer[t].status \in {"queued", "running"}
      /\ UNCHANGED <<scrape, files, mishaps, clock, timeline, snapshot, reconciler, torrent, row,
                     emitted, handler>>
  BY DEF Skip, Claimable, lifecycle, download
<1>2. "skipped" \in TransferStatus /\ "idle" \in TransferPc
  BY Words
<1>3. /\ q \in [Tasks -> TaskOf(TransferStatus, TransferPc)] /\ Attempted(q)
      /\ Others(transfer, t, q) /\ q[t].pc = "idle" /\ q[t].status = "skipped"
  BY <1>2, Running, EndedQueue
<1> HIDE DEF q
<1>4. Lifecycle'
  BY <1>1, ScrapeSame, Silent DEF IInv, Lifecycle
<1>5. mishaps' \in 0..MaxMishaps
  BY <1>1 DEF IInv
<1> QED BY <1>1, <1>3, <1>4, <1>5, TransferMoved DEF TransferTask

LEMMA AckTransferStep == ASSUME IInv, NEW t \in Tasks, AckTransfer(t) PROVE IInv'
<1> DEFINE q == Ended(transfer, t, "succeeded")
<1>1. /\ transfer' = q /\ transfer[t].status \in {"queued", "running"}
      /\ UNCHANGED <<scrape, files, mishaps, clock, timeline, snapshot, reconciler, torrent, row,
                     emitted, handler>>
  BY Running DEF AckTransfer, Claimable, lifecycle, download
<1>2. "succeeded" \in TransferStatus /\ "idle" \in TransferPc
  BY Words
<1>3. /\ q \in [Tasks -> TaskOf(TransferStatus, TransferPc)] /\ Attempted(q)
      /\ Others(transfer, t, q) /\ q[t].pc = "idle" /\ q[t].status = "succeeded"
  BY <1>2, Running, EndedQueue
<1> HIDE DEF q
<1>4. Lifecycle'
  BY <1>1, ScrapeSame, Silent DEF IInv, Lifecycle
<1>5. mishaps' \in 0..MaxMishaps
  BY <1>1 DEF IInv
<1> QED BY <1>1, <1>3, <1>4, <1>5, TransferMoved DEF TransferTask

LEMMA StartTransferStep == ASSUME IInv, NEW t \in Tasks, StartTransfer(t) PROVE IInv'
<1> DEFINE q == [Step(transfer, t, "process") EXCEPT ![t].status = "running"]
<1>1. /\ transfer' = q /\ Claimable(transfer, t) /\ Report(t, "transfer.started")
      /\ UNCHANGED <<scrape, files, mishaps, reconciler, torrent, row, emitted, handler>>
  BY DEF StartTransfer, download
<1>2. "running" \in TransferStatus /\ "process" \in TransferPc
  BY Words
<1>3. /\ q \in [Tasks -> TaskOf(TransferStatus, TransferPc)] /\ Attempted(q)
      /\ Others(transfer, t, q) /\ q[t].pc = "process" /\ q[t].status = "running"
  <2>1. transfer \in [Tasks -> TaskOf(TransferStatus, TransferPc)] /\ Attempted(transfer)
    BY Running
  <2> QED BY <1>1, <1>2, <2>1, StartQueue
<1> HIDE DEF q
<1>4. "transfer.started" \in Kinds \ DescribedKinds /\ "transfer.started" \notin FiledKinds
  BY DEF Kinds, DescribedKinds, FiledKinds
<1>5. Lifecycle'
  BY <1>1, <1>4, ReportKeeps DEF IInv
<1>6. mishaps' \in 0..MaxMishaps /\ transfer[t].status \in {"queued", "running"}
  BY <1>1 DEF IInv, Claimable
<1> QED BY <1>1, <1>3, <1>5, <1>6, TransferMoved DEF TransferTask

LEMMA TransferFailsStep == ASSUME IInv, NEW t \in Tasks, TransferFails(t) PROVE IInv'
<1> DEFINE q == Failed(transfer, t)
<1>1. /\ transfer' = q /\ transfer[t].pc = "process" /\ Report(t, "transfer.failed")
      /\ UNCHANGED <<scrape, files, reconciler, torrent, row, emitted, handler>>
  BY DEF TransferFails, download
<1>2. {"queued", "dead"} \subseteq TransferStatus /\ "idle" \in TransferPc
  BY Words
<1>3. transfer[t].status = "running"
  BY <1>1, Running
<1>4. /\ q \in [Tasks -> TaskOf(TransferStatus, TransferPc)] /\ Attempted(q)
      /\ Others(transfer, t, q) /\ q[t].pc = "idle" /\ q[t].status \in {"queued", "dead"}
  BY <1>2, <1>3, Running, FailedQueue
<1> HIDE DEF q
<1>5. "transfer.failed" \in Kinds \ DescribedKinds /\ "transfer.failed" \notin FiledKinds
  BY DEF Kinds, DescribedKinds, FiledKinds
<1>6. Lifecycle'
  BY <1>1, <1>5, ReportKeeps DEF IInv
<1>7. mishaps' \in 0..MaxMishaps
  BY MediaFlowAssumption DEF IInv, TransferFails, Mishap
<1> QED BY <1>1, <1>3, <1>4, <1>6, <1>7, TransferMoved DEF TransferTask

\* The file is there, with its metadata: whatever is told of it is so.
LEMMA IsThereKeeps ==
    ASSUME IInv, NEW r \in Round, IsThere(r), UNCHANGED files
    PROVE  Lifecycle'
<1>1. CASE Note(Reported)
  <2>1. Reported[1] \in Kinds
    BY DEF Reported, Kinds
  <2> QED BY <1>1, <2>1, NoteDescribed DEF IInv, IsThere
<1>2. CASE UNCHANGED lifecycle
  <2>1. Grown
    BY DEF Grown, files
  <2> QED BY <1>2, <2>1, Silent DEF IInv, Lifecycle, lifecycle
<1> QED BY <1>1, <1>2 DEF IsThere

LEMMA DuplicateStep == ASSUME IInv, NEW t \in Tasks, Duplicate(t) PROVE IInv'
<1>1. /\ transfer[t].pc = "process" /\ placed[t[1]] > 0
      /\ UNCHANGED <<scrape, files, mishaps, reconciler, torrent, row, emitted, handler>>
  BY DEF Duplicate, download
<1>2. transfer[t].status = "running" /\ t[1] \in Round
  BY <1>1, Running, TaskRound
<1>3. mishaps' \in 0..MaxMishaps
  BY <1>1 DEF IInv
<1>4. CASE transfer' = Step(transfer, t, "scrape") /\ UNCHANGED lifecycle
  <2> DEFINE q == Step(transfer, t, "scrape")
  <2>1. "scrape" \in TransferPc
    BY Words
  <2>2. /\ q \in [Tasks -> TaskOf(TransferStatus, TransferPc)] /\ Attempted(q)
        /\ Others(transfer, t, q)
        /\ q[t].pc = "scrape" /\ q[t].status = "running" /\ q[t].key = transfer[t].key
    <3>1. transfer \in [Tasks -> TaskOf(TransferStatus, TransferPc)] /\ Attempted(transfer)
      BY Running
    <3> QED BY <1>2, <2>1, <3>1, StepQueue
  <2> HIDE DEF q
  <2>3. Lifecycle'
    BY <1>1, <1>4, ScrapeSame, Silent DEF IInv, Lifecycle, lifecycle
  <2> QED BY <1>1, <1>2, <1>3, <1>4, <2>2, <2>3, TransferMoved DEF TransferTask, q
<1>5. CASE IsThere(t[1]) /\ transfer' = Step(transfer, t, "finish")
  <2> DEFINE q == Step(transfer, t, "finish")
  <2>1. "finish" \in TransferPc
    BY Words
  <2>2. /\ q \in [Tasks -> TaskOf(TransferStatus, TransferPc)] /\ Attempted(q)
        /\ Others(transfer, t, q)
        /\ q[t].pc = "finish" /\ q[t].status = "running" /\ q[t].key = transfer[t].key
    <3>1. transfer \in [Tasks -> TaskOf(TransferStatus, TransferPc)] /\ Attempted(transfer)
      BY Running
    <3> QED BY <1>2, <2>1, <3>1, StepQueue
  <2> HIDE DEF q
  <2>3. Lifecycle'
    BY <1>1, <1>2, <1>5, IsThereKeeps
  <2>4. Submitted(t[1])
    BY <1>2, <1>5 DEF IInv, NfoSubmitted, IsThere
  <2> QED BY <1>1, <1>2, <1>3, <1>5, <2>2, <2>3, <2>4, TransferMoved DEF TransferTask, q
<1> QED BY <1>4, <1>5 DEF Duplicate

LEMMA RecordScrapeStep == ASSUME IInv, NEW t \in Tasks, RecordScrape(t) PROVE IInv'
<1> DEFINE q == Keyed(transfer, t, "finish", <<>>)
<1>1. /\ transfer' = q /\ transfer[t].pc = "noted" /\ Note(transfer[t].key)
      /\ UNCHANGED <<scrape, files, mishaps, reconciler, torrent, row, emitted, handler>>
  BY DEF RecordScrape, download
<1>2. transfer[t].status = "running" /\ t[1] \in Round
  BY <1>1, Running, TaskRound
<1>3. placed[t[1]] > 0 /\ Submitted(t[1]) /\ transfer[t].key[1] = "scrape.queued"
  BY <1>1 DEF IInv, TransferSteps
<1>4. "finish" \in TransferPc
  BY Words
<1>5. /\ q \in [Tasks -> TaskOf(TransferStatus, TransferPc)] /\ Attempted(q)
      /\ Others(transfer, t, q)
      /\ q[t].pc = "finish" /\ q[t].status = "running" /\ q[t].key = <<>>
  <2>1. <<>> \in {<<>>} \cup ({"scrape.queued"} \X Tasks \X Nat)
    OBVIOUS
  <2>2. transfer \in [Tasks -> TaskOf(TransferStatus, TransferPc)] /\ Attempted(transfer)
    BY Running
  <2> QED BY <1>2, <1>4, <2>1, <2>2, KeyedQueue
<1> HIDE DEF q
<1>6. Lifecycle'
  <2>1. transfer[t].key[1] \in Kinds \ DescribedKinds
    BY <1>3 DEF Kinds, DescribedKinds
  <2> QED BY <1>1, <1>2, <1>3, <2>1, NoteFiled DEF IInv
<1>7. mishaps' \in 0..MaxMishaps
  BY <1>1 DEF IInv
<1> QED BY <1>1, <1>2, <1>3, <1>5, <1>6, <1>7, TransferMoved DEF TransferTask

LEMMA FinishTransferStep == ASSUME IInv, NEW t \in Tasks, FinishTransfer(t) PROVE IInv'
<1> DEFINE q == Step(transfer, t, "ack")
<1>1. /\ transfer' = q /\ transfer[t].pc = "finish" /\ Report(t, "transfer.completed")
      /\ torrent' = [torrent EXCEPT ![t[1]] = "tagged"]
      /\ UNCHANGED <<scrape, files, mishaps, reconciler, row, emitted, handler>>
  BY DEF FinishTransfer
<1>2. transfer[t].status = "running" /\ t[1] \in Round
  BY <1>1, Running, TaskRound
<1>3. placed[t[1]] > 0 /\ Submitted(t[1])
  BY <1>1 DEF IInv, TransferSteps
<1>4. "ack" \in TransferPc
  BY Words
<1>5. /\ q \in [Tasks -> TaskOf(TransferStatus, TransferPc)] /\ Attempted(q)
      /\ Others(transfer, t, q)
      /\ q[t].pc = "ack" /\ q[t].status = "running" /\ q[t].key = transfer[t].key
  <2>1. transfer \in [Tasks -> TaskOf(TransferStatus, TransferPc)] /\ Attempted(transfer)
    BY Running
  <2> QED BY <1>2, <1>4, <2>1, StepQueue
<1> HIDE DEF q
<1>6. "transfer.completed" \in Kinds \ DescribedKinds
  BY DEF Kinds, DescribedKinds
<1>7. Lifecycle'
  BY <1>1, <1>3, <1>6, ReportKeeps DEF IInv
<1>8. mishaps' \in 0..MaxMishaps
  BY <1>1 DEF IInv
<1> QED BY <1>1, <1>2, <1>3, <1>5, <1>7, <1>8, TransferMoved DEF TransferTask

\* What is placed, or not, is a time.
LEMMA PlaceStep == ASSUME IInv, NEW t \in Tasks, Place(t) PROVE IInv'
<1> DEFINE q == Step(transfer, t, "scrape")
<1>1. /\ transfer' = q /\ transfer[t].pc = "process" /\ clock' = clock + 1
      /\ placed' = [placed EXCEPT ![t[1]] = clock + 1]
      /\ UNCHANGED <<scrape, nfo, mishaps, reconciler, row, torrent, emitted, handler, timeline,
                     snapshot>>
  BY DEF Place, download
<1>2. transfer[t].status = "running" /\ t[1] \in Round
  BY <1>1, Running, TaskRound
<1>3. clock + 1 \in Nat \ {0}
  BY DEF IInv, Lifecycle
<1>4. placed' \in [Round -> Nat] /\ placed'[t[1]] > 0 /\ Grown
  BY <1>1, <1>2, <1>3 DEF IInv, Files, Grown
<1>5. "scrape" \in TransferPc
  BY Words
<1>6. /\ q \in [Tasks -> TaskOf(TransferStatus, TransferPc)] /\ Attempted(q)
      /\ Others(transfer, t, q)
      /\ q[t].pc = "scrape" /\ q[t].status = "running" /\ q[t].key = transfer[t].key
  <2>1. transfer \in [Tasks -> TaskOf(TransferStatus, TransferPc)] /\ Attempted(transfer)
    BY Running
  <2> QED BY <1>2, <1>5, <2>1, StepQueue
<1> HIDE DEF q
<1>7. /\ Queues' /\ TransferSteps'
      /\ \A r \in Round : Refused(transfer, r) => Refused(transfer', r)
  BY <1>1, <1>2, <1>4, <1>6, TransferChanged DEF TransferTask
<1>8. ScrapeSteps' /\ NfoSubmitted' /\ Files'
  BY <1>1, <1>4, TaskRound DEF IInv, ScrapeSteps, NfoSubmitted, Files, Submitted, Grown
<1>9. TaggedMeansHandled'
  BY <1>1, <1>4, <1>7 DEF IInv, TaggedMeansHandled, Submitted, Grown
<1>10. Lifecycle' /\ Reconciling' /\ Downloads' /\ HandlerOK'
  BY <1>1, <1>3, <1>4, Silent, SamePass DEF IInv, Downloads, HandlerOK
<1> QED BY <1>1, <1>7, <1>8, <1>9, <1>10 DEF IInv

-----------------------------------------------------------------------------
(* The scrape queue *)

\* A file in its place is submitted to be scraped.
LEMMA ScrapeEnqueued ==
    ASSUME IInv, NEW r \in Round, Grown, UNCHANGED nfo, placed' \in [Round -> Nat],
           placed'[r] > 0, NEW known \in BOOLEAN, scrape' = Enqueued(scrape, r, known)
    PROVE  /\ scrape' \in [Tasks -> ScrapeTask] /\ Attempted(scrape')
           /\ ScrapeSteps' /\ NfoSubmitted' /\ Files' /\ Submitted(r)'
           /\ \A x \in Round : Submitted(x) => Submitted(x)'
<1> DEFINE q == Enqueued(scrape, r, known)
<1>1. /\ q \in [Tasks -> TaskOf(ScrapeStatus, ScrapePc)] /\ Attempted(q)
      /\ q[<<r, 1>>].status # "none"
      /\ \A t \in Tasks :
            /\ q[t].pc = scrape[t].pc /\ q[t].key = scrape[t].key
            /\ scrape[t].status # "none" => q[t].status = scrape[t].status
            /\ q[t].status # "none" => scrape[t].status # "none" \/ t[1] = r
  <2>1. scrape \in [Tasks -> TaskOf(ScrapeStatus, ScrapePc)] /\ Attempted(scrape)
    BY DEF IInv, Queues, ScrapeTask
  <2>2. "queued" \in ScrapeStatus
    BY Words
  <2> QED BY <2>1, <2>2, EnqueuedQueue
<1>2. scrape' = q
  OBVIOUS
<1> HIDE DEF q
<1>3. Submitted(r)' /\ \A x \in Round : Submitted(x) => Submitted(x)'
  BY <1>1, <1>2, CurrentTask DEF Submitted
<1>4. ScrapeSteps'
  <2> SUFFICES ASSUME NEW s \in Tasks
               PROVE  /\ scrape'[s].status # "none" => placed'[s[1]] > 0 /\ Submitted(s[1])'
                      /\ scrape'[s].pc \in {"scraped", "present", "ack"} => nfo'[s[1]] > 0
    BY DEF ScrapeSteps
  <2>1. CASE scrape[s].status # "none"
    BY <1>1, <1>2, <1>3, <2>1, TaskRound DEF IInv, ScrapeSteps, Grown
  <2>2. CASE scrape[s].status = "none"
    BY <1>1, <1>2, <1>3, <2>2 DEF IInv, ScrapeSteps
  <2> QED BY <2>1, <2>2
<1>5. NfoSubmitted' /\ Files'
  BY <1>3 DEF IInv, NfoSubmitted, Files, Grown
<1> QED BY <1>1, <1>2, <1>3, <1>4, <1>5 DEF ScrapeTask

\* What the queue refuses was submitted before.
LEMMA ThreadKeeps ==
    ASSUME IInv, NEW r \in Round, Refused(scrape, r), ScrapeInThread(r),
           placed' \in [Round -> Nat], placed'[r] > 0,
           \A x \in Round : placed[x] > 0 => placed'[x] > 0
    PROVE  /\ ScrapeSteps' /\ NfoSubmitted' /\ Files' /\ Submitted(r)' /\ Grown /\ Lifecycle'
           /\ scrape' = scrape
<1>1. scrape' = scrape /\ timeline' = timeline /\ snapshot' = snapshot
  BY DEF ScrapeInThread
<1>2. Submitted(r)
  BY DEF Refused, Dead, Submitted
<1>3. /\ nfo' \in [Round -> Nat] /\ clock' \in Nat \ {0}
      /\ \A x \in Round : nfo[x] > 0 => nfo'[x] > 0
      /\ \A x \in Round : nfo'[x] > 0 => nfo[x] > 0 \/ x = r
  <2>1. CASE UNCHANGED <<clock, nfo>>
    BY <2>1 DEF IInv, Files, Lifecycle
  <2>2. CASE nfo' = [nfo EXCEPT ![r] = clock + 1] /\ clock' = clock + 1
    <3>1. clock + 1 \in Nat \ {0}
      BY DEF IInv, Lifecycle
    <3> QED BY <2>2, <3>1 DEF IInv, Files
  <2> QED BY <2>1, <2>2 DEF ScrapeInThread
<1>4. Grown /\ Files'
  BY <1>3 DEF Grown, Files
<1>5. ScrapeSteps' /\ NfoSubmitted' /\ Submitted(r)'
  BY <1>1, <1>2, <1>3, TaskRound DEF IInv, ScrapeSteps, NfoSubmitted, Submitted
<1>6. Lifecycle'
  BY <1>1, <1>3, <1>4, Silent DEF IInv
<1> QED BY <1>1, <1>4, <1>5, <1>6

\* Both queues have changed, the transfer queue in the task that submitted.
LEMMA SubmittedStep ==
    ASSUME IInv, NEW t \in Tasks, UNCHANGED <<placed, reconciler, torrent>>,
           mishaps' \in 0..MaxMishaps, Downloads', HandlerOK', Lifecycle', Grown,
           ScrapeSteps', NfoSubmitted', Files', Submitted(t[1])', placed'[t[1]] > 0,
           \A x \in Round : Submitted(x) => Submitted(x)',
           transfer' \in [Tasks -> TransferTask], Attempted(transfer'),
           Others(transfer, t, transfer'), transfer[t].status = "running",
           transfer'[t].pc = "noted" => transfer'[t].key \in {"scrape.queued"} \X Tasks \X Nat,
           scrape' \in [Tasks -> ScrapeTask], Attempted(scrape')
    PROVE  IInv'
<1>1. Queues'
  BY DEF Queues, Attempted
<1>2. TransferSteps'
  BY TaskRound DEF IInv, TransferSteps, Others, Grown
<1>3. \A r \in Round : Refused(transfer, r) => Refused(transfer', r)
  BY CurrentTask DEF Refused, Dead, Over, Others
<1>4. TaggedMeansHandled'
  BY <1>3 DEF IInv, TaggedMeansHandled
<1>5. Reconciling'
  BY SamePass
<1> QED BY <1>1, <1>2, <1>4, <1>5 DEF IInv

LEMMA SubmitScrapeStep == ASSUME IInv, NEW t \in Tasks, SubmitScrape(t) PROVE IInv'
<1> DEFINE r == t[1]
           s == Current(scrape, r)
<1>1. /\ transfer[t].pc = "scrape"
      /\ UNCHANGED <<mishaps, reconciler, torrent, row, emitted, handler, placed>>
  BY DEF SubmitScrape, download
<1>2. transfer[t].status = "running" /\ r \in Round
  BY <1>1, Running, TaskRound
<1>3. placed'[r] > 0 /\ placed' \in [Round -> Nat] /\ placed[r] > 0
      /\ \A x \in Round : placed[x] > 0 => placed'[x] > 0
  BY <1>1 DEF IInv, TransferSteps, Files
<1>4. mishaps' \in 0..MaxMishaps /\ Downloads' /\ HandlerOK'
  BY <1>1 DEF IInv, Downloads, HandlerOK
<1>5. CASE Refused(scrape, r)
  <2> DEFINE q == Step(transfer, t, "finish")
  <2>1. transfer' = q /\ ScrapeInThread(r)
    BY <1>5 DEF SubmitScrape
  <2>2. "finish" \in TransferPc
    BY Words
  <2>3. /\ q \in [Tasks -> TaskOf(TransferStatus, TransferPc)] /\ Attempted(q)
        /\ Others(transfer, t, q)
        /\ q[t].pc = "finish" /\ q[t].status = "running" /\ q[t].key = transfer[t].key
    <3>1. transfer \in [Tasks -> TaskOf(TransferStatus, TransferPc)] /\ Attempted(transfer)
      BY Running
    <3> QED BY <1>2, <2>2, <3>1, StepQueue
  <2> HIDE DEF q, r
  <2>4. /\ ScrapeSteps' /\ NfoSubmitted' /\ Files' /\ Submitted(r)' /\ Grown /\ Lifecycle'
        /\ scrape' = scrape
    BY <1>2, <1>3, <1>5, <2>1, ThreadKeeps
  <2>5. /\ scrape' \in [Tasks -> ScrapeTask] /\ Attempted(scrape')
        /\ \A x \in Round : Submitted(x) => Submitted(x)'
    BY <2>4 DEF IInv, Queues, Attempted, Submitted
  <2>6. q \in [Tasks -> TransferTask] /\ q[t].pc # "noted"
    BY <2>3 DEF TransferTask
  <2> QED BY <1>1, <1>2, <1>3, <1>4, <2>1, <2>3, <2>4, <2>5, <2>6, SubmittedStep DEF r
<1>6. CASE ~ Refused(scrape, r)
  <2> DEFINE key == <<"scrape.queued", s, scrape[s].attempts>>
             q == Keyed(transfer, t, "noted", key)
             known == TRUE
  <2>1. transfer' = q /\ scrape' = Enqueued(scrape, r, known)
        /\ UNCHANGED <<clock, timeline, snapshot, nfo>>
    BY <1>6 DEF SubmitScrape, lifecycle
  <2>2. "noted" \in TransferPc /\ known \in BOOLEAN
    BY Words
  <2>3. key \in {<<>>} \cup ({"scrape.queued"} \X Tasks \X Nat)
    <3>1. s \in Tasks
      BY <1>2, CurrentTask
    <3>2. scrape[s].attempts \in Nat
      <4> HIDE DEF s
      <4> QED BY <3>1, MediaFlowAssumption DEF IInv, Queues, ScrapeTask, TaskOf
    <3> QED BY <3>1, <3>2
  <2>4. key \in {"scrape.queued"} \X Tasks \X Nat
    BY <2>3
  <2> HIDE DEF key, known
  <2>5. /\ q \in [Tasks -> TaskOf(TransferStatus, TransferPc)] /\ Attempted(q)
        /\ Others(transfer, t, q)
        /\ q[t].pc = "noted" /\ q[t].status = "running" /\ q[t].key = key
    <3>1. transfer \in [Tasks -> TaskOf(TransferStatus, TransferPc)] /\ Attempted(transfer)
      BY Running
    <3> QED BY <1>2, <2>2, <2>3, <3>1, KeyedQueue
  <2> HIDE DEF q, r
  <2>6. Grown
    BY <1>3, <2>1 DEF Grown
  <2>7. /\ scrape' \in [Tasks -> ScrapeTask] /\ Attempted(scrape')
        /\ ScrapeSteps' /\ NfoSubmitted' /\ Files' /\ Submitted(r)'
        /\ \A x \in Round : Submitted(x) => Submitted(x)'
    BY <1>2, <1>3, <2>1, <2>2, <2>6, ScrapeEnqueued
  <2>8. Lifecycle'
    BY <2>1, <2>6, Silent DEF IInv, Lifecycle
  <2> QED BY <1>1, <1>2, <1>3, <1>4, <2>1, <2>4, <2>5, <2>6, <2>7, <2>8, SubmittedStep
          DEF TransferTask, r
<1> QED BY <1>5, <1>6

-----------------------------------------------------------------------------
(* A worker of the scrape queue *)

\* One scrape task moves on or begins, and with it only the metadata of its round.
LEMMA ScrapeMoved ==
    ASSUME IInv, NEW s \in Tasks,
           UNCHANGED <<transfer, placed, reconciler, row, torrent, emitted, handler>>,
           mishaps' \in 0..MaxMishaps, scrape' \in [Tasks -> ScrapeTask], Attempted(scrape'),
           Others(scrape, s, scrape'), scrape[s].status \in {"queued", "running"},
           scrape'[s].status # "none", nfo' \in [Round -> Nat],
           \A x \in Round : nfo[x] > 0 => nfo'[x] > 0,
           \A x \in Round : nfo'[x] > 0 => nfo[x] > 0 \/ x = s[1],
           scrape'[s].pc \in {"scraped", "present", "ack"} => nfo'[s[1]] > 0,
           Lifecycle'
    PROVE  IInv'
<1>1. Grown
  BY DEF Grown
<1>2. Queues'
  BY DEF IInv, Queues, Attempted
<1>3. \A x \in Round : Submitted(x) => Submitted(x)'
  BY CurrentTask DEF Submitted, Others
<1>4. placed[s[1]] > 0 /\ Submitted(s[1])
  BY DEF IInv, ScrapeSteps
<1>5. ScrapeSteps'
  <2> SUFFICES ASSUME NEW u \in Tasks
               PROVE  /\ scrape'[u].status # "none" => placed'[u[1]] > 0 /\ Submitted(u[1])'
                      /\ scrape'[u].pc \in {"scraped", "present", "ack"} => nfo'[u[1]] > 0
    BY DEF ScrapeSteps
  <2>1. CASE u = s
    BY <1>3, <1>4, <2>1, TaskRound
  <2>2. CASE u # s
    BY <1>3, <2>2, TaskRound DEF IInv, ScrapeSteps, Others
  <2> QED BY <2>1, <2>2
<1>6. NfoSubmitted' /\ Files'
  BY <1>3, <1>4 DEF IInv, NfoSubmitted, Files
<1>7. TransferSteps'
  BY <1>3, TaskRound DEF IInv, TransferSteps
<1>8. TaggedMeansHandled'
  BY <1>3 DEF IInv, TaggedMeansHandled, Refused, Dead, Over
<1>9. Reconciling' /\ Downloads' /\ HandlerOK'
  BY <1>1, SamePass DEF IInv, Downloads, HandlerOK
<1> QED BY <1>2, <1>5, <1>6, <1>7, <1>8, <1>9 DEF IInv

\* A worker of the scrape queue reports on a file that is in its place.
LEMMA NoteScrapeKeeps ==
    ASSUME IInv, UNCHANGED files, NEW s \in Tasks, scrape[s].status # "none",
           NEW kind \in Kinds, kind \in DescribedKinds => nfo[s[1]] > 0, NoteScrape(s, kind)
    PROVE  Lifecycle'
<1> DEFINE key == <<kind, s, scrape[s].attempts>>
<1>1. Note(key) /\ key[1] = kind
  BY DEF NoteScrape
<1>2. s[1] \in Round /\ placed[s[1]] > 0
  BY TaskRound DEF IInv, ScrapeSteps
<1> HIDE DEF key
<1>3. CASE kind \in DescribedKinds
  BY <1>1, <1>2, <1>3, NoteDescribed DEF IInv
<1>4. CASE kind \notin DescribedKinds
  BY <1>1, <1>2, <1>4, NoteFiled DEF IInv
<1> QED BY <1>3, <1>4

\* The worker takes a step, and only tells of it.
LEMMA ScrapeStepped ==
    ASSUME IInv, NEW s \in Tasks,
           UNCHANGED <<transfer, files, reconciler, row, torrent, emitted, handler, mishaps>>,
           NEW kind \in Kinds, kind \in DescribedKinds => nfo[s[1]] > 0, NoteScrape(s, kind),
           scrape[s].status = "running", NEW pc \in ScrapePc, nfo[s[1]] > 0,
           scrape' = Step(scrape, s, pc)
    PROVE  IInv'
<1> DEFINE q == Step(scrape, s, pc)
<1>1. /\ q \in [Tasks -> TaskOf(ScrapeStatus, ScrapePc)] /\ Attempted(q)
      /\ Others(scrape, s, q)
      /\ q[s].pc = pc /\ q[s].status = "running" /\ q[s].key = scrape[s].key
  <2>1. scrape \in [Tasks -> TaskOf(ScrapeStatus, ScrapePc)] /\ Attempted(scrape)
    BY Running
  <2> QED BY <2>1, StepQueue
<1>2. scrape' = q
  OBVIOUS
<1> HIDE DEF q
<1>3. Lifecycle'
  BY NoteScrapeKeeps
<1>4. placed' = placed /\ nfo' = nfo /\ nfo \in [Round -> Nat] /\ mishaps' \in 0..MaxMishaps
  BY DEF IInv, Files, files
<1> QED BY <1>1, <1>2, <1>3, <1>4, ScrapeMoved DEF ScrapeTask

LEMMA RecordScrapedStep == ASSUME IInv, NEW s \in Tasks, RecordScraped(s) PROVE IInv'
<1>1. /\ scrape[s].pc = "scraped" /\ NoteScrape(s, "scrape.completed")
      /\ scrape' = Step(scrape, s, "present")
      /\ UNCHANGED <<transfer, files, reconciler, row, torrent, emitted, handler, mishaps>>
  BY DEF RecordScraped, download
<1>2. nfo[s[1]] > 0 /\ scrape[s].status = "running"
  BY <1>1, Running DEF IInv, ScrapeSteps
<1>3. "present" \in ScrapePc /\ "scrape.completed" \in Kinds
  BY Words DEF Kinds
<1> QED BY <1>1, <1>2, <1>3, ScrapeStepped

LEMMA RecordPresentStep == ASSUME IInv, NEW s \in Tasks, RecordPresent(s) PROVE IInv'
<1>1. /\ scrape[s].pc = "present" /\ NoteScrape(s, "library.present")
      /\ scrape' = Step(scrape, s, "ack")
      /\ UNCHANGED <<transfer, files, reconciler, row, torrent, emitted, handler, mishaps>>
  BY DEF RecordPresent, download
<1>2. nfo[s[1]] > 0 /\ scrape[s].status = "running"
  BY <1>1, Running DEF IInv, ScrapeSteps
<1>3. "ack" \in ScrapePc /\ "library.present" \in Kinds
  BY Words DEF Kinds
<1> QED BY <1>1, <1>2, <1>3, ScrapeStepped

LEMMA StartScrapeStep == ASSUME IInv, NEW s \in Tasks, StartScrape(s) PROVE IInv'
<1> DEFINE q == [Step(scrape, s, "write") EXCEPT ![s].status = "running"]
<1>1. /\ scrape' = q /\ Claimable(scrape, s) /\ NoteScrape(s, "scrape.started")
      /\ UNCHANGED <<transfer, files, reconciler, row, torrent, emitted, handler, mishaps>>
  BY DEF StartScrape, download
<1>2. "running" \in ScrapeStatus /\ "write" \in ScrapePc
  BY Words
<1>3. /\ q \in [Tasks -> TaskOf(ScrapeStatus, ScrapePc)] /\ Attempted(q)
      /\ Others(scrape, s, q) /\ q[s].pc = "write" /\ q[s].status = "running"
  <2>1. scrape \in [Tasks -> TaskOf(ScrapeStatus, ScrapePc)] /\ Attempted(scrape)
    BY Running
  <2> QED BY <1>1, <1>2, <2>1, StartQueue
<1> HIDE DEF q
<1>4. "scrape.started" \in Kinds \ DescribedKinds /\ scrape[s].status \in {"queued", "running"}
  BY <1>1 DEF Kinds, DescribedKinds, Claimable
<1>5. Lifecycle'
  BY <1>1, <1>4, NoteScrapeKeeps
<1>6. placed' = placed /\ nfo' = nfo /\ nfo \in [Round -> Nat] /\ mishaps' \in 0..MaxMishaps
  BY <1>1 DEF IInv, Files, files
<1> QED BY <1>1, <1>3, <1>4, <1>5, <1>6, ScrapeMoved DEF ScrapeTask

LEMMA ScrapeFailsStep == ASSUME IInv, NEW s \in Tasks, ScrapeFails(s) PROVE IInv'
<1> DEFINE q == Failed(scrape, s)
<1>1. /\ scrape' = q /\ scrape[s].pc = "write" /\ NoteScrape(s, "scrape.failed")
      /\ UNCHANGED <<transfer, files, reconciler, row, torrent, emitted, handler>>
  BY DEF ScrapeFails, download
<1>2. {"queued", "dead"} \subseteq ScrapeStatus /\ "idle" \in ScrapePc
  BY Words
<1>3. scrape[s].status = "running"
  BY <1>1, Running
<1>4. /\ q \in [Tasks -> TaskOf(ScrapeStatus, ScrapePc)] /\ Attempted(q)
      /\ Others(scrape, s, q) /\ q[s].pc = "idle" /\ q[s].status \in {"queued", "dead"}
  BY <1>2, <1>3, Running, FailedQueue
<1> HIDE DEF q
<1>5. "scrape.failed" \in Kinds \ DescribedKinds
  BY DEF Kinds, DescribedKinds
<1>6. Lifecycle'
  BY <1>1, <1>3, <1>5, NoteScrapeKeeps
<1>7. placed' = placed /\ nfo' = nfo /\ nfo \in [Round -> Nat]
  BY <1>1 DEF IInv, Files, files
<1>8. mishaps' \in 0..MaxMishaps
  BY MediaFlowAssumption DEF IInv, ScrapeFails, Mishap
<1> QED BY <1>1, <1>3, <1>4, <1>6, <1>7, <1>8, ScrapeMoved DEF ScrapeTask

LEMMA AckScrapeStep == ASSUME IInv, NEW s \in Tasks, AckScrape(s) PROVE IInv'
<1> DEFINE q == Ended(scrape, s, "succeeded")
<1>1. /\ scrape' = q /\ scrape[s].pc = "ack"
      /\ UNCHANGED <<transfer, files, reconciler, row, torrent, emitted, handler, mishaps, clock,
                     timeline, snapshot>>
  BY DEF AckScrape, download, lifecycle
<1>2. "succeeded" \in ScrapeStatus /\ "idle" \in ScrapePc
  BY Words
<1>3. /\ q \in [Tasks -> TaskOf(ScrapeStatus, ScrapePc)] /\ Attempted(q)
      /\ Others(scrape, s, q) /\ q[s].pc = "idle" /\ q[s].status = "succeeded"
  <2>1. scrape \in [Tasks -> TaskOf(ScrapeStatus, ScrapePc)] /\ Attempted(scrape)
    BY Running
  <2> QED BY <1>2, <2>1, EndedQueue
<1> HIDE DEF q
<1>4. placed' = placed /\ nfo' = nfo /\ nfo \in [Round -> Nat] /\ mishaps' \in 0..MaxMishaps
      /\ scrape[s].status = "running"
  BY <1>1, Running DEF IInv, Files, files
<1>5. Grown
  BY <1>4 DEF Grown
<1>6. Lifecycle'
  BY <1>1, <1>5, Silent DEF IInv, Lifecycle
<1> QED BY <1>1, <1>3, <1>4, <1>6, ScrapeMoved DEF ScrapeTask

LEMMA WriteNfoStep == ASSUME IInv, NEW s \in Tasks, WriteNfo(s) PROVE IInv'
<1> DEFINE q == Step(scrape, s, "scraped")
<1>1. /\ scrape' = q /\ scrape[s].pc = "write"
      /\ nfo' = [nfo EXCEPT ![s[1]] = IF @ = 0 THEN clock + 1 ELSE @]
      /\ clock' \in {clock, clock + 1}
      /\ UNCHANGED <<transfer, placed, reconciler, row, torrent, emitted, handler, mishaps,
                     timeline, snapshot>>
  BY DEF WriteNfo, download
<1>2. "scraped" \in ScrapePc /\ scrape[s].status = "running" /\ s[1] \in Round
  BY <1>1, Words, Running, TaskRound
<1>3. /\ q \in [Tasks -> TaskOf(ScrapeStatus, ScrapePc)] /\ Attempted(q)
      /\ Others(scrape, s, q)
      /\ q[s].pc = "scraped" /\ q[s].status = "running" /\ q[s].key = scrape[s].key
  <2>1. scrape \in [Tasks -> TaskOf(ScrapeStatus, ScrapePc)] /\ Attempted(scrape)
    BY Running
  <2> QED BY <1>2, <2>1, StepQueue
<1> HIDE DEF q
<1>4. clock \in Nat \ {0} /\ clock + 1 \in Nat \ {0} /\ nfo \in [Round -> Nat]
      /\ mishaps' \in 0..MaxMishaps
  BY <1>1 DEF IInv, Lifecycle, Files
<1>5. /\ nfo' \in [Round -> Nat] /\ nfo'[s[1]] > 0
      /\ \A x \in Round : nfo[x] > 0 => nfo'[x] > 0
      /\ \A x \in Round : nfo'[x] > 0 => nfo[x] > 0 \/ x = s[1]
  BY <1>1, <1>2, <1>4
<1>6. Grown
  BY <1>1, <1>5 DEF Grown
<1>7. Lifecycle'
  BY <1>1, <1>4, <1>6, Silent DEF IInv
<1> QED BY <1>1, <1>2, <1>3, <1>4, <1>5, <1>7, ScrapeMoved DEF ScrapeTask

-----------------------------------------------------------------------------
(* On the spot, and after a crash *)

\* The file is submitted to be scraped with its record, by the queue or by a thread.
LEMMA SubmitAndRecordKeeps ==
    ASSUME IInv, NEW r \in Round, SubmitAndRecord(r),
           placed' \in [Round -> Nat], placed'[r] > 0,
           \A x \in Round : placed[x] > 0 => placed'[x] > 0
    PROVE  /\ scrape' \in [Tasks -> ScrapeTask] /\ Attempted(scrape')
           /\ ScrapeSteps' /\ NfoSubmitted' /\ Files' /\ Submitted(r)' /\ Grown /\ Lifecycle'
           /\ \A x \in Round : Submitted(x) => Submitted(x)'
<1> DEFINE s == Current(scrape, r)
           key == <<"scrape.queued", s, scrape[s].attempts>>
           known == TRUE
<1>1. CASE Refused(scrape, r)
  <2>1. ScrapeInThread(r)
    BY <1>1 DEF SubmitAndRecord
  <2>2. /\ ScrapeSteps' /\ NfoSubmitted' /\ Files' /\ Submitted(r)' /\ Grown /\ Lifecycle'
        /\ scrape' = scrape
    BY <1>1, <2>1, ThreadKeeps
  <2> QED BY <2>2 DEF IInv, Queues, Attempted, Submitted
<1>2. CASE ~ Refused(scrape, r)
  <2>1. scrape' = Enqueued(scrape, r, known) /\ Note(key) /\ UNCHANGED nfo
        /\ key[1] = "scrape.queued" /\ known \in BOOLEAN
    BY <1>2 DEF SubmitAndRecord
  <2> HIDE DEF key, known
  <2>2. Grown
    BY <2>1 DEF Grown
  <2>3. /\ scrape' \in [Tasks -> ScrapeTask] /\ Attempted(scrape')
        /\ ScrapeSteps' /\ NfoSubmitted' /\ Files' /\ Submitted(r)'
        /\ \A x \in Round : Submitted(x) => Submitted(x)'
    BY <2>1, <2>2, ScrapeEnqueued
  <2>4. key[1] \in Kinds \ DescribedKinds
    BY <2>1 DEF Kinds, DescribedKinds
  <2>5. Lifecycle'
    BY <2>1, <2>2, <2>4, NotePlaced DEF IInv
  <2> QED BY <2>2, <2>3, <2>5
<1> QED BY <1>1, <1>2

\* What is transferred on the spot is tagged, and the queue has refused it.
LEMMA DirectKeeps ==
    ASSUME IInv, NEW r \in Round, Direct(r), HandlerOK' PROVE IInv'
<1>1. /\ Refused(transfer, r) /\ torrent' = [torrent EXCEPT ![r] = "tagged"]
      /\ UNCHANGED <<row, emitted, transfer, reconciler>>
  BY DEF Direct, OnTheSpot
<1>2. Downloads'
  BY <1>1 DEF IInv, Downloads
<1>3. /\ scrape' \in [Tasks -> ScrapeTask] /\ Attempted(scrape')
      /\ ScrapeSteps' /\ NfoSubmitted' /\ Files' /\ Grown /\ Lifecycle'
      /\ \A x \in Round : Submitted(x) => Submitted(x)'
      /\ mishaps' \in 0..MaxMishaps
  <2>1. CASE /\ placed' = [placed EXCEPT ![r] = IF @ = 0 THEN clock ELSE @]
             /\ SubmitAndRecord(r) /\ UNCHANGED mishaps
    <3>1. clock \in Nat \ {0} /\ placed \in [Round -> Nat] /\ mishaps' \in 0..MaxMishaps
      BY <2>1 DEF IInv, Lifecycle, Files
    <3>2. /\ placed' \in [Round -> Nat] /\ placed'[r] > 0
          /\ \A x \in Round : placed[x] > 0 => placed'[x] > 0
      BY <2>1, <3>1
    <3> QED BY <2>1, <3>1, <3>2, SubmitAndRecordKeeps
  <2>2. CASE IsThere(r) /\ UNCHANGED <<placed, nfo, scrape, mishaps>>
    <3>1. UNCHANGED files
      BY <2>2 DEF files
    <3>2. ScrapeSteps' /\ NfoSubmitted' /\ Files' /\ Grown /\ Lifecycle'
      BY <2>2, <3>1, ScrapeSame, IsThereKeeps
    <3> QED BY <2>2, <3>2 DEF IInv, Queues, Attempted, Submitted
  <2>3. CASE Mishap("transfer") /\ UNCHANGED <<lifecycle, files, scrape>>
    <3>1. ScrapeSteps' /\ NfoSubmitted' /\ Files' /\ Grown
      BY <2>3, ScrapeSame
    <3>2. Lifecycle'
      BY <2>3, <3>1, Silent DEF IInv, Lifecycle, lifecycle
    <3>3. mishaps' \in 0..MaxMishaps
      BY <2>3, MediaFlowAssumption DEF IInv, Mishap
    <3> QED BY <2>3, <3>1, <3>2, <3>3 DEF IInv, Queues, Attempted, Submitted
  <2> QED BY <2>1, <2>2, <2>3 DEF Direct, OnTheSpot
<1>4. Queues'
  BY <1>1, <1>3 DEF IInv, Queues, Attempted
<1>5. TransferSteps'
  BY <1>1, <1>3, TaskRound DEF IInv, TransferSteps, Grown
<1>6. TaggedMeansHandled'
  BY <1>1, <1>3 DEF IInv, TaggedMeansHandled, Downloads, Refused, Dead, Over, Grown
<1>7. Reconciling'
  BY <1>1, <1>3, SamePass
<1> QED BY <1>2, <1>3, <1>4, <1>5, <1>6, <1>7 DEF IInv

LEMMA HandlerDirectStep == ASSUME IInv, HandlerDirect PROVE IInv'
<1>1. handler.round \in Round
  BY DEF IInv, HandlerOK, HandlerDirect, Resting
<1>2. HandlerOK' /\ Direct(handler.round)
  BY DEF HandlerDirect, HandlerOK
<1> DEFINE r == handler.round
<1> HIDE DEF r
<1>3. r \in Round /\ Direct(r)
  BY <1>1, <1>2 DEF r
<1> QED BY <1>2, <1>3, DirectKeeps

LEMMA ScanDirectStep == ASSUME IInv, NEW r \in Round, ScanDirect(r) PROVE IInv'
<1>1. HandlerOK' /\ Direct(r)
  BY DEF IInv, HandlerOK, ScanDirect
<1> QED BY <1>1, DirectKeeps

\* Only the steps of the workers are lost.
LEMMA CrashStep == ASSUME IInv, Crash PROVE IInv'
<1>1. /\ emitted' \subseteq Round /\ handler' = Resting /\ pass' = {}
      /\ transfer' = [t \in Tasks |-> [transfer[t] EXCEPT !.pc = "idle", !.key = <<>>]]
      /\ scrape' = [s \in Tasks |-> [scrape[s] EXCEPT !.pc = "idle"]]
      /\ UNCHANGED <<clock, timeline, snapshot, row, torrent, files, found>>
  BY DEF Crash, lifecycle
<1>2. /\ Grown /\ Files' /\ Downloads' /\ HandlerOK' /\ Reconciling'
  BY <1>1 DEF IInv, Grown, files, Files, Downloads, HandlerOK, Reconciling
<1>3. Lifecycle' /\ mishaps' \in 0..MaxMishaps
  <2>1. mishaps' \in 0..MaxMishaps
    <3>1. mishaps < MaxMishaps /\ mishaps' = mishaps + 1
      BY DEF Crash, Mishap
    <3> QED BY <3>1, MediaFlowAssumption DEF IInv
  <2>2. Lifecycle'
    BY <1>1, <1>2, Silent DEF IInv, Lifecycle
  <2> QED BY <2>1, <2>2
<1>4. \A t \in Tasks :
        /\ transfer'[t] \in TransferTask /\ transfer'[t].status = transfer[t].status
        /\ transfer'[t].attempts = transfer[t].attempts /\ transfer'[t].pc = "idle"
  <2> SUFFICES ASSUME NEW t \in Tasks
               PROVE  /\ transfer'[t] \in TransferTask
                      /\ transfer'[t].status = transfer[t].status
                      /\ transfer'[t].attempts = transfer[t].attempts
                      /\ transfer'[t].pc = "idle"
    OBVIOUS
  <2>1. transfer'[t] = [transfer[t] EXCEPT !.pc = "idle", !.key = <<>>]
    BY <1>1
  <2>2. transfer[t] \in TaskOf(TransferStatus, TransferPc) /\ "idle" \in TransferPc
    BY Words, Running
  <2> DEFINE a == [transfer[t] EXCEPT !.pc = "idle", !.key = <<>>]
  <2>3. /\ a \in TaskOf(TransferStatus, TransferPc) /\ a.status = transfer[t].status
        /\ a.attempts = transfer[t].attempts /\ a.pc = "idle"
    BY <2>2 DEF TaskOf
  <2> HIDE DEF a
  <2> QED BY <2>1, <2>3 DEF TransferTask, a
<1>5. \A s \in Tasks :
        /\ scrape'[s] \in ScrapeTask /\ scrape'[s].status = scrape[s].status
        /\ scrape'[s].attempts = scrape[s].attempts /\ scrape'[s].pc = "idle"
  <2> SUFFICES ASSUME NEW s \in Tasks
               PROVE  /\ scrape'[s] \in ScrapeTask
                      /\ scrape'[s].status = scrape[s].status
                      /\ scrape'[s].attempts = scrape[s].attempts
                      /\ scrape'[s].pc = "idle"
    OBVIOUS
  <2>1. scrape'[s] = [scrape[s] EXCEPT !.pc = "idle"]
    BY <1>1
  <2>2. scrape[s] \in TaskOf(ScrapeStatus, ScrapePc) /\ "idle" \in ScrapePc
    BY Words, Running
  <2> DEFINE a == [scrape[s] EXCEPT !.pc = "idle"]
  <2>3. /\ a \in TaskOf(ScrapeStatus, ScrapePc) /\ a.status = scrape[s].status
        /\ a.attempts = scrape[s].attempts /\ a.pc = "idle"
    BY <2>2 DEF TaskOf
  <2> HIDE DEF a
  <2> QED BY <2>1, <2>3 DEF ScrapeTask, a
<1>6. Queues'
  <2>1. transfer' \in [Tasks -> TransferTask] /\ scrape' \in [Tasks -> ScrapeTask]
    BY <1>1, <1>4, <1>5
  <2> QED BY <1>4, <1>5, <2>1 DEF IInv, Queues, Attempted
<1>7. \A r \in Round : Submitted(r)' <=> Submitted(r)
  BY <1>5, CurrentTask DEF Submitted
<1>8. \A r \in Round : Refused(transfer', r) <=> Refused(transfer, r)
  BY <1>4, CurrentTask DEF Refused, Dead, Over
<1>9. placed' = placed /\ nfo' = nfo /\ torrent' = torrent
  BY <1>1 DEF files
<1>10. TransferSteps'
  BY <1>4 DEF TransferSteps
<1>11. ScrapeSteps' /\ NfoSubmitted'
  BY <1>5, <1>7, <1>9, TaskRound DEF IInv, ScrapeSteps, NfoSubmitted
<1>12. TaggedMeansHandled'
  BY <1>7, <1>8, <1>9 DEF IInv, TaggedMeansHandled
<1> QED BY <1>2, <1>3, <1>6, <1>10, <1>11, <1>12 DEF IInv

LEMMA StutterStep == ASSUME IInv, UNCHANGED vars PROVE IInv'
<1>1. /\ NoneTagged
      /\ UNCHANGED <<transfer, scrape, files, mishaps, torrent, row, emitted, handler, clock,
                     timeline, snapshot, reconciler>>
  BY DEF vars, NoneTagged, files, reconciler
<1>2. /\ Queues' /\ Files' /\ TransferSteps' /\ ScrapeSteps' /\ NfoSubmitted'
      /\ TaggedMeansHandled' /\ mishaps' \in 0..MaxMishaps /\ Grown
  BY <1>1, SameTasks
<1>3. Reconciling' /\ Lifecycle'
  BY <1>1, <1>2, SamePass, Silent DEF IInv, Lifecycle
<1>4. Downloads' /\ HandlerOK'
  BY <1>1 DEF IInv, Downloads, HandlerOK
<1> QED BY <1>2, <1>3, <1>4 DEF IInv

-----------------------------------------------------------------------------
(* The theorems *)

LEMMA NextStep == IInv /\ [Next]_vars => IInv'
<1> SUFFICES ASSUME IInv, [Next]_vars PROVE IInv'
  OBVIOUS
<1>1. ASSUME NEW r \in Round, Request(r) \/ Add(r) \/ Finish(r) \/ MarkCompleted(r)
      PROVE  IInv'
  BY <1>1, RequestStep, AddStep, FinishStep, MarkCompletedStep
<1>2. ASSUME NEW r \in Round, Emit(r) \/ Scan(r) \/ ScanDirect(r) PROVE IInv'
  BY <1>2, EmitStep, ScanStep, ScanDirectStep
<1>3. CASE HandlerStep
  BY <1>3, SubmitStep, EnqueueStep, RecordQueuedStep, HandlerDirectStep DEF HandlerStep
<1>4. ASSUME NEW t \in Tasks, TransferStep(t) \/ TransferFails(t) PROVE IInv'
  BY <1>4, SkipStep, StartTransferStep, PlaceStep, DuplicateStep, SubmitScrapeStep,
     RecordScrapeStep, FinishTransferStep, AckTransferStep, TransferFailsStep DEF TransferStep
<1>5. ASSUME NEW s \in Tasks, ScrapeStep(s) \/ ScrapeFails(s) PROVE IInv'
  BY <1>5, StartScrapeStep, WriteNfoStep, RecordScrapedStep, RecordPresentStep, AckScrapeStep,
     ScrapeFailsStep DEF ScrapeStep
<1>6. CASE Reconciler
  BY <1>6, ReconcileStep, ReconcileNextStep DEF Reconciler
<1>7. CASE Crash
  BY <1>7, CrashStep
<1>8. CASE UNCHANGED vars
  BY <1>8, StutterStep
<1> QED BY <1>1, <1>2, <1>3, <1>4, <1>5, <1>6, <1>7, <1>8 DEF Next, Work

\* Every variable keeps its type, whatever fails and however often the process dies.
THEOREM TypeCorrect == Spec => []TypeOK
BY InitIInv, NextStep, IInvMeans, PTL DEF Spec

\* The snapshot never runs ahead of the files: however late, repeated or reordered the events
\* are that reach it, an episode shown as transferred has a file in its place, and one shown
\* as scraped or in the library has metadata in its directory.
THEOREM ShownIsThere == Spec => []ShownMeansThere
BY InitIInv, NextStep, IInvMeans, PTL DEF Spec

\* No failure, crash or refused task takes a finished torrent out of the sight of the monitor
\* and of the scan before its file is in its place and submitted to be scraped, but the failed
\* transfer on the spot of what the queue refuses.
THEOREM NothingTaggedUnhandled == Spec => []TaggedMeansHandled
BY InitIInv, NextStep, IInvMeans, PTL DEF Spec

\* An episode alone in its directory is never shown in the library without metadata of its own:
\* the neighbour's are all that can be taken for them.
THEOREM AloneMeansDescribed ==
    ASSUME ~ Neighbour PROVE Spec => []InLibraryMeansDescribed
<1>1. ShownMeansThere => InLibraryMeansDescribed
  BY DEF ShownMeansThere, InLibraryMeansDescribed, LibraryDone, Described, Metadata
<1> QED BY <1>1, ShownIsThere, PTL

===============================================================================
