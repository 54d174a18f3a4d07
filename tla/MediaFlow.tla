------------------------------- MODULE MediaFlow -------------------------------
(***************************************************************************)
(* One episode on its way into the library, once and again: a download     *)
(* that is finished, the transfer queue, the scrape queue, and beside them *)
(* the media lifecycle, a snapshot of how far the episode has come that    *)
(* every part reports to and that a reconciler repairs from the history    *)
(* tables every five minutes.  The transfer queue reads the snapshot too:  *)
(* what is in the library is not transferred again.                        *)
(*                                                                         *)
(* A round is one download of the episode; the next is a better release,   *)
(* asked for once the last one is in its place.  The download queue is     *)
(* DownloadQueue's, the queues of tasks keep TaskQueueContract, and what   *)
(* follows scraping is SubscriptionProgress's.  Time is a clock that ticks *)
(* whenever something is stamped, so that stamps are ordered as they were  *)
(* made.  The directory the file is placed in may hold another episode.    *)
(***************************************************************************)
EXTENDS Naturals, Sequences, Functions

CONSTANTS Rounds,       \* downloads of the episode
          MaxAttempts,  \* max_attempts of a task
          Mishaps,      \* what may go wrong: a transfer or a scrape fails, the process dies
          MaxMishaps,   \* how often, all of them together
          Neighbour     \* another episode is in the directory, with its metadata

ASSUME MediaFlowAssumption ==
    /\ Rounds \in Nat /\ MaxAttempts \in Nat \ {0} /\ MaxMishaps \in Nat
    /\ Mishaps \subseteq {"transfer", "scrape", "crash"} /\ Neighbour \in BOOLEAN

Round == 1..Rounds
Tasks == Round \X {1, 2}    \* a round's task, and the one under its key of the retry

VARIABLES
    clock,
    timeline,  \* OCCURRED_AT of each EVENT_KEY
    snapshot,  \* MEDIA_LIFECYCLE of the episode
    row,       \* download history: state and date
    torrent,   \* in the downloader; "tagged" is out of the monitor's sight
    emitted,   \* _processed_ids of the monitor
    handler,   \* the handler of download.completed: step, round, key to record
    transfer, scrape,    \* the tasks of the two queues and their workers' steps,
                         \* the key to record
    placed,    \* transfer history: when the round's file was placed, 0 if it was not
    nfo,       \* when its metadata was written
    pass,      \* what the reconciler has still to record
    found,     \* the date of the metadata it once found for a row
    mishaps    \* how many so far

vars == <<clock, timeline, snapshot, row, torrent, emitted, handler, transfer, scrape, placed,
          nfo, pass, found, mishaps>>
lifecycle == <<clock, timeline, snapshot>>
files == <<placed, nfo>>
reconciler == <<pass, found>>
download == <<row, torrent, emitted>>

-----------------------------------------------------------------------------
(* The snapshot *)

Stages == <<"download_queued", "downloading", "downloaded", "transfer_queued", "transferring",
            "transferred", "scrape_queued", "scraping", "scraped", "in_library">>

Rank(stage) == CHOOSE i \in DOMAIN Stages : Stages[i] = stage

StageOf(kind) ==
    CASE kind \in {"download.queued", "reconcile.download.queued"} -> "download_queued"
      [] kind \in {"download.started", "reconcile.download.downloading"} -> "downloading"
      [] kind \in {"download.completed", "reconcile.download.completed"} -> "downloaded"
      [] kind = "transfer.queued" -> "transfer_queued"
      [] kind \in {"transfer.started", "transfer.failed"} -> "transferring"
      [] kind \in {"transfer.completed", "reconcile.transfer.completed"} -> "transferred"
      [] kind = "scrape.queued" -> "scrape_queued"
      [] kind \in {"scrape.started", "scrape.failed"} -> "scraping"
      [] kind \in {"scrape.completed", "reconcile.scrape.completed"} -> "scraped"
      [] kind \in {"library.present", "reconcile.library.present"} -> "in_library"

\* The events that begin a new round, and the stages it begins from.
Restarting == {"download.queued", "download.started", "transfer.queued", "transfer.started",
               "scrape.queued", "scrape.started",
               "reconcile.download.queued", "reconcile.download.downloading"}
Terminal == {"downloaded", "transferred", "scraped", "in_library"}

Snapshots == [stage : {Stages[i] : i \in DOMAIN Stages} \cup {"none"}, started : Nat, last : Nat]
Nothing == [stage |-> "none", started |-> 0, last |-> 0]

\* _apply_snapshot(): a later stage wins whenever it happened; an earlier one only if it
\* begins a new round; the same one if it is not older.
Project(old, kind, time) ==
    LET stage == StageOf(kind)
        restart == old.stage \in Terminal /\ kind \in Restarting /\ time > old.started
        forward == Rank(stage) > Rank(old.stage)
    IN  IF old = Nothing \/ restart THEN [stage |-> stage, started |-> time, last |-> time]
        ELSE IF forward
        THEN [stage |-> stage, started |-> time,
              last |-> IF time > old.last THEN time ELSE old.last]
        ELSE IF stage = old.stage /\ time >= old.last THEN [old EXCEPT !.last = time]
        ELSE old

Dated(key, time) == [k \in (DOMAIN timeline) \cup {key} |-> IF k = key THEN time ELSE timeline[k]]

\* Mutation: a repeated event is projected with the time it is repeated at.
RecordAtItsRepetition(key, time) ==
    /\ timeline' = IF key \in DOMAIN timeline THEN timeline ELSE Dated(key, time)
    /\ snapshot' = Project(snapshot, key[1], time)

\* record_event(): an EVENT_KEY is stored once; repeated, it repairs the snapshot with the
\* time it first happened at.
Record(key, time) ==
    IF key \in DOMAIN timeline
    THEN UNCHANGED timeline /\ snapshot' = Project(snapshot, key[1], timeline[key])
    ELSE timeline' = Dated(key, time) /\ snapshot' = Project(snapshot, key[1], time)

\* What happens now is told with the time of the clock.
Note(key) ==
    /\ clock' = IF key \in DOMAIN timeline THEN clock ELSE clock + 1
    /\ Record(key, clock + 1)

\* What can be told only once, and what is always told with the same time.
Tell(kind, time) == snapshot' = Project(snapshot, kind, time) /\ UNCHANGED timeline

Reported == <<"library.present", "duplicate">>    \* the key of finalize_duplicate()

LibraryDone == snapshot.stage = "in_library"

-----------------------------------------------------------------------------

Fresh == [status |-> "none", attempts |-> 0, known |-> FALSE, pc |-> "idle", key |-> <<>>]
Resting == [pc |-> "idle", round |-> 0, key |-> <<>>]

Init ==
    /\ clock = 1 /\ timeline = <<>> /\ snapshot = Nothing
    /\ row = [r \in Round |-> [state |-> "none", date |-> 0]]
    /\ torrent = [r \in Round |-> "none"]
    /\ emitted = {}
    /\ handler = Resting
    /\ transfer = [t \in Tasks |-> Fresh]
    /\ scrape = [t \in Tasks |-> Fresh]
    /\ placed = [r \in Round |-> 0] /\ nfo = [r \in Round |-> 0]
    /\ pass = {} /\ found = [r \in Round |-> 0]
    /\ mishaps = 0

Mishap(what) == what \in Mishaps /\ mishaps < MaxMishaps /\ mishaps' = mishaps + 1

-----------------------------------------------------------------------------
(* The download *)

AtRest(task) == task.status \notin {"queued", "running"}

\* Nothing is left to do for a round.
Settled(r) ==
    /\ torrent[r] = "tagged" /\ handler.round # r
    /\ \A n \in {1, 2} : AtRest(transfer[<<r, n>>]) /\ AtRest(scrape[<<r, n>>])

\* The next round is asked for when the last one is over: its keys are never told again,
\* but for the one that is not a task's, and are forgotten.
Request(r) ==
    /\ row[r].state = "none" /\ (r > 1 => Settled(r - 1))
    /\ row' = [row EXCEPT ![r] = [state |-> "queued", date |-> clock + 1]]
    /\ clock' = clock + 1
    /\ snapshot' = Project(snapshot, "download.queued", clock + 1)
    /\ timeline' = Restrict(timeline, DOMAIN timeline \cap {Reported})
    /\ UNCHANGED <<torrent, emitted, handler, transfer, scrape, files, reconciler, mishaps>>

Add(r) ==
    /\ row[r].state = "queued"
    /\ row' = [row EXCEPT ![r] = [state |-> "downloading", date |-> clock + 1]]
    /\ torrent' = [torrent EXCEPT ![r] = "downloading"]
    /\ clock' = clock + 1
    /\ Tell("download.started", clock + 1)
    /\ UNCHANGED <<emitted, handler, transfer, scrape, files, reconciler, mishaps>>

Finish(r) ==
    /\ torrent[r] = "downloading"
    /\ torrent' = [torrent EXCEPT ![r] = "complete"]
    /\ UNCHANGED <<lifecycle, row, emitted, handler, transfer, scrape, files, reconciler, mishaps>>

\* Somebody looks at the list of downloads: batch_update_state(), which leaves the date.
MarkCompleted(r) ==
    /\ torrent[r] \in {"complete", "tagged"} /\ row[r].state = "downloading"
    /\ row' = [row EXCEPT ![r].state = "completed"]
    /\ UNCHANGED <<lifecycle, torrent, emitted, handler, transfer, scrape, files, reconciler,
                   mishaps>>

-----------------------------------------------------------------------------
(* submit() of the transfer queue, and the handlers of download.completed *)

Dead(queue, r, n) == queue[<<r, n>>].status = "dead"
Over(queue, r, n) == queue[<<r, n>>].status \in {"succeeded", "skipped", "dead"}

\* Mutation: a task that was given up holds its key for good.
CurrentFirst(queue, r) == <<r, 1>>

Current(queue, r) == IF Dead(queue, r, 1) THEN <<r, 2>> ELSE <<r, 1>>
GivenUp(queue, r) == Dead(queue, r, 1) /\ Dead(queue, r, 2)

\* submit() accepts nothing that has already been tried again, however that ended.
Refused(queue, r) == Dead(queue, r, 1) /\ Over(queue, r, 2)

\* enqueue(), and once more under another key if the task of the first one was given up.
Enqueued(queue, r, known) ==
    LET t == Current(queue, r) IN
    IF queue[t].status = "none"
    THEN [queue EXCEPT ![t].status = "queued", ![t].known = known]
    ELSE queue

\* The monitor publishes a finished torrent once; the handlers run in its thread, the first
\* one records.
Emit(r) ==
    /\ torrent[r] = "complete" /\ r \notin emitted /\ handler = Resting
    /\ emitted' = emitted \cup {r}
    /\ Note(<<"download.completed", r>>)
    /\ handler' = [Resting EXCEPT !.pc = "submit", !.round = r]
    /\ UNCHANGED <<row, torrent, transfer, scrape, files, reconciler, mishaps>>

\* An episode in the library is not transferred; neither is a task made of it.
Submit ==
    /\ handler.pc = "submit"
    /\ handler' = IF LibraryDone THEN Resting ELSE [handler EXCEPT !.pc = "enqueue"]
    /\ UNCHANGED <<lifecycle, download, transfer, scrape, files, reconciler, mishaps>>

Enqueue ==
    LET r == handler.round
        t == Current(transfer, r)
        task == transfer[t]
    IN
    /\ handler.pc = "enqueue" /\ ~ Refused(transfer, r)
    /\ transfer' = Enqueued(transfer, r, TRUE)
    /\ handler' = IF task.status \in {"succeeded", "skipped"}
                  THEN Resting
                  ELSE [handler EXCEPT !.pc = "queued",
                                       !.key = <<"transfer.queued", t, task.attempts>>]
    /\ UNCHANGED <<lifecycle, download, scrape, files, reconciler, mishaps>>

\* Only now is it recorded: the worker may have been faster.
RecordQueued ==
    /\ handler.pc = "queued"
    /\ Note(handler.key)
    /\ handler' = Resting
    /\ UNCHANGED <<download, transfer, scrape, files, reconciler, mishaps>>

\* transfer() of DownloaderCore, every half hour: whatever is finished and not tagged is
\* submitted, without the identity, hence not looked up in the library and not recorded.
Scan(r) ==
    /\ torrent[r] = "complete" /\ ~ Refused(transfer, r)
    /\ transfer' = Enqueued(transfer, r, FALSE)
    /\ UNCHANGED <<lifecycle, download, handler, scrape, files, reconciler, mishaps>>

\* submit_file_scrape() at once with its record.  What the queue refuses is scraped by a
\* thread of its own, which records nothing, may fail, and is not waited for.
ScrapeInThread(r) ==
    /\ \/ UNCHANGED <<clock, nfo>>
       \/ nfo[r] = 0 /\ nfo' = [nfo EXCEPT ![r] = clock + 1] /\ clock' = clock + 1
    /\ UNCHANGED <<timeline, snapshot, scrape>>

SubmitAndRecord(r) ==
    LET s == Current(scrape, r) IN
    IF Refused(scrape, r) THEN ScrapeInThread(r)
    ELSE /\ scrape' = Enqueued(scrape, r, TRUE)
         /\ Note(<<"scrape.queued", s, scrape[s].attempts>>)
         /\ UNCHANGED nfo

\* The file is there already.  With its metadata it is only reported, if it must be.
IsThere(r) ==
    /\ placed[r] > 0 /\ nfo[r] > 0
    /\ IF LibraryDone THEN UNCHANGED lifecycle ELSE Note(Reported)

\* process() runs on the spot, and the torrent is tagged whether it succeeds or not.
OnTheSpot(r) ==
    /\ torrent' = [torrent EXCEPT ![r] = "tagged"]
    /\ \/ /\ nfo[r] = 0
          /\ placed' = [placed EXCEPT ![r] = IF @ = 0 THEN clock ELSE @]
          /\ SubmitAndRecord(r)
          /\ UNCHANGED mishaps
       \/ IsThere(r) /\ UNCHANGED <<placed, nfo, scrape, mishaps>>
       \/ Mishap("transfer") /\ UNCHANGED <<lifecycle, files, scrape>>
    /\ UNCHANGED <<row, emitted, transfer, reconciler>>

\* Mutation: on the spot as soon as the first task was given up.
DirectAtOnce(r) == Dead(transfer, r, 1) /\ OnTheSpot(r)

\* What the queue refuses is transferred by the one who asked.
Direct(r) == Refused(transfer, r) /\ OnTheSpot(r)

HandlerDirect == /\ handler.pc = "enqueue" /\ handler' = Resting
                 /\ Direct(handler.round)

ScanDirect(r) == torrent[r] = "complete" /\ Direct(r) /\ UNCHANGED handler

-----------------------------------------------------------------------------
(* A worker of the transfer queue: _handle_task() *)

Step(queue, t, pc) == [queue EXCEPT ![t].pc = pc]
Keyed(queue, t, pc, key) == [queue EXCEPT ![t].pc = pc, ![t].key = key]
Ended(queue, t, status) == [queue EXCEPT ![t].status = status, ![t].pc = "idle"]

\* Mutation: no limit to the attempts.
FailedForever(queue, t) ==
    [queue EXCEPT ![t].attempts = @ + 1, ![t].pc = "idle", ![t].status = "queued"]

\* A handler that raised: the task is queued again, or dead.
Failed(queue, t) ==
    [queue EXCEPT ![t].attempts = @ + 1, ![t].pc = "idle",
                  ![t].status = IF queue[t].attempts + 1 >= MaxAttempts THEN "dead" ELSE "queued"]

Claimable(queue, t) == queue[t].status \in {"queued", "running"} /\ queue[t].pc = "idle"

Report(t, kind) == IF transfer[t].known
                   THEN Note(<<kind, t, transfer[t].attempts>>)
                   ELSE UNCHANGED lifecycle

\* The episode is in the library: the task counts as done.
Skip(t) ==
    /\ Claimable(transfer, t) /\ transfer[t].known /\ LibraryDone
    /\ transfer' = Ended(transfer, t, "skipped")
    /\ UNCHANGED <<lifecycle, download, handler, scrape, files, reconciler, mishaps>>

StartTransfer(t) ==
    /\ Claimable(transfer, t) /\ ~ (transfer[t].known /\ LibraryDone)
    /\ transfer' = [Step(transfer, t, "process") EXCEPT ![t].status = "running"]
    /\ Report(t, "transfer.started")
    /\ UNCHANGED <<download, handler, scrape, files, reconciler, mishaps>>

\* Mutation: what process() returns is not looked at.
TransferFailsUnseen(t) ==
    /\ transfer[t].pc = "process" /\ Mishap("transfer")
    /\ transfer' = Failed(transfer, t)
    /\ Report(t, "transfer.completed")
    /\ UNCHANGED <<download, handler, scrape, files, reconciler>>

TransferFails(t) ==
    /\ transfer[t].pc = "process" /\ Mishap("transfer")
    /\ transfer' = Failed(transfer, t)
    /\ Report(t, "transfer.failed")
    /\ UNCHANGED <<download, handler, scrape, files, reconciler>>

Place(t) ==
    /\ transfer[t].pc = "process" /\ placed[t[1]] = 0
    /\ placed' = [placed EXCEPT ![t[1]] = clock + 1]
    /\ clock' = clock + 1
    /\ transfer' = Step(transfer, t, "scrape")
    /\ UNCHANGED <<timeline, snapshot, download, handler, scrape, nfo, reconciler, mishaps>>

\* process() once more: a file without its metadata is submitted to be scraped.
Duplicate(t) ==
    /\ transfer[t].pc = "process" /\ placed[t[1]] > 0
    /\ \/ nfo[t[1]] = 0 /\ transfer' = Step(transfer, t, "scrape") /\ UNCHANGED lifecycle
       \/ IsThere(t[1]) /\ transfer' = Step(transfer, t, "finish")
    /\ UNCHANGED <<download, handler, scrape, files, reconciler, mishaps>>

SubmitScrape(t) ==
    LET s == Current(scrape, t[1]) IN
    /\ transfer[t].pc = "scrape"
    /\ IF Refused(scrape, t[1])
       THEN ScrapeInThread(t[1]) /\ transfer' = Step(transfer, t, "finish")
       ELSE /\ scrape' = Enqueued(scrape, t[1], TRUE)
            /\ transfer' = Keyed(transfer, t, "noted", <<"scrape.queued", s, scrape[s].attempts>>)
            /\ UNCHANGED <<lifecycle, nfo>>
    /\ UNCHANGED <<download, handler, placed, reconciler, mishaps>>

\* submit_file_scrape() records after it has enqueued.
RecordScrape(t) ==
    /\ transfer[t].pc = "noted"
    /\ Note(transfer[t].key)
    /\ transfer' = Keyed(transfer, t, "finish", <<>>)
    /\ UNCHANGED <<download, handler, scrape, files, reconciler, mishaps>>

\* _post_process() and the record; the acknowledgement is a step of its own.
FinishTransfer(t) ==
    /\ transfer[t].pc = "finish"
    /\ torrent' = [torrent EXCEPT ![t[1]] = "tagged"]
    /\ Report(t, "transfer.completed")
    /\ transfer' = Step(transfer, t, "ack")
    /\ UNCHANGED <<row, emitted, handler, scrape, files, reconciler, mishaps>>

AckTransfer(t) ==
    /\ transfer[t].pc = "ack"
    /\ transfer' = Ended(transfer, t, "succeeded")
    /\ UNCHANGED <<lifecycle, download, handler, scrape, files, reconciler, mishaps>>

-----------------------------------------------------------------------------
(* A worker of the scrape queue: _run_file_payload() *)

NoteScrape(s, kind) == Note(<<kind, s, scrape[s].attempts>>)

StartScrape(s) ==
    /\ Claimable(scrape, s)
    /\ scrape' = [Step(scrape, s, "write") EXCEPT ![s].status = "running"]
    /\ NoteScrape(s, "scrape.started")
    /\ UNCHANGED <<download, handler, transfer, files, reconciler, mishaps>>

ScrapeFails(s) ==
    /\ scrape[s].pc = "write" /\ Mishap("scrape")
    /\ scrape' = Failed(scrape, s)
    /\ NoteScrape(s, "scrape.failed")
    /\ UNCHANGED <<download, handler, transfer, files, reconciler>>

WriteNfo(s) ==
    /\ scrape[s].pc = "write"
    /\ nfo' = [nfo EXCEPT ![s[1]] = IF @ = 0 THEN clock + 1 ELSE @]
    /\ clock' = IF nfo[s[1]] = 0 THEN clock + 1 ELSE clock
    /\ scrape' = Step(scrape, s, "scraped")
    /\ UNCHANGED <<timeline, snapshot, download, handler, transfer, placed, reconciler, mishaps>>

RecordScraped(s) ==
    /\ scrape[s].pc = "scraped"
    /\ NoteScrape(s, "scrape.completed")
    /\ scrape' = Step(scrape, s, "present")
    /\ UNCHANGED <<download, handler, transfer, files, reconciler, mishaps>>

RecordPresent(s) ==
    /\ scrape[s].pc = "present"
    /\ NoteScrape(s, "library.present")
    /\ scrape' = Step(scrape, s, "ack")
    /\ UNCHANGED <<download, handler, transfer, files, reconciler, mishaps>>

AckScrape(s) ==
    /\ scrape[s].pc = "ack"
    /\ scrape' = Ended(scrape, s, "succeeded")
    /\ UNCHANGED <<lifecycle, download, handler, transfer, files, reconciler, mishaps>>

-----------------------------------------------------------------------------
(* reconcile_recent() *)

FromRow(r) ==
    [kind |-> CASE row[r].state = "queued" -> "reconcile.download.queued"
                [] row[r].state = "completed" -> "reconcile.download.completed"
                [] OTHER -> "reconcile.download.downloading",
     round |-> r, time |-> row[r].date]

FromTransfer(r) == [kind |-> "reconcile.transfer.completed", round |-> r, time |-> placed[r]]

FromTransfers(e) == e.kind = "reconcile.transfer.completed"

\* Downloads before transfers, and the oldest first.
Before(e, f) == IF FromTransfers(e) = FromTransfers(f) THEN e.round < f.round
                ELSE FromTransfers(f)

\* The rows, as they are read at the beginning.
Reconcile ==
    /\ pass = {}
    /\ pass' = {FromRow(r) : r \in {x \in Round : row[x].date > 0}}
               \cup {FromTransfer(r) : r \in {x \in Round : placed[x] > 0}}
    /\ UNCHANGED <<lifecycle, download, handler, transfer, scrape, files, found, mishaps>>

\* The metadata in the directory, whosever they are.
Metadata == {nfo[r] : r \in {x \in Round : nfo[x] > 0}} \cup (IF Neighbour THEN {1} ELSE {})

\* What metadata of that date prove.
FromNfo(old, date) ==
    Project(Project(old, "reconcile.scrape.completed", date), "reconcile.library.present", date)

\* For a transfer any metadata in its directory will do; what was found once is told again
\* with its first date.
ReconcileNext ==
    \E e \in pass :
        /\ \A f \in pass \ {e} : Before(e, f)
        /\ pass' = pass \ {e}
        /\ LET told == Project(snapshot, e.kind, e.time) IN
           IF FromTransfers(e) /\ Metadata # {}
           THEN \E date \in IF found[e.round] > 0 THEN {found[e.round]} ELSE Metadata :
                   /\ found' = [found EXCEPT ![e.round] = date]
                   /\ snapshot' = FromNfo(told, date)
           ELSE snapshot' = told /\ UNCHANGED found
        /\ UNCHANGED <<clock, timeline, download, handler, transfer, scrape, files, mishaps>>

-----------------------------------------------------------------------------

\* The process dies and starts again: tasks that ran are delivered again, and the monitor
\* leaves alone only what has a transfer history.
Crash ==
    /\ Mishap("crash")
    /\ emitted' = {r \in Round : placed[r] > 0}
    /\ handler' = Resting
    /\ transfer' = [t \in Tasks |-> [transfer[t] EXCEPT !.pc = "idle", !.key = <<>>]]
    /\ scrape' = [s \in Tasks |-> [scrape[s] EXCEPT !.pc = "idle"]]
    /\ pass' = {}
    /\ UNCHANGED <<lifecycle, row, torrent, files, found>>

HandlerStep == Submit \/ Enqueue \/ RecordQueued \/ HandlerDirect

TransferStep(t) ==
    Skip(t) \/ StartTransfer(t) \/ Place(t) \/ Duplicate(t) \/ SubmitScrape(t)
    \/ RecordScrape(t) \/ FinishTransfer(t) \/ AckTransfer(t)

ScrapeStep(s) ==
    StartScrape(s) \/ WriteNfo(s) \/ RecordScraped(s) \/ RecordPresent(s) \/ AckScrape(s)

\* What the monitor, the scan and the workers do by themselves.
Work ==
    \/ \E r \in Round : Emit(r) \/ Scan(r) \/ ScanDirect(r)
    \/ HandlerStep
    \/ \E t \in Tasks : TransferStep(t) \/ ScrapeStep(t)

Reconciler == Reconcile \/ ReconcileNext

Next ==
    \/ \E r \in Round : Request(r) \/ Add(r) \/ Finish(r) \/ MarkCompleted(r)
    \/ Work
    \/ \E t \in Tasks : TransferFails(t) \/ ScrapeFails(t)
    \/ Reconciler
    \/ Crash

Spec == Init /\ [][Next]_vars

\* The monitor and the scan run again and again, the workers wait, the reconciler is a job
\* of the scheduler.  Fairness to the work as a whole assumes less than fairness to each of
\* them: it cannot go on for ever.
Fairness == WF_vars(Work) /\ WF_vars(Reconciler)

FairSpec == Spec /\ Fairness

-----------------------------------------------------------------------------
(* Properties *)

TaskOf(statuses, steps) ==
    [status : statuses, attempts : 0..MaxAttempts, known : BOOLEAN, pc : steps,
     key : {<<>>} \cup ({"scrape.queued"} \X Tasks \X Nat)]

\* The type of the state.
TypeOK ==
    /\ clock \in Nat \ {0} /\ mishaps \in 0..MaxMishaps
    /\ snapshot \in Snapshots
    /\ \A key \in DOMAIN timeline : timeline[key] \in Nat
    /\ row \in [Round -> [state : {"none", "queued", "downloading", "completed"}, date : Nat]]
    /\ torrent \in [Round -> {"none", "downloading", "complete", "tagged"}]
    /\ emitted \subseteq Round
    /\ handler \in {Resting} \cup [pc : {"submit", "enqueue"}, round : Round, key : {<<>>}]
                   \cup [pc : {"queued"}, round : Round, key : {"transfer.queued"} \X Tasks \X Nat]
    /\ transfer \in [Tasks -> TaskOf({"none", "queued", "running", "succeeded", "skipped", "dead"},
                                     {"idle", "process", "scrape", "noted", "finish", "ack"})]
    /\ scrape \in [Tasks -> TaskOf({"none", "queued", "running", "succeeded", "dead"},
                                   {"idle", "write", "scraped", "present", "ack"})]
    /\ placed \in [Round -> Nat] /\ nfo \in [Round -> Nat] /\ found \in [Round -> Nat]
    /\ pass \subseteq [kind : {"reconcile.download.queued", "reconcile.download.downloading",
                               "reconcile.download.completed", "reconcile.transfer.completed"},
                       round : Round, time : Nat]

Filed == {"transferred", "scrape_queued", "scraping", "scraped", "in_library"}
Described == {"scraped", "in_library"}

\* What the snapshot shows has happened: from "transferred" on some file of the episode is
\* in its place, from "scraped" on there are metadata in its directory.
ShownMeansThere ==
    /\ snapshot.stage \in Filed => \E r \in Round : placed[r] > 0
    /\ snapshot.stage \in Described => Metadata # {}

\* An episode that is shown in the library has metadata of its own.
InLibraryMeansDescribed == LibraryDone => \E r \in Round : nfo[r] > 0

Submitted(r) == scrape[<<r, 1>>].status # "none"

\* A torrent leaves the sight of the monitor and of the scan only when its file is in its
\* place and to be scraped, or the queue refused it and a transfer on the spot has failed.
TaggedMeansHandled ==
    \A r \in Round :
        torrent[r] = "tagged" => (placed[r] > 0 /\ Submitted(r)) \/ Refused(transfer, r)

\* A scrape that failed before is begun again.
Retried(s) == scrape[s].attempts > 0 /\ scrape[s].pc = "idle" /\ scrape'[s].pc = "write"

\* An event told again does not throw an episode that is in the library back: it leaves
\* that stage only when something new is told, or when a scrape that is tried again after
\* the metadata were written is delivered once more.
LeftOnlyByNewEvent ==
    [][LibraryDone /\ snapshot'.stage # "in_library" =>
          clock' # clock \/ \E s \in Tasks : Retried(s)]_vars

\* Once a round is over and shown, and no other is asked for, the episode stays where it is.
StaysShown ==
    [][LibraryDone /\ (\A r \in Round : Settled(r)) => LibraryDone']_vars

\* A transfer task is acknowledged without a transfer only if its file is in its place.
SkipsOnlyWhatIsPlaced ==
    \A t \in Tasks : transfer[t].status = "skipped" => placed[t[1]] > 0

Skipped(r) == \E n \in {1, 2} : transfer[<<r, n>>].status = "skipped"

\* From the time its torrent is complete an episode is shown in the library again and again,
\* whatever late report sets it back, unless a task of the download was skipped or given up.
EveryDownloadShown ==
    \A r \in Round :
        torrent[r] \in {"complete", "tagged"}
            ~> LibraryDone \/ Skipped(r) \/ GivenUp(transfer, r) \/ Dead(scrape, r, 1)

===============================================================================
