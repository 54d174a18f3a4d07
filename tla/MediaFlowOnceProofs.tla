-------------------------- MODULE MediaFlowOnceProofs --------------------------
(***************************************************************************)
(* An episode that is downloaded once, and is alone in its directory,      *)
(* leaves the library only by something new, whatever is told again, for   *)
(* any number of attempts and of mishaps.                                  *)
(***************************************************************************)
EXTENDS MediaFlowProofs

-----------------------------------------------------------------------------
(* Steps *)

\* A transfer on the spot, by the handler or by the scan.
Spot == HandlerDirect \/ \E r \in Round : ScanDirect(r)

\* Which actions change what.
LEMMA Changes ==
    ASSUME [Next]_vars
    PROVE  /\ UNCHANGED row \/ \E r \in Round : Request(r) \/ Add(r) \/ MarkCompleted(r)
           /\ \/ UNCHANGED torrent \/ Spot
              \/ \E r \in Round : Add(r) \/ Finish(r)
              \/ \E t \in Tasks : FinishTransfer(t)
           /\ UNCHANGED emitted \/ Crash \/ \E r \in Round : Emit(r)
           /\ \/ UNCHANGED handler \/ Crash \/ Submit \/ Enqueue \/ RecordQueued \/ HandlerDirect
              \/ \E r \in Round : Emit(r)
           /\ UNCHANGED placed \/ Spot \/ \E t \in Tasks : Place(t)
           /\ UNCHANGED nfo \/ Spot \/ \E t \in Tasks : SubmitScrape(t) \/ WriteNfo(t)
           /\ UNCHANGED pass \/ Reconcile \/ ReconcileNext \/ Crash
           /\ UNCHANGED found \/ ReconcileNext
           /\ \/ UNCHANGED transfer \/ Enqueue \/ Crash
              \/ \E r \in Round : Scan(r)
              \/ \E t \in Tasks : TransferStep(t) \/ TransferFails(t)
           /\ \/ UNCHANGED scrape \/ Spot \/ Crash
              \/ \E t \in Tasks : SubmitScrape(t) \/ ScrapeStep(t) \/ ScrapeFails(t)
           /\ \/ UNCHANGED lifecycle \/ RecordQueued \/ ReconcileNext \/ Spot
              \/ \E r \in Round : Request(r) \/ Add(r) \/ Emit(r)
              \/ \E t \in Tasks : \/ StartTransfer(t) \/ TransferFails(t) \/ Place(t)
                                  \/ Duplicate(t) \/ SubmitScrape(t) \/ RecordScrape(t)
                                  \/ FinishTransfer(t)
                                  \/ ScrapeStep(t) \/ ScrapeFails(t)
<1> USE DEF lifecycle, download, files, reconciler
<1>1. CASE \E r \in Round : Request(r)
  BY <1>1 DEF Request
<1>2. CASE \E r \in Round : Add(r)
  BY <1>2 DEF Add
<1>3. CASE \E r \in Round : Finish(r)
  BY <1>3 DEF Finish
<1>4. CASE \E r \in Round : MarkCompleted(r)
  BY <1>4 DEF MarkCompleted
<1>5. CASE \E r \in Round : Emit(r)
  BY <1>5 DEF Emit
<1>6. CASE \E r \in Round : Scan(r)
  BY <1>6 DEF Scan
<1>7. CASE \E r \in Round : ScanDirect(r)
  BY <1>7 DEF Spot, ScanDirect, Direct, OnTheSpot
<1>8. CASE Submit
  BY <1>8 DEF Submit
<1>9. CASE Enqueue
  BY <1>9 DEF Enqueue
<1>10. CASE RecordQueued
  BY <1>10 DEF RecordQueued
<1>11. CASE HandlerDirect
  BY <1>11 DEF Spot, HandlerDirect, Direct, OnTheSpot
<1>12. CASE \E t \in Tasks : TransferStep(t)
  <2>1. CASE \E t \in Tasks : Skip(t)
    BY <1>12, <2>1 DEF Skip
  <2>2. CASE \E t \in Tasks : StartTransfer(t)
    BY <1>12, <2>2 DEF StartTransfer
  <2>3. CASE \E t \in Tasks : Place(t)
    BY <1>12, <2>3 DEF Place
  <2>4. CASE \E t \in Tasks : Duplicate(t)
    BY <1>12, <2>4 DEF Duplicate
  <2>5. CASE \E t \in Tasks : SubmitScrape(t)
    BY <1>12, <2>5 DEF SubmitScrape
  <2>6. CASE \E t \in Tasks : RecordScrape(t)
    BY <1>12, <2>6 DEF RecordScrape
  <2>7. CASE \E t \in Tasks : FinishTransfer(t)
    BY <1>12, <2>7 DEF FinishTransfer
  <2>8. CASE \E t \in Tasks : AckTransfer(t)
    BY <1>12, <2>8 DEF AckTransfer
  <2> QED BY <1>12, <2>1, <2>2, <2>3, <2>4, <2>5, <2>6, <2>7, <2>8 DEF TransferStep
<1>13. CASE \E t \in Tasks : TransferFails(t)
  BY <1>13 DEF TransferFails
<1>14. CASE \E s \in Tasks : ScrapeStep(s)
  <2>1. CASE \E s \in Tasks : WriteNfo(s)
    BY <1>14, <2>1 DEF WriteNfo
  <2>2. CASE \E s \in Tasks : StartScrape(s) \/ RecordScraped(s) \/ RecordPresent(s) \/ AckScrape(s)
    BY <1>14, <2>2 DEF StartScrape, RecordScraped, RecordPresent, AckScrape
  <2> QED BY <1>14, <2>1, <2>2 DEF ScrapeStep
<1>15. CASE \E s \in Tasks : ScrapeFails(s)
  BY <1>15 DEF ScrapeFails
<1>16. CASE Reconcile
  BY <1>16 DEF Reconcile
<1>17. CASE ReconcileNext
  BY <1>17 DEF ReconcileNext
<1>18. CASE Crash
  BY <1>18 DEF Crash
<1>19. CASE UNCHANGED vars
  BY <1>19 DEF vars
<1> QED
  BY <1>1, <1>2, <1>3, <1>4, <1>5, <1>6, <1>7, <1>8, <1>9, <1>10, <1>11, <1>12, <1>13, <1>14,
     <1>15, <1>16, <1>17, <1>18, <1>19 DEF Next, Work, HandlerStep, Reconciler

-----------------------------------------------------------------------------

\* What the operators on a queue make of one task.
LEMMA TaskFields ==
    ASSUME NEW S, NEW P, NEW queue \in [Tasks -> TaskOf(S, P)], NEW t \in Tasks, NEW u \in Tasks,
           NEW x, NEW y
    PROVE  /\ Step(queue, u, x)[t].status = queue[t].status
           /\ Step(queue, u, x)[t].attempts = queue[t].attempts
           /\ Step(queue, u, x)[t].pc = IF t = u THEN x ELSE queue[t].pc
           /\ Keyed(queue, u, x, y)[t].status = queue[t].status
           /\ Keyed(queue, u, x, y)[t].attempts = queue[t].attempts
           /\ Keyed(queue, u, x, y)[t].pc = IF t = u THEN x ELSE queue[t].pc
           /\ Ended(queue, u, x)[t].status = IF t = u THEN x ELSE queue[t].status
           /\ Ended(queue, u, x)[t].attempts = queue[t].attempts
           /\ Ended(queue, u, x)[t].pc = IF t = u THEN "idle" ELSE queue[t].pc
<1>1. queue[t] \in TaskOf(S, P) /\ queue[u] \in TaskOf(S, P)
  OBVIOUS
<1>2. /\ Step(queue, u, x)[t] = IF t = u THEN [queue[u] EXCEPT !.pc = x] ELSE queue[t]
      /\ Ended(queue, u, x)[t] =
             IF t = u THEN [queue[u] EXCEPT !.status = x, !.pc = "idle"] ELSE queue[t]
      /\ Keyed(queue, u, x, y)[t] =
             IF t = u THEN [queue[u] EXCEPT !.pc = x, !.key = y] ELSE queue[t]
  BY DEF Step, Ended, Keyed
<1>3. /\ [queue[u] EXCEPT !.pc = x].status = queue[u].status
      /\ [queue[u] EXCEPT !.pc = x].attempts = queue[u].attempts
      /\ [queue[u] EXCEPT !.pc = x].pc = x
      /\ [queue[u] EXCEPT !.status = x, !.pc = "idle"].status = x
      /\ [queue[u] EXCEPT !.status = x, !.pc = "idle"].attempts = queue[u].attempts
      /\ [queue[u] EXCEPT !.status = x, !.pc = "idle"].pc = "idle"
      /\ [queue[u] EXCEPT !.pc = x, !.key = y].status = queue[u].status
      /\ [queue[u] EXCEPT !.pc = x, !.key = y].attempts = queue[u].attempts
      /\ [queue[u] EXCEPT !.pc = x, !.key = y].pc = x
  BY <1>1 DEF TaskOf
<1> QED BY <1>2, <1>3
\* What a failure makes of one.
LEMMA FailedFields ==
    ASSUME NEW S, NEW P, NEW queue \in [Tasks -> TaskOf(S, P)], NEW t \in Tasks, NEW u \in Tasks
    PROVE  /\ t = u => Failed(queue, u)[t].status \in {"queued", "dead"}
           /\ t # u => Failed(queue, u)[t].status = queue[t].status
           /\ Failed(queue, u)[t].attempts =
                  IF t = u THEN queue[t].attempts + 1 ELSE queue[t].attempts
           /\ Failed(queue, u)[t].pc = IF t = u THEN "idle" ELSE queue[t].pc
<1> DEFINE n == queue[u].attempts + 1
           status == IF queue[u].attempts + 1 >= MaxAttempts THEN "dead" ELSE "queued"
           a == [queue[u] EXCEPT !.attempts = n, !.pc = "idle", !.status = status]
<1>1. Failed(queue, u) = [queue EXCEPT ![u] = a]
  BY DEF Failed
<1>2. queue[u] \in TaskOf(S, P) /\ status \in {"queued", "dead"}
  OBVIOUS
<1>3. a.status = status /\ a.attempts = n /\ a.pc = "idle"
  <2> HIDE DEF n, status
  <2> QED BY <1>2 DEF TaskOf
<1> HIDE DEF a, status
<1> QED BY <1>1, <1>2, <1>3
\* What its beginning does.
LEMMA StartFields ==
    ASSUME NEW S, NEW P, NEW queue \in [Tasks -> TaskOf(S, P)], NEW t \in Tasks, NEW u \in Tasks,
           NEW x
    PROVE  LET q == [Step(queue, u, x) EXCEPT ![u].status = "running"] IN
           /\ q[t].status = IF t = u THEN "running" ELSE queue[t].status
           /\ q[t].attempts = queue[t].attempts
           /\ q[t].pc = IF t = u THEN x ELSE queue[t].pc
<1> DEFINE a == [queue[u] EXCEPT !.pc = x, !.status = "running"]
           q == [Step(queue, u, x) EXCEPT ![u].status = "running"]
<1>1. q = [queue EXCEPT ![u] = a]
  BY DEF Step
<1>2. queue[u] \in TaskOf(S, P)
  OBVIOUS
<1>3. a.status = "running" /\ a.attempts = queue[u].attempts /\ a.pc = x
  BY <1>2 DEF TaskOf
<1> HIDE DEF a, q
<1>4. /\ q[t].status = IF t = u THEN "running" ELSE queue[t].status
      /\ q[t].attempts = queue[t].attempts
      /\ q[t].pc = IF t = u THEN x ELSE queue[t].pc
  BY <1>1, <1>3
<1> QED BY <1>4 DEF q
\* What an enqueue() does.
LEMMA EnqueuedFields ==
    ASSUME NEW S, NEW P, NEW queue \in [Tasks -> TaskOf(S, P)], NEW t \in Tasks, NEW r \in Round,
           NEW known
    PROVE  LET q == Enqueued(queue, r, known) IN
           /\ q[t].status = IF t = Current(queue, r) /\ queue[t].status = "none"
                            THEN "queued" ELSE queue[t].status
           /\ q[t].attempts = queue[t].attempts
           /\ q[t].pc = queue[t].pc
<1> DEFINE c == Current(queue, r)
           a == [queue[c] EXCEPT !.status = "queued", !.known = known]
           q == Enqueued(queue, r, known)
<1>1. c \in Tasks
  BY CurrentTask
<1>2. q = IF queue[c].status = "none" THEN [queue EXCEPT ![c] = a] ELSE queue
  BY DEF Enqueued
<1> HIDE DEF c
<1>3. queue[c] \in TaskOf(S, P)
  BY <1>1
<1>4. a.status = "queued" /\ a.attempts = queue[c].attempts /\ a.pc = queue[c].pc
  BY <1>3 DEF TaskOf
<1> HIDE DEF a, q
<1>5. /\ q[t].status = IF t = c /\ queue[t].status = "none" THEN "queued" ELSE queue[t].status
      /\ q[t].attempts = queue[t].attempts
      /\ q[t].pc = queue[t].pc
  BY <1>1, <1>2, <1>4
<1> QED BY <1>5 DEF c, q

\* A task that exists, or that was given up, does so for good.
Stays(a, b) == /\ a.status # "none" => b.status # "none"
               /\ a.status = "dead" => b.status = "dead"
\* How a transfer task comes into being, and how it comes to submit a scrape.
LEMMA TransferTasks ==
    ASSUME IInv, [Next]_vars, NEW t \in Tasks
    PROVE  /\ Stays(transfer[t], transfer'[t])
           /\ transfer[t].status = "none" /\ transfer'[t].status # "none" =>
                  /\ t = Current(transfer, t[1])
                  /\ torrent[t[1]] = "complete" \/ (handler.pc = "enqueue" /\ handler.round = t[1])
           /\ transfer'[t].pc = "scrape" =>
                  transfer[t].pc = "scrape" \/ (nfo[t[1]] = 0 /\ UNCHANGED nfo)
           /\ transfer'[t].pc = "noted" => transfer[t].pc \in {"scrape", "noted"}
<1>1. /\ transfer \in [Tasks -> TaskOf(TransferStatus, TransferPc)] /\ t[1] \in Round
      /\ transfer[t].pc # "idle" => transfer[t].status = "running"
  BY Running, TaskRound
<1>2. CASE UNCHANGED transfer
  BY <1>2 DEF Stays
<1>3. ASSUME NEW r \in Round, NEW known, transfer' = Enqueued(transfer, r, known),
             torrent[r] = "complete" \/ (handler.pc = "enqueue" /\ handler.round = r)
      PROVE  /\ Stays(transfer[t], transfer'[t])
             /\ transfer[t].status = "none" /\ transfer'[t].status # "none" =>
                  /\ t = Current(transfer, t[1])
                  /\ torrent[t[1]] = "complete" \/ (handler.pc = "enqueue" /\ handler.round = t[1])
             /\ transfer'[t].pc = transfer[t].pc
  <2>1. /\ transfer'[t].status = IF t = Current(transfer, r) /\ transfer[t].status = "none"
                                 THEN "queued" ELSE transfer[t].status
        /\ transfer'[t].pc = transfer[t].pc
    BY <1>1, <1>3, EnqueuedFields
  <2>2. Current(transfer, r)[1] = r
    BY CurrentTask
  <2> QED BY <1>3, <2>1, <2>2 DEF Stays
<1>4. CASE Enqueue
  <2>1. handler.round \in Round
    BY <1>4 DEF IInv, HandlerOK, Enqueue, Resting
  <2>2. transfer' = Enqueued(transfer, handler.round, TRUE) /\ handler.pc = "enqueue"
    BY <1>4 DEF Enqueue
  <2> QED BY <2>1, <2>2, <1>3
<1>5. CASE \E r \in Round : Scan(r)
  BY <1>5, <1>3 DEF Scan
<1>6. CASE Crash
  <2>1. transfer'[t] = [transfer[t] EXCEPT !.pc = "idle", !.key = <<>>]
    BY <1>6 DEF Crash
  <2>2. transfer[t] \in TaskOf(TransferStatus, TransferPc)
    BY <1>1
  <2>3. transfer'[t].status = transfer[t].status /\ transfer'[t].pc = "idle"
    BY <2>1, <2>2 DEF TaskOf
  <2> QED BY <2>3 DEF Stays
<1>7. ASSUME NEW u \in Tasks, TransferStep(u) \/ TransferFails(u)
      PROVE  /\ transfer'[t].status # transfer[t].status =>
                    transfer[t].status \in {"queued", "running"} /\ transfer'[t].status # "none"
             /\ transfer'[t].pc = "scrape" =>
                    transfer[t].pc = "scrape" \/ (nfo[t[1]] = 0 /\ UNCHANGED nfo)
             /\ transfer'[t].pc = "noted" => transfer[t].pc \in {"scrape", "noted"}
  <2>0. transfer[u].pc # "idle" => transfer[u].status = "running"
    BY Running
  <2>1. CASE Skip(u)
    <3>1. transfer' = Ended(transfer, u, "skipped") /\ Claimable(transfer, u)
      BY <2>1 DEF Skip
    <3>2. /\ transfer'[t].status = IF t = u THEN "skipped" ELSE transfer[t].status
          /\ transfer'[t].pc = IF t = u THEN "idle" ELSE transfer[t].pc
      BY <1>1, <3>1, TaskFields
    <3> QED BY <3>1, <3>2 DEF Claimable
  <2>2. CASE StartTransfer(u)
    <3>1. transfer' = [Step(transfer, u, "process") EXCEPT ![u].status = "running"]
          /\ Claimable(transfer, u)
      BY <2>2 DEF StartTransfer
    <3>2. /\ transfer'[t].status = IF t = u THEN "running" ELSE transfer[t].status
          /\ transfer'[t].pc = IF t = u THEN "process" ELSE transfer[t].pc
      BY <1>1, <3>1, StartFields
    <3> QED BY <3>1, <3>2 DEF Claimable
  <2>3. CASE Place(u)
    <3>1. transfer' = Step(transfer, u, "scrape") /\ placed[u[1]] = 0 /\ UNCHANGED nfo
      BY <2>3 DEF Place
    <3>2. nfo[u[1]] = 0
      BY <3>1, TaskRound DEF IInv, NfoSubmitted, Files
    <3>3. /\ transfer'[t].status = transfer[t].status
          /\ transfer'[t].pc = IF t = u THEN "scrape" ELSE transfer[t].pc
      BY <1>1, <3>1, TaskFields
    <3> QED BY <3>1, <3>2, <3>3
  <2>4. CASE Duplicate(u)
    <3>1. /\ \/ transfer' = Step(transfer, u, "finish")
             \/ transfer' = Step(transfer, u, "scrape") /\ nfo[u[1]] = 0
          /\ UNCHANGED nfo
      BY <2>4 DEF Duplicate, files
    <3>2. /\ transfer'[t].status = transfer[t].status
          /\ t # u => transfer'[t].pc = transfer[t].pc
          /\ t = u => transfer'[t].pc = "finish" \/ (transfer'[t].pc = "scrape" /\ nfo[u[1]] = 0)
      <4>1. CASE transfer' = Step(transfer, u, "finish")
        BY <1>1, <4>1, TaskFields
      <4>2. CASE transfer' = Step(transfer, u, "scrape") /\ nfo[u[1]] = 0
        BY <1>1, <4>2, TaskFields
      <4> QED BY <3>1, <4>1, <4>2
    <3> QED BY <3>1, <3>2
  <2>5. CASE SubmitScrape(u)
    <3> DEFINE c == Current(scrape, u[1])
               key == <<"scrape.queued", c, scrape[c].attempts>>
    <3>1. /\ transfer' \in {Step(transfer, u, "finish"), Keyed(transfer, u, "noted", key)}
          /\ transfer[u].pc = "scrape"
      BY <2>5 DEF SubmitScrape
    <3> HIDE DEF key
    <3>3. /\ transfer'[t].status = transfer[t].status
          /\ t = u => transfer'[t].pc \in {"finish", "noted"}
          /\ t # u => transfer'[t].pc = transfer[t].pc
      BY <1>1, <3>1, TaskFields
    <3> QED BY <3>1, <3>3
  <2>6. CASE RecordScrape(u)
    <3>1. transfer' = Keyed(transfer, u, "finish", <<>>)
      BY <2>6 DEF RecordScrape
    <3>3. /\ transfer'[t].status = transfer[t].status
          /\ transfer'[t].pc = IF t = u THEN "finish" ELSE transfer[t].pc
      BY <1>1, <3>1, TaskFields
    <3> QED BY <3>1, <3>3
  <2>7. CASE FinishTransfer(u)
    <3>1. transfer' = Step(transfer, u, "ack")
      BY <2>7 DEF FinishTransfer
    <3>3. /\ transfer'[t].status = transfer[t].status
          /\ transfer'[t].pc = IF t = u THEN "ack" ELSE transfer[t].pc
      BY <1>1, <3>1, TaskFields
    <3> QED BY <3>1, <3>3
  <2>8. CASE AckTransfer(u)
    <3>1. transfer' = Ended(transfer, u, "succeeded") /\ transfer[u].pc = "ack"
      BY <2>8 DEF AckTransfer
    <3>2. /\ transfer'[t].status = IF t = u THEN "succeeded" ELSE transfer[t].status
          /\ transfer'[t].pc = IF t = u THEN "idle" ELSE transfer[t].pc
      BY <1>1, <3>1, TaskFields
    <3> QED BY <2>0, <3>1, <3>2
  <2>9. CASE TransferFails(u)
    <3>1. transfer' = Failed(transfer, u) /\ transfer[u].pc = "process"
      BY <2>9 DEF TransferFails
    <3>2. /\ t = u => transfer'[t].status \in {"queued", "dead"}
          /\ t # u => transfer'[t].status = transfer[t].status
          /\ transfer'[t].pc = IF t = u THEN "idle" ELSE transfer[t].pc
      BY <1>1, <3>1, FailedFields
    <3> QED BY <2>0, <3>1, <3>2
  <2> QED
    BY <1>7, <2>1, <2>2, <2>3, <2>4, <2>5, <2>6, <2>7, <2>8, <2>9 DEF TransferStep
<1>8. CASE \E u \in Tasks : TransferStep(u) \/ TransferFails(u)
  BY <1>7, <1>8 DEF Stays
<1>9. \/ UNCHANGED transfer \/ Enqueue \/ Crash
      \/ \E r \in Round : Scan(r)
      \/ \E u \in Tasks : TransferStep(u) \/ TransferFails(u)
  BY Changes
<1> QED BY <1>2, <1>4, <1>5, <1>6, <1>8, <1>9

\* What a transfer on the spot does, by the handler or by the scan.
LEMMA SpotDoes ==
    ASSUME IInv, Spot
    PROVE  \E r \in Round :
             /\ Refused(transfer, r) /\ torrent' = [torrent EXCEPT ![r] = "tagged"]
             /\ handler' \in {handler, Resting} /\ UNCHANGED <<row, emitted, transfer, pass, found>>
             /\ \/ /\ nfo[r] = 0 /\ Refused(scrape, r) /\ ScrapeInThread(r)
                   /\ placed' = [placed EXCEPT ![r] = IF @ = 0 THEN clock ELSE @]
                \/ /\ nfo[r] = 0 /\ UNCHANGED nfo
                   /\ \E known \in BOOLEAN : scrape' = Enqueued(scrape, r, known)
                   /\ placed' = [placed EXCEPT ![r] = IF @ = 0 THEN clock ELSE @]
                   /\ \E s \in Tasks : Note(<<"scrape.queued", s, scrape[s].attempts>>)
                \/ /\ IsThere(r) /\ UNCHANGED <<placed, nfo, scrape>>
                \/ UNCHANGED <<lifecycle, placed, nfo, scrape>>
<1>1. PICK r \in Round : Direct(r) /\ handler' \in {handler, Resting}
  <2>1. CASE HandlerDirect
    <3>1. handler.round \in Round
      BY <2>1 DEF IInv, HandlerOK, HandlerDirect, Resting
    <3> QED BY <2>1, <3>1 DEF HandlerDirect
  <2>2. CASE \E r \in Round : ScanDirect(r)
    BY <2>2 DEF ScanDirect
  <2> QED BY <2>1, <2>2 DEF Spot
<1>2. /\ Refused(transfer, r) /\ torrent' = [torrent EXCEPT ![r] = "tagged"]
      /\ UNCHANGED <<row, emitted, transfer, pass, found>>
      /\ \/ /\ nfo[r] = 0 /\ SubmitAndRecord(r)
            /\ placed' = [placed EXCEPT ![r] = IF @ = 0 THEN clock ELSE @]
         \/ IsThere(r) /\ UNCHANGED <<placed, nfo, scrape>>
         \/ UNCHANGED <<lifecycle, placed, nfo, scrape>>
  BY <1>1 DEF Direct, OnTheSpot, files, reconciler
<1>3. SubmitAndRecord(r) =>
        \/ Refused(scrape, r) /\ ScrapeInThread(r)
        \/ /\ UNCHANGED nfo
           /\ \E known \in BOOLEAN : scrape' = Enqueued(scrape, r, known)
           /\ \E s \in Tasks : Note(<<"scrape.queued", s, scrape[s].attempts>>)
  <2> DEFINE known == TRUE
  <2>1. known \in BOOLEAN
    OBVIOUS
  <2>2. SubmitAndRecord(r) =>
          \/ Refused(scrape, r) /\ ScrapeInThread(r)
          \/ /\ UNCHANGED nfo /\ scrape' = Enqueued(scrape, r, known)
             /\ Note(<<"scrape.queued", Current(scrape, r), scrape[Current(scrape, r)].attempts>>)
    BY DEF SubmitAndRecord
  <2>3. Current(scrape, r) \in Tasks
    BY CurrentTask
  <2> HIDE DEF known
  <2> QED BY <2>1, <2>2, <2>3
<1> QED BY <1>1, <1>2, <1>3

\* Metadata are written once, by a worker, or by a thread when the queue has refused the file.
LEMMA NfoWritten ==
    ASSUME IInv, [Next]_vars
    PROVE  \/ UNCHANGED nfo
           \/ \E r \in Round :
                 /\ nfo[r] = 0 /\ nfo' = [nfo EXCEPT ![r] = clock + 1] /\ clock' = clock + 1
                 /\ UNCHANGED <<timeline, snapshot, row, pass, found>>
                 /\ \/ Refused(scrape, r) /\ UNCHANGED scrape
                    \/ \E s \in Tasks : WriteNfo(s) /\ s[1] = r
<1>1. ASSUME NEW r \in Round, ScrapeInThread(r), Refused(scrape, r), UNCHANGED <<row, pass, found>>
      PROVE  \/ UNCHANGED nfo
             \/ /\ nfo[r] = 0 /\ nfo' = [nfo EXCEPT ![r] = clock + 1] /\ clock' = clock + 1
                /\ UNCHANGED <<timeline, snapshot, row, pass, found>>
                /\ Refused(scrape, r) /\ UNCHANGED scrape
  BY <1>1 DEF ScrapeInThread
<1>2. CASE Spot
  BY <1>1, <1>2, SpotDoes
<1>3. CASE \E t \in Tasks : SubmitScrape(t)
  BY <1>1, <1>3, TaskRound DEF SubmitScrape, reconciler, download
<1>4. CASE \E s \in Tasks : WriteNfo(s)
  <2>1. PICK s \in Tasks : WriteNfo(s)
    BY <1>4
  <2>2. /\ nfo' = [nfo EXCEPT ![s[1]] = IF @ = 0 THEN clock + 1 ELSE @] /\ s[1] \in Round
        /\ clock' = IF nfo[s[1]] = 0 THEN clock + 1 ELSE clock
        /\ UNCHANGED <<timeline, snapshot, row, pass, found>>
    BY <2>1, TaskRound DEF WriteNfo, download, reconciler
  <2>3. nfo \in [Round -> Nat]
    BY DEF IInv, Files
  <2> QED BY <2>1, <2>2, <2>3
<1> QED BY <1>2, <1>3, <1>4, Changes
\* The same of a scrape task, which is begun, fails, and writes.
LEMMA ScrapeTasks ==
    ASSUME IInv, [Next]_vars, NEW s \in Tasks
    PROVE  /\ Stays(scrape[s], scrape'[s])
           /\ scrape[s].status = "succeeded" => scrape'[s].status = "succeeded"
           /\ scrape[s].status = "none" /\ scrape'[s].status # "none" =>
                  /\ s = Current(scrape, s[1])
                  /\ \/ nfo[s[1]] = 0
                     \/ \E t \in Tasks : /\ t[1] = s[1] /\ transfer[t].pc = "scrape"
                                         /\ ~ Refused(scrape, s[1])
                  /\ UNCHANGED nfo
           /\ scrape'[s].pc = "write" =>
                  \/ scrape[s].pc = "write" /\ scrape'[s].attempts = scrape[s].attempts
                  \/ StartScrape(s)
           /\ scrape'[s].attempts = 0 => scrape[s].attempts = 0
           /\ scrape'[s].status \in {"queued", "running"} =>
                  scrape[s].status \in {"none", "queued", "running"}
           /\ scrape[s].pc \in {"scraped", "present", "ack"} =>
                  \/ scrape'[s].pc \in {"scraped", "present", "ack"}
                  \/ scrape'[s].status = "succeeded" \/ Crash
<1>1. /\ scrape \in [Tasks -> TaskOf(ScrapeStatus, ScrapePc)] /\ s[1] \in Round
      /\ scrape[s].pc # "idle" => scrape[s].status = "running"
  BY Running, TaskRound
<1>0. scrape[s].attempts \in Nat
  BY <1>1, MediaFlowAssumption DEF TaskOf
<1>2. CASE UNCHANGED scrape
  BY <1>2 DEF Stays
<1>3. ASSUME NEW r \in Round, NEW known \in BOOLEAN, scrape' = Enqueued(scrape, r, known)
      PROVE  /\ scrape'[s].status # scrape[s].status =>
                    /\ r = s[1] /\ s = Current(scrape, r) /\ scrape[s].status = "none"
                    /\ scrape'[s].status = "queued"
             /\ scrape'[s].pc = scrape[s].pc /\ scrape'[s].attempts = scrape[s].attempts
  <2>1. /\ scrape'[s].status = IF s = Current(scrape, r) /\ scrape[s].status = "none"
                               THEN "queued" ELSE scrape[s].status
        /\ scrape'[s].pc = scrape[s].pc /\ scrape'[s].attempts = scrape[s].attempts
    BY <1>1, <1>3, EnqueuedFields
  <2>2. Current(scrape, r)[1] = r
    BY CurrentTask
  <2> QED BY <2>1, <2>2
<1>4. CASE Spot
  <2>1. PICK r \in Round : \/ UNCHANGED scrape
                          \/ /\ nfo[r] = 0 /\ UNCHANGED nfo
                             /\ \E known \in BOOLEAN : scrape' = Enqueued(scrape, r, known)
    BY <1>4, SpotDoes DEF ScrapeInThread
  <2>2. CASE /\ nfo[r] = 0 /\ UNCHANGED nfo
             /\ \E known \in BOOLEAN : scrape' = Enqueued(scrape, r, known)
    BY <2>2, <1>3 DEF Stays
  <2> QED BY <1>2, <2>1, <2>2
<1>5. CASE \E t \in Tasks : SubmitScrape(t)
  <2>1. PICK t \in Tasks : SubmitScrape(t)
    BY <1>5
  <2>2. /\ transfer[t].pc = "scrape" /\ t[1] \in Round
        /\ \/ UNCHANGED scrape
           \/ /\ ~ Refused(scrape, t[1]) /\ UNCHANGED nfo
              /\ \E known \in BOOLEAN : scrape' = Enqueued(scrape, t[1], known)
    <3> DEFINE known == TRUE
    <3>1. known \in BOOLEAN
      OBVIOUS
    <3>2. /\ transfer[t].pc = "scrape" /\ t[1] \in Round
          /\ \/ UNCHANGED scrape
             \/ ~ Refused(scrape, t[1]) /\ UNCHANGED nfo /\ scrape' = Enqueued(scrape, t[1], known)
      BY <2>1, TaskRound DEF SubmitScrape, ScrapeInThread
    <3> HIDE DEF known
    <3> QED BY <3>1, <3>2
  <2>3. CASE /\ ~ Refused(scrape, t[1]) /\ UNCHANGED nfo
             /\ \E known \in BOOLEAN : scrape' = Enqueued(scrape, t[1], known)
    BY <2>2, <2>3, <1>3 DEF Stays
  <2> QED BY <1>2, <2>2, <2>3
<1>6. CASE Crash
  <2>1. scrape'[s] = [scrape[s] EXCEPT !.pc = "idle"]
    BY <1>6 DEF Crash
  <2>2. scrape[s] \in TaskOf(ScrapeStatus, ScrapePc)
    BY <1>1
  <2>3. /\ scrape'[s].status = scrape[s].status /\ scrape'[s].pc = "idle"
        /\ scrape'[s].attempts = scrape[s].attempts
    BY <2>1, <2>2 DEF TaskOf
  <2> QED BY <1>6, <2>3 DEF Stays
<1>7. ASSUME NEW u \in Tasks, ScrapeStep(u) \/ ScrapeFails(u)
      PROVE  /\ scrape'[s].status # scrape[s].status =>
                    scrape[s].status \in {"queued", "running"} /\ scrape'[s].status # "none"
             /\ scrape'[s].pc = "write" =>
                    \/ scrape[s].pc = "write" /\ scrape'[s].attempts = scrape[s].attempts
                    \/ StartScrape(s)
             /\ scrape'[s].attempts = 0 => scrape[s].attempts = 0
             /\ scrape[s].pc \in {"scraped", "present", "ack"} =>
                    \/ scrape'[s].pc \in {"scraped", "present", "ack"}
                    \/ scrape'[s].status = "succeeded"
  <2>0. scrape[u].pc # "idle" => scrape[u].status = "running"
    BY Running
  <2>1. CASE StartScrape(u)
    <3>1. /\ scrape' = [Step(scrape, u, "write") EXCEPT ![u].status = "running"]
          /\ Claimable(scrape, u)
      BY <2>1 DEF StartScrape
    <3>2. /\ scrape'[s].status = IF s = u THEN "running" ELSE scrape[s].status
          /\ scrape'[s].attempts = scrape[s].attempts
          /\ scrape'[s].pc = IF s = u THEN "write" ELSE scrape[s].pc
      BY <1>1, <3>1, StartFields
    <3> QED BY <2>1, <3>1, <3>2 DEF Claimable
  <2>2. CASE WriteNfo(u)
    <3>1. scrape' = Step(scrape, u, "scraped")
      BY <2>2 DEF WriteNfo
    <3>2. /\ scrape'[s].status = scrape[s].status /\ scrape'[s].attempts = scrape[s].attempts
          /\ scrape'[s].pc = IF s = u THEN "scraped" ELSE scrape[s].pc
      BY <1>1, <3>1, TaskFields
    <3> QED BY <3>2
  <2>3. CASE RecordScraped(u)
    <3>1. scrape' = Step(scrape, u, "present")
      BY <2>3 DEF RecordScraped
    <3>2. /\ scrape'[s].status = scrape[s].status /\ scrape'[s].attempts = scrape[s].attempts
          /\ scrape'[s].pc = IF s = u THEN "present" ELSE scrape[s].pc
      BY <1>1, <3>1, TaskFields
    <3> QED BY <3>2
  <2>4. CASE RecordPresent(u)
    <3>1. scrape' = Step(scrape, u, "ack")
      BY <2>4 DEF RecordPresent
    <3>2. /\ scrape'[s].status = scrape[s].status /\ scrape'[s].attempts = scrape[s].attempts
          /\ scrape'[s].pc = IF s = u THEN "ack" ELSE scrape[s].pc
      BY <1>1, <3>1, TaskFields
    <3> QED BY <3>2
  <2>5. CASE AckScrape(u)
    <3>1. scrape' = Ended(scrape, u, "succeeded") /\ scrape[u].pc = "ack"
      BY <2>5 DEF AckScrape
    <3>2. /\ scrape'[s].status = IF s = u THEN "succeeded" ELSE scrape[s].status
          /\ scrape'[s].attempts = scrape[s].attempts
          /\ scrape'[s].pc = IF s = u THEN "idle" ELSE scrape[s].pc
      BY <1>1, <3>1, TaskFields
    <3> QED BY <2>0, <3>1, <3>2
  <2>6. CASE ScrapeFails(u)
    <3>1. scrape' = Failed(scrape, u) /\ scrape[u].pc = "write"
      BY <2>6 DEF ScrapeFails
    <3>2. /\ s = u => scrape'[s].status \in {"queued", "dead"}
          /\ s # u => scrape'[s].status = scrape[s].status
          /\ scrape'[s].attempts = IF s = u THEN scrape[s].attempts + 1 ELSE scrape[s].attempts
          /\ scrape'[s].pc = IF s = u THEN "idle" ELSE scrape[s].pc
      BY <1>1, <3>1, FailedFields
    <3> QED BY <1>0, <2>0, <3>1, <3>2
  <2> QED BY <1>7, <2>1, <2>2, <2>3, <2>4, <2>5, <2>6 DEF ScrapeStep
<1>8. CASE \E u \in Tasks : ScrapeStep(u) \/ ScrapeFails(u)
  BY <1>7, <1>8 DEF Stays
<1> QED BY <1>2, <1>4, <1>5, <1>6, <1>8, Changes

-----------------------------------------------------------------------------
(* The last stage *)

\* No stage comes after "in_library".
LEMMA LastStage == \A kind \in Kinds : ~ (Rank(StageOf(kind)) > Rank("in_library"))
<1>1. /\ Stages[1] = "download_queued" /\ Stages[2] = "downloading" /\ Stages[3] = "downloaded"
      /\ Stages[4] = "transfer_queued" /\ Stages[5] = "transferring"
      /\ Stages[6] = "transferred" /\ Stages[7] = "scrape_queued" /\ Stages[8] = "scraping"
      /\ Stages[9] = "scraped" /\ Stages[10] = "in_library" /\ DOMAIN Stages = 1..10
  BY DEF Stages
<1>6. \A kind \in Kinds :
        StageOf(kind) \in {"download_queued", "downloading", "downloaded", "transfer_queued",
                           "transferring", "transferred", "scrape_queued", "scraping",
                           "scraped", "in_library"}
  BY DEF Kinds, StageOf
<1>7. \A name \in {"download_queued", "downloading", "downloaded", "transfer_queued",
                   "transferring", "transferred", "scrape_queued", "scraping",
                   "scraped", "in_library"} : \E i \in 1..10 : Stages[i] = name
  BY <1>1
<1>2. \A kind \in Kinds : \E i \in 1..10 : Stages[i] = StageOf(kind)
  BY <1>6, <1>7
<1>3. \A i \in 1..10 : Rank(Stages[i]) \in 1..10 /\ Stages[Rank(Stages[i])] = Stages[i]
  BY <1>1 DEF Rank
<1>4. \A i \in 1..10 : Stages[i] = "in_library" => i = 10
  BY <1>1
<1>5. Rank("in_library") = 10
  BY <1>1, <1>3, <1>4
<1> QED BY <1>2, <1>3, <1>5

\* What takes an episode out of the library: a new round that began later.
LEMMA Leaves ==
    ASSUME NEW old \in Snapshots, NEW kind \in Kinds, NEW time \in Nat,
           old.stage = "in_library", Project(old, kind, time).stage # "in_library"
    PROVE  kind \in Restarting /\ time > old.started
<1>1. ~ (Rank(StageOf(kind)) > Rank(old.stage)) /\ old # Nothing
  BY LastStage DEF Nothing
<1>2. SUFFICES ASSUME ~ (kind \in Restarting /\ time > old.started) PROVE FALSE
  OBVIOUS
<1>3. Project(old, kind, time) \in {[old EXCEPT !.last = time], old}
  BY <1>1, <1>2 DEF Project
<1>4. [old EXCEPT !.last = time].stage = old.stage
  BY DEF Snapshots
<1> QED BY <1>3, <1>4

Presenting == {"library.present", "reconcile.library.present"}
\* Only two kinds of event tell of the library.
LEMMA StagePresents == \A kind \in Kinds : StageOf(kind) = "in_library" => kind \in Presenting
BY DEF Kinds, StageOf, Presenting

\* What brings it there, and dates its arrival.
LEMMA Arrives ==
    ASSUME NEW old \in Snapshots, NEW kind \in Kinds, NEW time \in Nat,
           Project(old, kind, time).stage = "in_library"
    PROVE  \/ old.stage = "in_library" /\ Project(old, kind, time).started = old.started
           \/ kind \in Presenting /\ Project(old, kind, time).started = time
<1> DEFINE later == IF time > old.last THEN time ELSE old.last
           stage == StageOf(kind)
           new == Project(old, kind, time)
           same == [old EXCEPT !.last = time]
<1>1. \/ new = [stage |-> stage, started |-> time, last |-> time]
      \/ new = [stage |-> stage, started |-> time, last |-> later]
      \/ new = same
      \/ new = old
  BY DEF Project
<1>2. same.stage = old.stage /\ same.started = old.started
  BY DEF Snapshots
<1>3. stage = "in_library" => kind \in Presenting
  BY StagePresents
<1>4. new.stage = "in_library"
  OBVIOUS
<1> HIDE DEF later, stage, new, same
<1>5. \/ old.stage = "in_library" /\ new.started = old.started
      \/ kind \in Presenting /\ new.started = time
  <2>1. CASE new = same \/ new = old
    BY <1>2, <1>4, <2>1
  <2>2. CASE \/ new = [stage |-> stage, started |-> time, last |-> time]
             \/ new = [stage |-> stage, started |-> time, last |-> later]
    <3>1. new.stage = stage /\ new.started = time
      BY <2>2
    <3> QED BY <1>3, <1>4, <3>1
  <2> QED BY <1>1, <2>1, <2>2
<1> QED BY <1>5 DEF new

-----------------------------------------------------------------------------
(* The invariant of one round *)

Complete(r) == torrent[r] \in {"complete", "tagged"}

\* Nothing is dated in the future.
Past ==
    /\ \A r \in Round : row[r].date <= clock /\ nfo[r] <= clock
    /\ \A e \in pass : ~ FromTransfers(e) => e.time <= clock
    /\ \A key \in DOMAIN timeline : timeline[key] <= clock

\* Nothing happens to a file before its torrent is complete.
Completed ==
    /\ \A r \in Round : row[r].state \in {"none", "queued"} => torrent[r] = "none"
    /\ \A r \in Round : placed[r] > 0 => Complete(r)
    /\ \A t \in Tasks : transfer[t].status # "none" => Complete(t[1])
    /\ handler # Resting => Complete(handler.round) /\ handler.round \in emitted

\* The second task of a round exists only once the first was given up.
InTurn(queue) == \A r \in Round : queue[<<r, 2>>].status # "none" => Dead(queue, r, 1)

\* The reconciler tells downloads with dates before the metadata, and metadata with theirs.
Repeated ==
    /\ \A r \in Round : nfo[r] > 0 => row[r].date <= nfo[r]
    /\ \A e \in pass : ~ FromTransfers(e) /\ nfo[e.round] > 0 => e.time <= nfo[e.round]
    /\ \A r \in Round : found[r] \in {0, nfo[r]}

\* What is told of the library is told after the metadata were written, and so the episode
\* is not in it since before.
Present ==
    \A key \in DOMAIN timeline : key[1] = "library.present" =>
        \A r \in Round : nfo[r] > 0 /\ timeline[key] >= nfo[r]

Shown == LibraryDone => \A r \in Round : nfo[r] > 0 /\ snapshot.started >= nfo[r]

\* An event that was told only after the metadata were written could begin another round:
\* nobody is left to tell it again, but for a scrape that is tried again.
Late(key) == \E r \in Round : nfo[r] > 0 /\ timeline[key] > nfo[r]

LateQueued ==
    \A key \in DOMAIN timeline :
        key[1] = "transfer.queued" /\ Late(key) => handler = Resting /\ emitted = Round

LateSubmitted ==
    \A key \in DOMAIN timeline :
        key[1] = "scrape.queued" /\ Late(key) =>
            \A t \in Tasks : transfer[t].pc \notin {"scrape", "noted"}

Started(s) == <<"scrape.started", s, scrape[s].attempts>>

Begun ==
    \A s \in Tasks :
        /\ scrape[s].pc = "write" => Started(s) \in DOMAIN timeline
        /\ nfo[s[1]] > 0 /\ scrape[s].attempts = 0 /\ scrape[s].status \in {"queued", "running"} =>
               Started(s) \in DOMAIN timeline /\ timeline[Started(s)] <= nfo[s[1]]

\* Where a transfer has still to submit a file that has metadata, there is a scrape of it
\* that has written them, or no task is made of it.
Beyond(r) ==
    \/ \E n \in {1, 2} : \/ scrape[<<r, n>>].status = "succeeded"
                         \/ scrape[<<r, n>>].pc \in {"scraped", "present", "ack"}
    \/ Refused(scrape, r)

Unneeded == \A t \in Tasks : transfer[t].pc = "scrape" /\ nfo[t[1]] > 0 => Beyond(t[1])

RoundInv ==
    /\ Past /\ Completed /\ InTurn(transfer) /\ InTurn(scrape) /\ Repeated /\ Present /\ Shown
    /\ LateQueued /\ LateSubmitted /\ Begun /\ Unneeded
\* There is only one.
LEMMA OneRound == ASSUME Rounds <= 1 PROVE \A r, x \in Round : r = x
BY MediaFlowAssumption DEF Round
\* It holds at the beginning.
LEMMA InitRoundInv == Init => RoundInv
<1> SUFFICES ASSUME Init PROVE RoundInv
  OBVIOUS
<1>1. Past /\ Repeated /\ Present /\ LateQueued /\ LateSubmitted
  BY DEF Init, Past, Repeated, Present, LateQueued, LateSubmitted
<1>2. InTurn(transfer) /\ InTurn(scrape)
  BY DEF Init, InTurn, Fresh, Tasks
<1>4. Completed
  BY DEF Init, Completed, Fresh
<1>5. Begun /\ Unneeded
  BY TaskRound DEF Init, Begun, Unneeded, Fresh
<1>3. Shown
  BY DEF Init, Shown, LibraryDone, Nothing
<1> QED BY <1>1, <1>2, <1>3, <1>4, <1>5 DEF RoundInv

\* Only one of a round's two tasks is at work.
LEMMA OneAtWork ==
    ASSUME NEW queue, InTurn(queue), NEW t \in Tasks, NEW u \in Tasks, t[1] = u[1], t # u,
           queue[t].status \in {"queued", "running"}
    PROVE  queue[u].status \in {"none", "dead"}
<1>1. PICK r \in Round : {t, u} = {<<r, 1>>, <<r, 2>>}
  BY DEF Tasks
<1> QED BY <1>1 DEF InTurn, Dead

-----------------------------------------------------------------------------
(* What is told in a step *)

Quiet == UNCHANGED <<timeline, snapshot>> /\ clock' \in {clock, clock + 1}

\* When an event may be told.
Due(key) ==
    /\ key[1] \in Kinds /\ key[1] # "reconcile.library.present"
    /\ key[1] = "library.present" => \A r \in Round : nfo[r] > 0
    /\ key[1] = "transfer.queued" => handler' = Resting /\ emitted' = Round
    /\ key[1] = "scrape.queued" => \/ \A r \in Round : nfo[r] = 0
                                   \/ \A t \in Tasks : transfer'[t].pc \notin {"scrape", "noted"}
    /\ LibraryDone /\ key[1] \in Restarting /\ key \in DOMAIN timeline =>
           ~ Late(key) \/ \E s \in Tasks : Retried(s)

News(key) == Note(key) /\ UNCHANGED nfo /\ Due(key)

\* An event of a kind that begins no round and that nothing depends on.
Plain == {"download.completed", "transfer.failed", "transfer.completed", "scrape.failed",
          "scrape.completed"}
\* It may be told at any time.
LEMMA PlainDue == ASSUME NEW key, key[1] \in Plain PROVE Due(key)
BY DEF Due, Plain, Kinds, Restarting

\* A file that is there is reported only where it is not shown.
LEMMA ThereTold ==
    ASSUME Rounds <= 1, NEW r \in Round, IsThere(r), UNCHANGED nfo
    PROVE  Quiet \/ \E key : News(key)
<1>1. \A x \in Round : nfo[x] > 0
  BY OneRound DEF IsThere
<1>2. CASE LibraryDone
  BY <1>2 DEF IsThere, lifecycle, Quiet
<1>3. CASE ~ LibraryDone
  <2>1. Note(Reported)
    BY <1>3 DEF IsThere
  <2>2. Reported[1] = "library.present"
    BY DEF Reported
  <2>3. Due(Reported)
    BY <1>1, <1>3, <2>2 DEF Due, Kinds
  <2> QED BY <2>1, <2>3 DEF News
<1> QED BY <1>2, <1>3
\* The handler tells late only once, when nobody is left to begin it again.
LEMMA QueuedTold ==
    ASSUME Rounds <= 1, IInv, RoundInv, RecordQueued
    PROVE  \E key : News(key)
<1>1. /\ handler # Resting /\ handler.round \in emitted /\ handler' = Resting
      /\ UNCHANGED <<nfo, emitted>>
  BY DEF RecordQueued, Resting, RoundInv, Completed, files, download
<1>2. handler.key \in {"transfer.queued"} \X Tasks \X Nat /\ Note(handler.key)
  BY <1>1 DEF IInv, HandlerOK, RecordQueued
<1>3. handler.key[1] = "transfer.queued"
  BY <1>2
<1>4. emitted' = Round
  BY <1>1, OneRound DEF IInv, Downloads
<1>5. handler.key \in DOMAIN timeline => ~ Late(handler.key)
  BY <1>1, <1>3 DEF RoundInv, LateQueued
<1>6. Due(handler.key)
  BY <1>1, <1>3, <1>4, <1>5 DEF Due, Kinds
<1> QED BY <1>1, <1>2, <1>6 DEF News

\* Without metadata the episode is not in the library.
LEMMA NotYet ==
    ASSUME RoundInv, NEW r \in Round, nfo[r] = 0
    PROVE  ~ LibraryDone
BY DEF RoundInv, Shown
\* A transfer on the spot submits only what has no metadata.
LEMMA SpotTold ==
    ASSUME Rounds <= 1, IInv, RoundInv, Spot
    PROVE  Quiet \/ \E key : News(key)
<1>1. PICK r \in Round :
        \/ ScrapeInThread(r)
        \/ /\ nfo[r] = 0 /\ UNCHANGED nfo
           /\ \E s \in Tasks : Note(<<"scrape.queued", s, scrape[s].attempts>>)
        \/ IsThere(r) /\ UNCHANGED nfo
        \/ UNCHANGED lifecycle
  BY SpotDoes
<1>2. CASE ScrapeInThread(r)
  BY <1>2 DEF ScrapeInThread, Quiet
<1>3. CASE /\ nfo[r] = 0 /\ UNCHANGED nfo
           /\ \E s \in Tasks : Note(<<"scrape.queued", s, scrape[s].attempts>>)
  <2>1. PICK s \in Tasks : Note(<<"scrape.queued", s, scrape[s].attempts>>)
    BY <1>3
  <2>2. ~ LibraryDone /\ \A x \in Round : nfo[x] = 0
    BY <1>3, NotYet, OneRound
  <2> DEFINE key == <<"scrape.queued", s, scrape[s].attempts>>
  <2>3. key[1] = "scrape.queued" /\ Note(key)
    BY <2>1
  <2> HIDE DEF key
  <2>4. Due(key)
    BY <2>2, <2>3 DEF Due, Kinds
  <2> QED BY <1>3, <2>3, <2>4 DEF News
<1>4. CASE IsThere(r) /\ UNCHANGED nfo
  BY <1>4, ThereTold
<1>5. CASE UNCHANGED lifecycle
  BY <1>5 DEF lifecycle, Quiet
<1> QED BY <1>1, <1>2, <1>3, <1>4, <1>5
\* What a transfer task tells of its end is plain.
LEMMA ReportTold ==
    ASSUME IInv, NEW t \in Tasks, NEW kind \in Plain, Report(t, kind), UNCHANGED nfo
    PROVE  Quiet \/ \E key : News(key)
<1> DEFINE key == <<kind, t, transfer[t].attempts>>
<1>1. key[1] \in Plain /\ \/ UNCHANGED lifecycle
                          \/ Note(key)
  BY DEF Report
<1> HIDE DEF key
<1> QED BY <1>1, PlainDue DEF lifecycle, Quiet, News
\* A transfer task is begun only outside the library, and submits only once.
LEMMA TransferTold ==
    ASSUME Rounds <= 1, IInv, RoundInv, NEW t \in Tasks, TransferStep(t) \/ TransferFails(t)
    PROVE  Quiet \/ \E key : News(key)
<1> USE DEF lifecycle, files, Quiet
<1>0. clock \in Nat
  BY DEF IInv, Lifecycle
<1>1. CASE Skip(t)
  BY <1>1 DEF Skip
<1>2. CASE StartTransfer(t)
  <2>1. CASE ~ transfer[t].known
    BY <1>2, <2>1 DEF StartTransfer, Report
  <2>2. CASE transfer[t].known
    <3> DEFINE key == <<"transfer.started", t, transfer[t].attempts>>
    <3>1. Note(key) /\ key[1] = "transfer.started" /\ ~ LibraryDone /\ UNCHANGED nfo
      BY <1>2, <2>2 DEF StartTransfer, Report
    <3> HIDE DEF key
    <3>2. Due(key)
      BY <3>1 DEF Due, Kinds
    <3> QED BY <3>1, <3>2 DEF News
  <2> QED BY <2>1, <2>2
<1>3. CASE Place(t)
  BY <1>3 DEF Place
<1>4. CASE Duplicate(t)
  <2>1. UNCHANGED nfo /\ (UNCHANGED lifecycle \/ IsThere(t[1]))
    BY <1>4 DEF Duplicate
  <2> QED BY <2>1, ThereTold, TaskRound
<1>5. CASE SubmitScrape(t)
  BY <1>5 DEF SubmitScrape, ScrapeInThread
<1>6. CASE RecordScrape(t)
  <2>1. /\ transfer[t].pc = "noted" /\ Note(transfer[t].key) /\ UNCHANGED nfo
        /\ transfer' = Keyed(transfer, t, "finish", <<>>)
    BY <1>6 DEF RecordScrape
  <2>2. transfer[t].key[1] = "scrape.queued"
    <3>1. transfer[t].key \in {"scrape.queued"} \X Tasks \X Nat
      BY <2>1 DEF IInv, TransferSteps
    <3> QED BY <3>1
  <2>3. transfer[t].key \in DOMAIN timeline => ~ Late(transfer[t].key)
    BY <2>1, <2>2 DEF RoundInv, LateSubmitted
  <2>4. ASSUME NEW u \in Tasks PROVE transfer'[u].pc \notin {"scrape", "noted"}
    <3>1. transfer'[u].pc = IF u = t THEN "finish" ELSE transfer[u].pc
      BY <2>1, Running, TaskFields
    <3>2. CASE u # t
      <4>1. transfer[t].status = "running" /\ t[1] = u[1] /\ InTurn(transfer)
        BY <2>1, Running, OneRound, TaskRound DEF RoundInv
      <4>2. transfer[u].status \in {"none", "dead"}
        BY <3>2, <4>1, OneAtWork
      <4>3. transfer[u].pc = "idle"
        BY <4>2, Running
      <4> QED BY <3>1, <3>2, <4>3
    <3> QED BY <3>1, <3>2
  <2>5. Due(transfer[t].key)
    BY <2>2, <2>3, <2>4 DEF Due, Kinds
  <2> QED BY <2>1, <2>5 DEF News
<1>7. CASE FinishTransfer(t)
  <2>1. Report(t, "transfer.completed") /\ UNCHANGED nfo
    BY <1>7 DEF FinishTransfer
  <2> QED BY <2>1, ReportTold DEF Plain
<1>8. CASE AckTransfer(t)
  BY <1>8 DEF AckTransfer
<1>9. CASE TransferFails(t)
  <2>1. Report(t, "transfer.failed") /\ UNCHANGED nfo
    BY <1>9 DEF TransferFails
  <2> QED BY <2>1, ReportTold DEF Plain
<1> QED BY <1>1, <1>2, <1>3, <1>4, <1>5, <1>6, <1>7, <1>8, <1>9 DEF TransferStep
\* A scrape task is begun for the first time before the metadata are written.
LEMMA ScrapeTold ==
    ASSUME Rounds <= 1, IInv, RoundInv, NEW s \in Tasks, ScrapeStep(s) \/ ScrapeFails(s)
    PROVE  Quiet \/ \E key : News(key)
<1> USE DEF files
<1>1. ASSUME NEW kind \in Plain, NoteScrape(s, kind), UNCHANGED nfo
      PROVE  \E key : News(key)
  <2> DEFINE key == <<kind, s, scrape[s].attempts>>
  <2>1. key[1] \in Plain /\ Note(key)
    BY <1>1 DEF NoteScrape
  <2> HIDE DEF key
  <2> QED BY <1>1, <2>1, PlainDue DEF News
<1>2. CASE StartScrape(s)
  <2> DEFINE key == Started(s)
  <2>1. Note(key) /\ key[1] = "scrape.started" /\ UNCHANGED nfo
    BY <1>2 DEF StartScrape, NoteScrape, Started
  <2>2. scrape[s].attempts > 0 => Retried(s)
    <3>1. /\ scrape[s].pc = "idle"
          /\ scrape' = [Step(scrape, s, "write") EXCEPT ![s].status = "running"]
      BY <1>2 DEF StartScrape, Claimable
    <3>2. scrape'[s].pc = "write"
      BY <3>1, Running, StartFields
    <3> QED BY <3>1, <3>2 DEF Retried
  <2>3. LibraryDone /\ scrape[s].attempts = 0 => timeline[key] <= nfo[s[1]]
    <3>1. LibraryDone => nfo[s[1]] > 0
      BY TaskRound DEF RoundInv, Shown
    <3>2. scrape[s].status \in {"queued", "running"}
      BY <1>2 DEF StartScrape, Claimable
    <3> QED BY <3>1, <3>2 DEF RoundInv, Begun
  <2>4. scrape[s].attempts \in Nat
    <3>1. scrape[s] \in TaskOf(ScrapeStatus, ScrapePc)
      BY Running
    <3> QED BY <3>1, MediaFlowAssumption DEF TaskOf
  <2>5. LibraryDone /\ key \in DOMAIN timeline => ~ Late(key) \/ Retried(s)
    <3>1. CASE scrape[s].attempts > 0
      BY <2>2, <3>1
    <3>2. CASE scrape[s].attempts = 0
      <4>1. key \in DOMAIN timeline => timeline[key] \in Nat
        BY DEF IInv, Lifecycle, Dates
      <4>2. s[1] \in Round /\ \A x \in Round : x = s[1] /\ nfo[x] \in Nat
        BY TaskRound, OneRound DEF IInv, Files
      <4> HIDE DEF key
      <4> QED BY <2>3, <3>2, <4>1, <4>2 DEF Late
    <3> QED BY <2>4, <3>1, <3>2
  <2> HIDE DEF key
  <2>6. Due(key)
    BY <2>1, <2>5 DEF Due, Kinds
  <2> QED BY <2>1, <2>6 DEF News
<1>3. CASE ScrapeFails(s)
  BY <1>1, <1>3 DEF ScrapeFails, Plain
<1>4. CASE WriteNfo(s)
  <2>1. UNCHANGED <<timeline, snapshot>> /\ clock' = IF nfo[s[1]] = 0 THEN clock + 1 ELSE clock
    BY <1>4 DEF WriteNfo
  <2> QED BY <2>1 DEF Quiet
<1>5. CASE RecordScraped(s)
  BY <1>1, <1>5 DEF RecordScraped, Plain
<1>6. CASE RecordPresent(s)
  <2> DEFINE key == <<"library.present", s, scrape[s].attempts>>
  <2>1. Note(key) /\ key[1] = "library.present" /\ UNCHANGED nfo /\ scrape[s].pc = "present"
    BY <1>6 DEF RecordPresent, NoteScrape
  <2>2. nfo[s[1]] > 0
    BY <2>1 DEF IInv, ScrapeSteps
  <2>3. \A x \in Round : nfo[x] > 0
    BY <2>2, TaskRound, OneRound
  <2> HIDE DEF key
  <2>4. Due(key)
    BY <2>1, <2>3 DEF Due, Kinds, Restarting
  <2> QED BY <2>1, <2>4 DEF News
<1>7. CASE AckScrape(s)
  BY <1>7 DEF AckScrape, lifecycle, Quiet
<1> QED BY <1>2, <1>3, <1>4, <1>5, <1>6, <1>7 DEF ScrapeStep

\* A step tells nothing, or an event that is due, or a download is asked for or begun, or the
\* reconciler repeats what it has read.
LEMMA Tidings ==
    ASSUME Rounds <= 1, IInv, RoundInv, [Next]_vars
    PROVE  \/ Quiet \/ ReconcileNext
           \/ \E key : News(key)
           \/ \E r \in Round : Request(r) \/ Add(r)
<1>1. CASE UNCHANGED lifecycle
  BY <1>1 DEF lifecycle, Quiet
<1>2. CASE \E r \in Round : Emit(r)
  <2>1. PICK r \in Round : Emit(r)
    BY <1>2
  <2> DEFINE key == <<"download.completed", r>>
  <2>2. Note(key) /\ key[1] \in Plain /\ UNCHANGED nfo
    BY <2>1 DEF Emit, files, Plain
  <2> HIDE DEF key
  <2> QED BY <2>2, PlainDue DEF News
<1>3. CASE \E t \in Tasks : TransferStep(t) \/ TransferFails(t)
  BY <1>3, TransferTold
<1>4. CASE \E s \in Tasks : ScrapeStep(s) \/ ScrapeFails(s)
  BY <1>4, ScrapeTold
<1> QED BY <1>1, <1>2, <1>3, <1>4, SpotTold, QueuedTold, Changes DEF TransferStep

\* What is told is dated with the clock and keeps its date, until the keys are forgotten.
LEMMA Growth ==
    ASSUME Rounds <= 1, IInv, RoundInv, [Next]_vars
    PROVE  /\ clock' \in Nat /\ clock' >= clock
           /\ \A key \in DOMAIN timeline' :
                 \/ key \in DOMAIN timeline /\ timeline'[key] = timeline[key]
                 \/ timeline'[key] = clock + 1 /\ clock' = clock + 1 /\ UNCHANGED nfo /\ Due(key)
           /\ \/ \A key \in DOMAIN timeline :
                    key \in DOMAIN timeline' /\ timeline'[key] = timeline[key]
              \/ \E r \in Round : Request(r)
<1>0. clock \in Nat
  BY DEF IInv, Lifecycle
<1>1. CASE Quiet
  BY <1>0, <1>1 DEF Quiet
<1>2. CASE ReconcileNext
  BY <1>0, <1>2 DEF ReconcileNext
<1>3. CASE \E key : News(key)
  <2>1. PICK key : News(key)
    BY <1>3
  <2>2. CASE key \in DOMAIN timeline
    BY <1>0, <2>1, <2>2 DEF News, Note, Record
  <2>3. CASE key \notin DOMAIN timeline
    <3>1. /\ clock' = clock + 1 /\ timeline' = Dated(key, clock + 1) /\ UNCHANGED nfo /\ Due(key)
      BY <2>1, <2>3 DEF News, Note, Record
    <3>2. /\ DOMAIN timeline' = (DOMAIN timeline) \cup {key}
          /\ \A k \in DOMAIN timeline' : timeline'[k] = IF k = key THEN clock + 1 ELSE timeline[k]
      BY <3>1 DEF Dated
    <3> QED BY <1>0, <2>3, <3>1, <3>2
  <2> QED BY <2>2, <2>3
<1>4. CASE \E r \in Round : Request(r)
  <2>1. /\ clock' = clock + 1
        /\ timeline' = Restrict(timeline, DOMAIN timeline \cap {Reported})
    BY <1>4 DEF Request
  <2>2. \A key \in DOMAIN timeline' : key \in DOMAIN timeline /\ timeline'[key] = timeline[key]
    BY <2>1 DEF Restrict
  <2> QED BY <1>0, <1>4, <2>1, <2>2
<1>5. CASE \E r \in Round : Add(r)
  BY <1>0, <1>5 DEF Add, Tell
<1> QED BY <1>1, <1>2, <1>3, <1>4, <1>5, Tidings

\* A download is asked for, or begun, while nothing has been done for it.
LEMMA NothingYet ==
    ASSUME Rounds <= 1, IInv, RoundInv, NEW r \in Round, Request(r) \/ Add(r)
    PROVE  /\ \A x \in Round : placed[x] = 0 /\ nfo[x] = 0 /\ ~ Complete(x) /\ torrent[x] = "none"
           /\ \A t \in Tasks : transfer[t].status = "none" /\ scrape[t].status = "none"
<1>1. \A x \in Round : torrent[x] = "none"
  BY OneRound DEF Request, Add, RoundInv, Completed
<1>2. \A x \in Round : ~ Complete(x)
  BY <1>1 DEF Complete
<1>3. \A x \in Round : placed[x] = 0 /\ nfo[x] = 0
  BY <1>2 DEF RoundInv, Completed, IInv, Files, NfoSubmitted
<1>4. \A t \in Tasks : transfer[t].status = "none" /\ scrape[t].status = "none"
  BY <1>2, <1>3, TaskRound DEF RoundInv, Completed, IInv, ScrapeSteps
<1> QED BY <1>1, <1>2, <1>3, <1>4

\* The dates of the rows, of what is read from them, and of the metadata.
LEMMA RowDates ==
    ASSUME IInv, [Next]_vars, NEW r \in Round
    PROVE  row'[r].date = row[r].date \/ (row'[r].date = clock + 1 /\ clock' = clock + 1
                                          /\ \E x \in Round : Request(x) \/ Add(x))
<1>1. row \in [Round -> [state : {"none", "queued", "downloading", "completed"}, date : Nat]]
  BY DEF IInv, Downloads
<1>2. CASE \E x \in Round : Request(x)
  <2> DEFINE asked == [state |-> "queued", date |-> clock + 1]
  <2>1. PICK x \in Round : row' = [row EXCEPT ![x] = asked] /\ clock' = clock + 1
    BY <1>2 DEF Request
  <2>2. asked.date = clock + 1
    OBVIOUS
  <2> HIDE DEF asked
  <2>3. row'[r] = IF r = x THEN asked ELSE row[r]
    BY <1>1, <2>1
  <2> QED BY <1>2, <2>1, <2>2, <2>3
<1>3. CASE \E x \in Round : Add(x)
  <2> DEFINE asked == [state |-> "downloading", date |-> clock + 1]
  <2>1. PICK x \in Round : row' = [row EXCEPT ![x] = asked] /\ clock' = clock + 1
    BY <1>3 DEF Add
  <2>2. asked.date = clock + 1
    OBVIOUS
  <2> HIDE DEF asked
  <2>3. row'[r] = IF r = x THEN asked ELSE row[r]
    BY <1>1, <2>1
  <2> QED BY <1>3, <2>1, <2>2, <2>3
<1>4. CASE \E x \in Round : MarkCompleted(x)
  <2>1. PICK x \in Round : row' = [row EXCEPT ![x].state = "completed"]
    BY <1>4 DEF MarkCompleted
  <2>2. row[x] \in [state : {"none", "queued", "downloading", "completed"}, date : Nat]
    BY <1>1
  <2>3. [row[x] EXCEPT !.state = "completed"].date = row[x].date
    BY <2>2
  <2>4. row'[r] = IF r = x THEN [row[x] EXCEPT !.state = "completed"] ELSE row[r]
    BY <1>1, <2>1
  <2> QED BY <2>3, <2>4
<1> QED BY <1>2, <1>3, <1>4, Changes
\* What the reconciler reads of the downloads is dated as their rows.
LEMMA PassDates ==
    ASSUME [Next]_vars, NEW e \in pass', ~ FromTransfers(e)
    PROVE  e \in pass \/ (e.round \in Round /\ e.time = row[e.round].date)
<1>1. CASE Reconcile
  <2>1. \A r \in Round : FromTransfers(FromTransfer(r))
    BY DEF FromTransfer, FromTransfers
  <2>2. PICK r \in Round : e = FromRow(r)
    BY <1>1, <2>1 DEF Reconcile
  <2>3. FromRow(r).round = r /\ FromRow(r).time = row[r].date
    BY DEF FromRow
  <2> QED BY <2>2, <2>3
<1>2. CASE ReconcileNext
  <2>1. PICK f \in pass : pass' = pass \ {f}
    BY <1>2 DEF ReconcileNext
  <2> QED BY <2>1
<1>3. CASE Crash
  BY <1>3 DEF Crash
<1> QED BY <1>1, <1>2, <1>3, Changes
\* One lemma for each part of the invariant.
LEMMA PastStep ==
    ASSUME Rounds <= 1, IInv, RoundInv, [Next]_vars
    PROVE  Past'
<1>0. clock \in Nat /\ clock' \in Nat /\ clock' >= clock /\ Past
  BY Growth DEF IInv, Lifecycle, RoundInv
<1>1. ASSUME NEW r \in Round PROVE row'[r].date <= clock'
  <2>1. row[r].date \in Nat
    BY DEF IInv, Downloads
  <2> QED BY <1>0, <2>1, RowDates DEF Past
<1>2. ASSUME NEW r \in Round PROVE nfo'[r] <= clock'
  <2>1. nfo \in [Round -> Nat]
    BY DEF IInv, Files
  <2>2. nfo'[r] = nfo[r] \/ (nfo'[r] = clock + 1 /\ clock' = clock + 1)
    BY <2>1, NfoWritten
  <2> QED BY <1>0, <2>1, <2>2 DEF Past
<1>3. ASSUME NEW e \in pass', ~ FromTransfers(e) PROVE e.time <= clock'
  <2>1. CASE e \in pass
    <3>1. e.time \in Nat
      BY <2>1 DEF IInv, Reconciling, Report3
    <3> QED BY <1>0, <1>3, <2>1, <3>1 DEF Past
  <2>2. CASE e.round \in Round /\ e.time = row[e.round].date
    <3>1. row[e.round].date \in Nat
      BY <2>2 DEF IInv, Downloads
    <3> QED BY <1>0, <2>2, <3>1 DEF Past
  <2> QED BY <1>3, <2>1, <2>2, PassDates
<1>4. ASSUME NEW key \in DOMAIN timeline' PROVE timeline'[key] <= clock'
  <2>1. CASE key \in DOMAIN timeline /\ timeline'[key] = timeline[key]
    <3>1. timeline[key] \in Nat
      BY <2>1 DEF IInv, Lifecycle, Dates
    <3> QED BY <1>0, <2>1, <3>1 DEF Past
  <2> QED BY <1>0, <2>1, Growth
<1> QED BY <1>1, <1>2, <1>3, <1>4 DEF Past, FromTransfers

\* What the handler was told of is complete, and has been told.
LEMMA HandlerMoves ==
    ASSUME IInv, [Next]_vars
    PROVE  \/ handler' = Resting
           \/ handler # Resting /\ handler'.round = handler.round /\ UNCHANGED emitted
           \/ \E r \in Round : /\ torrent[r] = "complete" /\ handler'.round = r
                               /\ emitted' = emitted \cup {r} /\ r \notin emitted
<1>0. /\ handler = Resting \/ handler # Resting
      /\ handler \in {Resting} \cup [pc : {"submit", "enqueue"}, round : Round, key : {<<>>}]
                \cup [pc : {"queued"}, round : Round, key : {"transfer.queued"} \X Tasks \X Nat]
  BY DEF IInv, HandlerOK
<1>1. CASE Crash
  BY <1>1 DEF Crash
<1>2. CASE \E r \in Round : Emit(r)
  <2>1. PICK r \in Round : /\ torrent[r] = "complete" /\ r \notin emitted
                           /\ emitted' = emitted \cup {r}
                           /\ handler' = [Resting EXCEPT !.pc = "submit", !.round = r]
    BY <1>2 DEF Emit
  <2>2. handler'.round = r
    BY <2>1 DEF Resting
  <2> QED BY <2>1, <2>2
<1>3. CASE UNCHANGED handler /\ ~ \E r \in Round : Emit(r)
  BY <1>0, <1>1, <1>3, Changes
<1>4. CASE Submit
  <2>1. handler # Resting /\ UNCHANGED emitted
    BY <1>4 DEF Submit, Resting, download
  <2>2. handler' = Resting \/ handler' = [handler EXCEPT !.pc = "enqueue"]
    BY <1>4 DEF Submit
  <2>3. [handler EXCEPT !.pc = "enqueue"].round = handler.round
    BY <1>0, <2>1
  <2> QED BY <2>1, <2>2, <2>3
<1>5. CASE Enqueue
  <2>1. handler # Resting /\ UNCHANGED emitted
    BY <1>5 DEF Enqueue, Resting, download
  <2>2. PICK key : handler' = Resting \/ handler' = [handler EXCEPT !.pc = "queued", !.key = key]
    BY <1>5 DEF Enqueue
  <2>3. [handler EXCEPT !.pc = "queued", !.key = key].round = handler.round
    BY <1>0, <2>1
  <2> QED BY <2>1, <2>2, <2>3
<1>6. CASE RecordQueued \/ HandlerDirect
  BY <1>6 DEF RecordQueued, HandlerDirect
<1> QED BY <1>1, <1>2, <1>3, <1>4, <1>5, <1>6, Changes

\* A torrent that is complete stays so.
LEMMA TorrentMoves ==
    ASSUME Rounds <= 1, IInv, RoundInv, [Next]_vars, NEW r \in Round
    PROVE  /\ Complete(r) => torrent'[r] \in {"complete", "tagged"}
           /\ row'[r].state \in {"none", "queued"} => torrent'[r] = "none"
<1>1. torrent \in [Round -> {"none", "downloading", "complete", "tagged"}]
  BY DEF IInv, Downloads
<1>2. row \in [Round -> [state : {"none", "queued", "downloading", "completed"}, date : Nat]]
  BY DEF IInv, Downloads
<1>3. row[r].state \in {"none", "queued"} => torrent[r] = "none"
  BY DEF RoundInv, Completed
<1>4. CASE \E x \in Round : Request(x)
  <2>1. PICK x \in Round : Request(x)
    BY <1>4
  <2>2. torrent[r] = "none" /\ UNCHANGED torrent
    BY <2>1, NothingYet DEF Request
  <2> QED BY <2>2 DEF Complete
<1>5. CASE \E x \in Round : Add(x)
  <2> DEFINE added == [state |-> "downloading", date |-> clock + 1]
  <2>1. PICK x \in Round : Add(x)
    BY <1>5
  <2>2. r = x /\ torrent[r] = "none" /\ row' = [row EXCEPT ![x] = added]
    BY <2>1, NothingYet, OneRound DEF Add
  <2>3. added.state = "downloading"
    OBVIOUS
  <2> HIDE DEF added
  <2>4. row'[r].state = "downloading"
    BY <1>2, <2>2, <2>3
  <2> QED BY <2>2, <2>4 DEF Complete
<1>6. CASE ~ (\E x \in Round : Request(x) \/ Add(x))
  <2>1. row'[r].state \in {"none", "queued"} => row[r].state \in {"none", "queued"}
    <3>1. CASE \E x \in Round : MarkCompleted(x)
      <4>1. PICK x \in Round : row' = [row EXCEPT ![x].state = "completed"]
        BY <3>1 DEF MarkCompleted
      <4>2. row[x] \in [state : {"none", "queued", "downloading", "completed"}, date : Nat]
        BY <1>2
      <4>3. [row[x] EXCEPT !.state = "completed"].state = "completed"
        BY <4>2
      <4>4. row'[r] = IF r = x THEN [row[x] EXCEPT !.state = "completed"] ELSE row[r]
        BY <1>2, <4>1
      <4> QED BY <4>3, <4>4
    <3>2. CASE UNCHANGED row
      BY <3>2
    <3> QED BY <1>6, <3>1, <3>2, Changes
  <2>2. \/ torrent'[r] = torrent[r]
        \/ torrent[r] = "downloading" /\ torrent'[r] = "complete"
        \/ torrent'[r] = "tagged" /\ Complete(r)
        \/ torrent'[r] = "tagged" /\ \E t \in Tasks : t[1] = r /\ transfer[t].status # "none"
    <3>1. CASE Spot
      <4>1. PICK x \in Round : Refused(transfer, x) /\ torrent' = [torrent EXCEPT ![x] = "tagged"]
        BY <3>1, SpotDoes
      <4>2. transfer[<<x, 1>>].status # "none" /\ <<x, 1>> \in Tasks /\ <<x, 1>>[1] = x
        BY <4>1, CurrentTask DEF Refused, Dead
      <4> QED BY <1>1, <4>1, <4>2
    <3>2. CASE \E x \in Round : Finish(x)
      BY <1>1, <3>2 DEF Finish
    <3>3. CASE \E t \in Tasks : FinishTransfer(t)
      <4>1. PICK t \in Tasks : FinishTransfer(t)
        BY <3>3
      <4>2. torrent' = [torrent EXCEPT ![t[1]] = "tagged"] /\ transfer[t].pc = "finish"
        BY <4>1 DEF FinishTransfer
      <4>3. transfer[t].status = "running" /\ t[1] \in Round
        BY <4>2, Running, TaskRound
      <4> QED BY <1>1, <4>2, <4>3
    <3>4. CASE UNCHANGED torrent
      BY <3>4
    <3> QED BY <1>6, <3>1, <3>2, <3>3, <3>4, Changes
  <2>3. (\E t \in Tasks : t[1] = r /\ transfer[t].status # "none") => Complete(r)
    BY DEF RoundInv, Completed
  <2> QED BY <1>3, <2>1, <2>2, <2>3 DEF Complete
<1> QED BY <1>4, <1>5, <1>6
\* Nothing happens to a file before its torrent is complete.
LEMMA CompletedStep ==
    ASSUME Rounds <= 1, IInv, RoundInv, [Next]_vars
    PROVE  Completed'
<1>1. ASSUME NEW r \in Round, row'[r].state \in {"none", "queued"} PROVE torrent'[r] = "none"
  BY <1>1, TorrentMoves
<1>2. ASSUME NEW r \in Round, placed'[r] > 0 PROVE torrent'[r] \in {"complete", "tagged"}
  <2>0. /\ placed \in [Round -> Nat]
        /\ torrent \in [Round -> {"none", "downloading", "complete", "tagged"}]
    BY DEF IInv, Files, Downloads
  <2>1. CASE placed[r] > 0
    BY <2>1, TorrentMoves DEF RoundInv, Completed
  <2>2. CASE Spot /\ ~ (placed[r] > 0)
    <3>1. PICK x \in Round : /\ torrent' = [torrent EXCEPT ![x] = "tagged"]
                             /\ \/ placed' = [placed EXCEPT ![x] = IF @ = 0 THEN clock ELSE @]
                                \/ UNCHANGED placed
      BY <2>2, SpotDoes
    <3>2. x = r
      BY OneRound
    <3> QED BY <2>0, <3>1, <3>2
  <2>3. CASE \E t \in Tasks : Place(t)
    <3>1. PICK t \in Tasks : Place(t)
      BY <2>3
    <3>2. transfer[t].status = "running" /\ t[1] = r
      BY <3>1, Running, TaskRound, OneRound DEF Place
    <3> QED BY <3>2, TorrentMoves DEF RoundInv, Completed
  <2> QED BY <1>2, <2>0, <2>1, <2>2, <2>3, Changes
<1>3. ASSUME NEW t \in Tasks, transfer'[t].status # "none"
      PROVE  torrent'[t[1]] \in {"complete", "tagged"}
  <2>1. Complete(t[1])
    <3>1. CASE transfer[t].status # "none"
      BY <3>1 DEF RoundInv, Completed
    <3>2. CASE transfer[t].status = "none"
      <4>1. torrent[t[1]] = "complete" \/ (handler.pc = "enqueue" /\ handler.round = t[1])
        BY <1>3, <3>2, TransferTasks
      <4> QED BY <4>1 DEF RoundInv, Completed, Resting, Complete
    <3> QED BY <3>1, <3>2
  <2> QED BY <2>1, TorrentMoves, TaskRound
<1>4. ASSUME handler' # Resting
      PROVE  torrent'[handler'.round] \in {"complete", "tagged"} /\ handler'.round \in emitted'
  <2>1. CASE handler # Resting /\ handler'.round = handler.round /\ UNCHANGED emitted
    <3>1. Complete(handler.round) /\ handler.round \in emitted /\ handler.round \in Round
      BY <2>1 DEF RoundInv, Completed, IInv, Downloads
    <3> QED BY <2>1, <3>1, TorrentMoves
  <2>2. CASE \E r \in Round : /\ torrent[r] = "complete" /\ handler'.round = r
                              /\ emitted' = emitted \cup {r} /\ r \notin emitted
    BY <2>2, TorrentMoves DEF Complete
  <2> QED BY <1>4, <2>1, <2>2, HandlerMoves
<1>5. Completed' <=>
        /\ \A r \in Round : row'[r].state \in {"none", "queued"} => torrent'[r] = "none"
        /\ \A r \in Round : placed'[r] > 0 => torrent'[r] \in {"complete", "tagged"}
        /\ \A t \in Tasks :
              transfer'[t].status # "none" => torrent'[t[1]] \in {"complete", "tagged"}
        /\ handler' # Resting => /\ torrent'[handler'.round] \in {"complete", "tagged"}
                                 /\ handler'.round \in emitted'
  BY DEF Completed, Complete, Resting
<1> QED BY <1>1, <1>2, <1>3, <1>4, <1>5
\* The second task waits for the first to be given up.
LEMMA InTurnStep ==
    ASSUME IInv, RoundInv, [Next]_vars
    PROVE  InTurn(transfer') /\ InTurn(scrape')
<1>1. ASSUME NEW r \in Round, transfer'[<<r, 2>>].status # "none" PROVE Dead(transfer', r, 1)
  <2>1. <<r, 1>> \in Tasks /\ <<r, 2>> \in Tasks
    BY DEF Tasks
  <2>2. Dead(transfer, r, 1)
    <3>1. CASE transfer[<<r, 2>>].status # "none"
      BY <3>1 DEF RoundInv, InTurn
    <3>2. CASE transfer[<<r, 2>>].status = "none"
      <4>1. <<r, 2>> = Current(transfer, r)
        BY <1>1, <2>1, <3>2, TransferTasks
      <4> QED BY <4>1 DEF Current
    <3> QED BY <3>1, <3>2
  <2> QED BY <2>1, <2>2, TransferTasks DEF Dead, Stays
<1>2. ASSUME NEW r \in Round, scrape'[<<r, 2>>].status # "none" PROVE Dead(scrape', r, 1)
  <2>1. <<r, 1>> \in Tasks /\ <<r, 2>> \in Tasks
    BY DEF Tasks
  <2>2. Dead(scrape, r, 1)
    <3>1. CASE scrape[<<r, 2>>].status # "none"
      BY <3>1 DEF RoundInv, InTurn
    <3>2. CASE scrape[<<r, 2>>].status = "none"
      <4>1. <<r, 2>> = Current(scrape, r)
        BY <1>2, <2>1, <3>2, ScrapeTasks
      <4> QED BY <4>1 DEF Current
    <3> QED BY <3>1, <3>2
  <2> QED BY <2>1, <2>2, ScrapeTasks DEF Dead, Stays
<1> QED BY <1>1, <1>2 DEF InTurn

\* What the reconciler finds is the date of the metadata.
LEMMA FindsDate ==
    ASSUME Rounds <= 1, ~ Neighbour, IInv, RoundInv, NEW e \in pass, Metadata # {},
           NEW date \in IF found[e.round] > 0 THEN {found[e.round]} ELSE Metadata
    PROVE  /\ e.round \in Round /\ date = nfo[e.round] /\ nfo[e.round] > 0
<1>1. e.round \in Round /\ nfo \in [Round -> Nat] /\ found \in [Round -> Nat]
  BY DEF IInv, Reconciling, Report3, Files
<1>2. Metadata = {nfo[r] : r \in {x \in Round : nfo[x] > 0}}
  BY DEF Metadata
<1>3. \A d \in Metadata : d = nfo[e.round] /\ nfo[e.round] > 0
  BY <1>1, <1>2, OneRound
<1>4. found[e.round] \in {0, nfo[e.round]}
  BY <1>1 DEF RoundInv, Repeated
<1>5. CASE found[e.round] > 0
  BY <1>1, <1>4, <1>5
<1>6. CASE ~ (found[e.round] > 0)
  BY <1>1, <1>3, <1>6
<1> QED BY <1>5, <1>6
\* The reconciler's dates stay those of the rows and of the metadata.
LEMMA RepeatedStep ==
    ASSUME Rounds <= 1, ~ Neighbour, IInv, RoundInv, [Next]_vars
    PROVE  Repeated'
<1>0. /\ clock \in Nat /\ Past /\ Repeated /\ nfo \in [Round -> Nat]
      /\ \A r \in Round : row[r].date \in Nat
  BY DEF IInv, Lifecycle, RoundInv, Files, Downloads
<1>1. \A r \in Round : nfo'[r] = nfo[r] \/ (nfo[r] = 0 /\ nfo'[r] = clock + 1)
  BY <1>0, NfoWritten
<1>2. ASSUME NEW r \in Round, nfo'[r] > 0 PROVE row'[r].date <= nfo'[r]
  <2>1. CASE row'[r].date = row[r].date
    BY <1>0, <1>1, <1>2, <2>1 DEF Past, Repeated
  <2>2. CASE \E x \in Round : Request(x) \/ Add(x)
    <3>1. nfo[r] = 0 /\ UNCHANGED nfo
      BY <2>2, NothingYet DEF Request, Add, files
    <3> QED BY <1>2, <3>1
  <2> QED BY <2>1, <2>2, RowDates
<1>3. ASSUME NEW e \in pass', ~ FromTransfers(e), nfo'[e.round] > 0 PROVE e.time <= nfo'[e.round]
  <2>1. CASE e \in pass
    <3>1. e.time \in Nat /\ e.round \in Round
      BY <2>1 DEF IInv, Reconciling, Report3
    <3> QED BY <1>0, <1>1, <1>3, <2>1, <3>1 DEF Past, Repeated
  <2>2. CASE e.round \in Round /\ e.time = row[e.round].date
    BY <1>0, <1>1, <1>3, <2>2 DEF Past, Repeated
  <2> QED BY <1>3, <2>1, <2>2, PassDates
<1>4. ASSUME NEW r \in Round PROVE found'[r] \in {0, nfo'[r]}
  <2>1. CASE UNCHANGED found
    BY <1>0, <1>1, <2>1 DEF Repeated
  <2>2. CASE ReconcileNext
    <3>1. UNCHANGED nfo /\ found \in [Round -> Nat]
      BY <2>2 DEF ReconcileNext, files, IInv, Reconciling
    <3>2. PICK e \in pass :
            \/ /\ Metadata # {}
               /\ \E date \in IF found[e.round] > 0 THEN {found[e.round]} ELSE Metadata :
                      found' = [found EXCEPT ![e.round] = date]
            \/ UNCHANGED found
      BY <2>2 DEF ReconcileNext
    <3>3. CASE /\ Metadata # {}
               /\ \E date \in IF found[e.round] > 0 THEN {found[e.round]} ELSE Metadata :
                      found' = [found EXCEPT ![e.round] = date]
      <4>1. PICK date \in IF found[e.round] > 0 THEN {found[e.round]} ELSE Metadata :
                    found' = [found EXCEPT ![e.round] = date]
        BY <3>3
      <4>2. e.round \in Round /\ date = nfo[e.round]
        BY <3>3, <4>1, FindsDate
      <4>3. found'[r] = nfo[r]
        BY <3>1, <4>1, <4>2, OneRound
      <4> QED BY <3>1, <4>3
    <3> QED BY <2>1, <3>2, <3>3
  <2> QED BY <2>1, <2>2, Changes
<1> QED BY <1>2, <1>3, <1>4 DEF Repeated, FromTransfers

\* Metadata are not written again.
LEMMA NfoKept ==
    ASSUME Rounds <= 1, IInv, [Next]_vars, NEW r \in Round, nfo[r] > 0
    PROVE  UNCHANGED nfo
<1>1. nfo \in [Round -> Nat]
  BY DEF IInv, Files
<1> QED BY <1>1, NfoWritten, OneRound
\* The library is told of after the metadata.
LEMMA PresentStep ==
    ASSUME Rounds <= 1, IInv, RoundInv, [Next]_vars
    PROVE  Present'
<1> SUFFICES ASSUME NEW key \in DOMAIN timeline', key[1] = "library.present", NEW r \in Round
             PROVE  nfo'[r] > 0 /\ timeline'[key] >= nfo'[r]
  BY DEF Present
<1>0. clock \in Nat /\ nfo \in [Round -> Nat] /\ nfo[r] <= clock
  BY DEF IInv, Lifecycle, Files, RoundInv, Past
<1>1. CASE key \in DOMAIN timeline /\ timeline'[key] = timeline[key]
  <2>1. nfo[r] > 0 /\ timeline[key] >= nfo[r]
    BY <1>1 DEF RoundInv, Present
  <2>2. UNCHANGED nfo
    BY <2>1, NfoKept
  <2> QED BY <1>1, <2>1, <2>2
<1>2. CASE timeline'[key] = clock + 1 /\ UNCHANGED nfo /\ Due(key)
  <2>1. nfo[r] > 0
    BY <1>2 DEF Due
  <2> QED BY <1>0, <1>2, <2>1
<1> QED BY <1>1, <1>2, Growth

\* What the snapshot becomes when the reconciler repeats something.
LEMMA RepeatStep ==
    ASSUME Rounds <= 1, ~ Neighbour, IInv, RoundInv, ReconcileNext
    PROVE  \E e \in pass, told \in Snapshots :
             /\ told = Project(snapshot, e.kind, e.time)
             /\ \/ snapshot' = told
                \/ /\ FromTransfers(e) /\ nfo[e.round] > 0 /\ e.round \in Round
                   /\ snapshot' = FromNfo(told, nfo[e.round])
<1>1. PICK e \in pass :
        \/ /\ FromTransfers(e) /\ Metadata # {}
           /\ \E date \in IF found[e.round] > 0 THEN {found[e.round]} ELSE Metadata :
                 snapshot' = FromNfo(Project(snapshot, e.kind, e.time), date)
        \/ snapshot' = Project(snapshot, e.kind, e.time)
  BY DEF ReconcileNext
<1>2. e.kind \in Kinds /\ e.time \in Nat /\ snapshot \in Snapshots
  BY DEF IInv, Reconciling, Report3, Kinds, Lifecycle
<1> DEFINE told == Project(snapshot, e.kind, e.time)
<1>3. told \in Snapshots
  BY <1>2, ProjectStage
<1>4. CASE snapshot' = told
  BY <1>3, <1>4
<1>5. CASE /\ FromTransfers(e) /\ Metadata # {}
           /\ \E date \in IF found[e.round] > 0 THEN {found[e.round]} ELSE Metadata :
                 snapshot' = FromNfo(told, date)
  <2>1. PICK date \in IF found[e.round] > 0 THEN {found[e.round]} ELSE Metadata :
                 snapshot' = FromNfo(told, date)
    BY <1>5
  <2>2. date = nfo[e.round] /\ e.round \in Round /\ nfo[e.round] > 0
    BY <1>5, <2>1, FindsDate
  <2> HIDE DEF told
  <2>3. snapshot' = FromNfo(told, nfo[e.round])
    BY <2>1, <2>2
  <2>4. told = Project(snapshot, e.kind, e.time)
    BY DEF told
  <2> QED BY <1>3, <1>5, <2>2, <2>3, <2>4
<1> QED BY <1>1, <1>4, <1>5
\* So is it shown.
LEMMA ShownStays ==
    ASSUME Rounds <= 1, ~ Neighbour, IInv, RoundInv, [Next]_vars
    PROVE  Shown'
<1> SUFFICES ASSUME snapshot'.stage = "in_library", NEW r \in Round
             PROVE  nfo'[r] > 0 /\ snapshot'.started >= nfo'[r]
  BY DEF Shown, LibraryDone
<1>0. /\ clock \in Nat /\ nfo \in [Round -> Nat] /\ nfo[r] <= clock /\ snapshot \in Snapshots
      /\ \A key \in DOMAIN timeline : timeline[key] \in Nat
  BY DEF IInv, Lifecycle, Files, RoundInv, Past, Dates
<1>1. CASE snapshot.stage = "in_library" /\ snapshot'.started = snapshot.started
  <2>1. nfo[r] > 0 /\ snapshot.started >= nfo[r]
    BY <1>1 DEF RoundInv, Shown, LibraryDone
  <2> QED BY <1>1, <2>1, NfoKept
<1>2. CASE Quiet
  BY <1>1, <1>2 DEF Quiet
<1>3. ASSUME NEW key, News(key)
      PROVE  nfo'[r] > 0 /\ snapshot'.started >= nfo'[r]
  <2>1. PICK time \in Nat : /\ snapshot' = Project(snapshot, key[1], time)
                            /\ \/ time = clock + 1
                               \/ key \in DOMAIN timeline /\ time = timeline[key]
    BY <1>0, <1>3 DEF News, Note, Record
  <2>2. key[1] \in Kinds /\ UNCHANGED nfo
    BY <1>3 DEF News, Due
  <2>3. CASE key[1] \in Presenting /\ snapshot'.started = time
    <3>1. key[1] = "library.present"
      BY <1>3, <2>3 DEF News, Due, Presenting
    <3>2. nfo[r] > 0
      BY <1>3, <3>1 DEF News, Due
    <3>3. time >= nfo[r]
      BY <1>0, <2>1, <3>1 DEF RoundInv, Present
    <3> QED BY <2>2, <2>3, <3>2, <3>3
  <2> QED BY <1>0, <1>1, <2>1, <2>2, <2>3, Arrives
<1>4. ASSUME NEW x \in Round, Request(x) \/ Add(x)
      PROVE  nfo'[r] > 0 /\ snapshot'.started >= nfo'[r]
  <2>1. PICK kind \in {"download.queued", "download.started"} :
          snapshot' = Project(snapshot, kind, clock + 1)
    BY <1>4 DEF Request, Add, Tell
  <2>2. kind \in Kinds /\ kind \notin Presenting /\ clock + 1 \in Nat
    BY <1>0 DEF Kinds, Presenting
  <2> QED BY <1>0, <1>1, <2>1, <2>2, Arrives
<1>5. CASE ReconcileNext
  <2>1. PICK e \in pass, told \in Snapshots :
             /\ told = Project(snapshot, e.kind, e.time)
             /\ \/ snapshot' = told
                \/ /\ FromTransfers(e) /\ nfo[e.round] > 0 /\ e.round \in Round
                   /\ snapshot' = FromNfo(told, nfo[e.round])
    BY <1>5, RepeatStep
  <2>2. e.kind \in Kinds /\ e.kind \notin Presenting /\ e.time \in Nat /\ UNCHANGED nfo
    BY <1>5 DEF IInv, Reconciling, Report3, Kinds, Presenting, ReconcileNext, files
  <2>3. told.stage = "in_library" =>
           snapshot.stage = "in_library" /\ told.started = snapshot.started
    BY <1>0, <2>1, <2>2, Arrives
  <2>4. CASE snapshot' = told
    BY <1>1, <2>3, <2>4
  <2>5. CASE nfo[e.round] > 0 /\ e.round \in Round /\ snapshot' = FromNfo(told, nfo[e.round])
    <3> DEFINE scraped == Project(told, "reconcile.scrape.completed", nfo[e.round])
    <3>1. snapshot' = Project(scraped, "reconcile.library.present", nfo[e.round])
      BY <2>5 DEF FromNfo
    <3>2. nfo[e.round] \in Nat /\ e.round = r
      BY <1>0, <2>5, OneRound
    <3>3. /\ "reconcile.scrape.completed" \in Kinds \ Presenting
          /\ "reconcile.library.present" \in Kinds
      BY DEF Kinds, Presenting
    <3>4. scraped \in Snapshots
      BY <3>2, <3>3, ProjectStage
    <3>5. scraped.stage = "in_library" =>
             told.stage = "in_library" /\ scraped.started = told.started
      BY <3>2, <3>3, Arrives
    <3> HIDE DEF scraped
    <3>6. \/ scraped.stage = "in_library" /\ snapshot'.started = scraped.started
          \/ snapshot'.started = nfo[e.round]
      BY <3>1, <3>2, <3>3, <3>4, Arrives
    <3>7. CASE scraped.stage = "in_library" /\ snapshot'.started = scraped.started
      BY <1>1, <2>3, <3>5, <3>7
    <3>8. CASE snapshot'.started = nfo[e.round]
      BY <2>2, <2>5, <3>2, <3>8
    <3> QED BY <3>6, <3>7, <3>8
  <2> QED BY <2>1, <2>4, <2>5
<1> QED BY <1>2, <1>3, <1>4, <1>5, Tidings

\* An event that is late after a step was late before, or is told in it.
LEMMA LateBefore ==
    ASSUME Rounds <= 1, IInv, RoundInv, [Next]_vars, NEW key \in DOMAIN timeline', Late(key)'
    PROVE  /\ UNCHANGED nfo /\ \A r \in Round : nfo[r] > 0
           /\ (key \in DOMAIN timeline /\ Late(key)) \/ Due(key)
<1>0. /\ nfo \in [Round -> Nat] /\ Past /\ clock \in Nat
      /\ \A k \in DOMAIN timeline : timeline[k] \in Nat
  BY DEF IInv, Lifecycle, Files, RoundInv, Dates
<1>1. PICK r \in Round : nfo'[r] > 0 /\ timeline'[key] > nfo'[r]
  BY DEF Late
<1>2. CASE key \in DOMAIN timeline /\ timeline'[key] = timeline[key]
  <2>1. UNCHANGED nfo
    <3>1. CASE nfo[r] = 0 /\ nfo' = [nfo EXCEPT ![r] = clock + 1]
      BY <1>0, <1>1, <1>2, <3>1 DEF Past
    <3> QED BY <3>1, NfoWritten, OneRound
  <2>2. nfo[r] > 0 /\ timeline[key] > nfo[r]
    BY <1>1, <1>2, <2>1
  <2>3. Late(key)
    BY <2>2 DEF Late
  <2> QED BY <1>2, <2>1, <2>2, <2>3, OneRound
<1>3. CASE UNCHANGED nfo /\ Due(key)
  BY <1>1, <1>3, OneRound
<1> QED BY <1>2, <1>3, Growth
\* No late event is told by a handler again.
LEMMA LateQueuedStep ==
    ASSUME Rounds <= 1, IInv, RoundInv, [Next]_vars
    PROVE  LateQueued'
<1> SUFFICES ASSUME NEW key \in DOMAIN timeline', key[1] = "transfer.queued", Late(key)'
             PROVE  handler' = Resting /\ emitted' = Round
  BY DEF LateQueued, Resting
<1>1. CASE Due(key)
  BY <1>1 DEF Due
<1>2. CASE key \in DOMAIN timeline /\ Late(key)
  <2>1. handler = Resting /\ emitted = Round
    BY <1>2 DEF RoundInv, LateQueued
  <2>2. handler' = Resting
    BY <2>1, HandlerMoves
  <2>3. emitted' = Round
    <3>1. CASE Crash
      <4>1. \A r \in Round : placed[r] > 0
        BY LateBefore DEF IInv, NfoSubmitted
      <4>2. emitted' = {r \in Round : placed[r] > 0}
        BY <3>1 DEF Crash
      <4> QED BY <4>1, <4>2
    <3>2. CASE \E r \in Round : Emit(r)
      BY <2>1, <3>2 DEF Emit
    <3> QED BY <2>1, <3>1, <3>2, Changes
  <2> QED BY <2>2, <2>3
<1> QED BY <1>1, <1>2, LateBefore
\* Nor by a transfer task.
LEMMA LateSubmittedStep ==
    ASSUME Rounds <= 1, IInv, RoundInv, [Next]_vars
    PROVE  LateSubmitted'
<1> SUFFICES ASSUME NEW key \in DOMAIN timeline', key[1] = "scrape.queued", Late(key)',
                    NEW t \in Tasks
             PROVE  transfer'[t].pc \notin {"scrape", "noted"}
  BY DEF LateSubmitted
<1>0. UNCHANGED nfo /\ t[1] \in Round /\ nfo[t[1]] > 0
  BY LateBefore, TaskRound
<1>1. CASE Due(key)
  BY <1>0, <1>1 DEF Due
<1>2. CASE key \in DOMAIN timeline /\ Late(key)
  <2>1. transfer[t].pc \notin {"scrape", "noted"}
    BY <1>2 DEF RoundInv, LateSubmitted
  <2> QED BY <1>0, <2>1, TransferTasks
<1> QED BY <1>1, <1>2, LateBefore

\* What has been told stays told, while something is worked on or has been written.
LEMMA ToldStays ==
    ASSUME Rounds <= 1, IInv, RoundInv, [Next]_vars, NEW s \in Tasks,
           scrape[s].status # "none" \/ nfo[s[1]] > 0, NEW key \in DOMAIN timeline
    PROVE  key \in DOMAIN timeline' /\ timeline'[key] = timeline[key]
<1>1. ~ \E r \in Round : Request(r)
  BY NothingYet, TaskRound
<1> QED BY <1>1, Growth

\* Where there are metadata, a task of the scrape queue is made only if none is needed, and
\* so none is made.
LEMMA NoNewScrape ==
    ASSUME Rounds <= 1, IInv, RoundInv, [Next]_vars, NEW s \in Tasks, nfo[s[1]] > 0,
           scrape[s].status = "none"
    PROVE  scrape'[s].status = "none"
<1> SUFFICES ASSUME scrape'[s].status # "none" PROVE FALSE
  OBVIOUS
<1>1. PICK t \in Tasks : t[1] = s[1] /\ transfer[t].pc = "scrape" /\ ~ Refused(scrape, s[1])
  BY ScrapeTasks
<1>2. s = Current(scrape, s[1]) /\ s[1] \in Round
  BY ScrapeTasks, TaskRound
<1>3. Beyond(s[1])
  BY <1>1 DEF RoundInv, Unneeded
<1>4. PICK n \in {1, 2} : \/ scrape[<<s[1], n>>].status = "succeeded"
                          \/ scrape[<<s[1], n>>].pc \in {"scraped", "present", "ack"}
  BY <1>1, <1>3 DEF Beyond
<1>5. <<s[1], 1>> \in Tasks /\ <<s[1], 2>> \in Tasks
  BY <1>2, CurrentTask
<1>6. scrape[<<s[1], n>>].status \in {"succeeded", "running"}
  BY <1>4, <1>5, Running
<1>7. CASE Dead(scrape, s[1], 1)
  <2>1. s = <<s[1], 2>>
    BY <1>2, <1>7 DEF Current
  <2> QED BY <1>6, <1>7, <2>1 DEF Dead
<1>8. CASE ~ Dead(scrape, s[1], 1)
  <2>1. s = <<s[1], 1>>
    BY <1>2, <1>8 DEF Current
  <2>2. scrape[<<s[1], 2>>].status = "none"
    BY <1>2, <1>8 DEF RoundInv, InTurn
  <2> QED BY <1>6, <2>1, <2>2
<1> QED BY <1>7, <1>8
\* Nor by a scrape that is begun for the first time.
LEMMA BegunStep ==
    ASSUME Rounds <= 1, IInv, RoundInv, [Next]_vars
    PROVE  Begun'
<1> SUFFICES ASSUME NEW s \in Tasks
             PROVE  /\ scrape'[s].pc = "write" => Started(s)' \in DOMAIN timeline'
                    /\ nfo'[s[1]] > 0 /\ scrape'[s].attempts = 0
                           /\ scrape'[s].status \in {"queued", "running"} =>
                         /\ Started(s)' \in DOMAIN timeline'
                         /\ timeline'[Started(s)'] <= nfo'[s[1]]
  BY DEF Begun
<1>0. /\ nfo \in [Round -> Nat] /\ Past /\ clock \in Nat /\ s[1] \in Round
      /\ \A k \in DOMAIN timeline : timeline[k] \in Nat
      /\ scrape[s].pc # "idle" => scrape[s].status = "running"
  BY TaskRound, Running DEF IInv, Lifecycle, Files, RoundInv, Dates
<1>1. ASSUME scrape'[s].pc = "write" PROVE Started(s)' \in DOMAIN timeline'
  <2>1. CASE scrape[s].pc = "write" /\ scrape'[s].attempts = scrape[s].attempts
    <3>1. Started(s)' = Started(s) /\ Started(s) \in DOMAIN timeline
      BY <2>1 DEF Started, RoundInv, Begun
    <3>2. scrape[s].status # "none"
      BY <1>0, <2>1
    <3> QED BY <3>1, <3>2, ToldStays
  <2>2. CASE StartScrape(s)
    <3>1. /\ scrape' = [Step(scrape, s, "write") EXCEPT ![s].status = "running"]
          /\ Note(Started(s))
      BY <2>2 DEF StartScrape, NoteScrape, Started
    <3>2. scrape'[s].attempts = scrape[s].attempts
      BY <3>1, Running, StartFields
    <3>3. Started(s)' = Started(s)
      BY <3>2 DEF Started
    <3>4. Started(s) \in DOMAIN timeline'
      BY <3>1 DEF Note, Record, Dated
    <3> QED BY <3>3, <3>4
  <2> QED BY <1>1, <2>1, <2>2, ScrapeTasks
<1>2. ASSUME nfo'[s[1]] > 0, scrape'[s].attempts = 0, scrape'[s].status \in {"queued", "running"}
      PROVE  Started(s)' \in DOMAIN timeline' /\ timeline'[Started(s)'] <= nfo'[s[1]]
  <2>1. scrape[s].attempts = 0 /\ scrape[s].status \in {"none", "queued", "running"}
    BY <1>2, ScrapeTasks
  <2>2. Started(s)' = Started(s)
    BY <1>2, <2>1 DEF Started
  <2>3. CASE nfo[s[1]] > 0
    <3>1. UNCHANGED nfo
      BY <1>0, <2>3, NfoKept
    <3>2. scrape[s].status # "none"
      BY <1>2, <2>3, NoNewScrape
    <3>3. Started(s) \in DOMAIN timeline /\ timeline[Started(s)] <= nfo[s[1]]
      BY <2>1, <2>3, <3>2 DEF RoundInv, Begun
    <3> QED BY <2>2, <2>3, <3>1, <3>3, ToldStays
  <2>4. CASE nfo[s[1]] = 0
    <3>1. PICK r \in Round :
                 /\ nfo[r] = 0 /\ nfo' = [nfo EXCEPT ![r] = clock + 1] /\ clock' = clock + 1
                 /\ UNCHANGED timeline
                 /\ \/ Refused(scrape, r) /\ UNCHANGED scrape
                    \/ \E u \in Tasks : WriteNfo(u) /\ u[1] = r
      BY <1>2, <2>4, NfoWritten
    <3>2. r = s[1] /\ nfo'[s[1]] = clock + 1
      BY <1>0, <3>1, OneRound
    <3>3. scrape[s].status # "none"
      BY <1>0, <1>2, <2>4, <3>2, ScrapeTasks
    <3>4. CASE Refused(scrape, r) /\ UNCHANGED scrape
      <4>1. s \in {<<r, 1>>, <<r, 2>>}
        BY <3>2 DEF Tasks
      <4> QED BY <1>2, <3>4, <4>1 DEF Refused, Dead, Over
    <3>5. CASE \E u \in Tasks : WriteNfo(u) /\ u[1] = r
      <4>1. PICK u \in Tasks : WriteNfo(u) /\ u[1] = r
        BY <3>5
      <4>2. scrape[u].pc = "write" /\ scrape[u].status = "running"
        BY <4>1, Running DEF WriteNfo
      <4>3. u = s
        <5> SUFFICES ASSUME u # s PROVE FALSE
          OBVIOUS
        <5>1. scrape[s].status \in {"none", "dead"}
          BY <3>2, <4>1, <4>2, OneAtWork DEF RoundInv
        <5> QED BY <2>1, <3>3, <5>1
      <4>4. Started(s) \in DOMAIN timeline
        BY <4>2, <4>3 DEF RoundInv, Begun
      <4>5. timeline[Started(s)] <= clock /\ timeline[Started(s)] \in Nat
        BY <1>0, <4>4 DEF Past
      <4> QED BY <1>0, <2>2, <3>1, <3>2, <4>4, <4>5
    <3> QED BY <3>1, <3>4, <3>5
  <2> QED BY <1>0, <2>3, <2>4
<1> QED BY <1>1, <1>2

\* A file that needs no scrape needs none again.
LEMMA BeyondStays ==
    ASSUME IInv, [Next]_vars, ~ Crash, NEW r \in Round, Beyond(r)
    PROVE  Beyond(r)'
<1>1. <<r, 1>> \in Tasks /\ <<r, 2>> \in Tasks
  BY CurrentTask
<1>2. CASE Refused(scrape, r)
  <2>1. scrape[<<r, 1>>].status = "dead" /\ scrape[<<r, 2>>].status \in {"succeeded", "dead"}
    <3>1. scrape[<<r, 2>>].status # "skipped"
      <4>1. scrape[<<r, 2>>] \in TaskOf(ScrapeStatus, ScrapePc)
        BY <1>1, Running
      <4> QED BY <4>1 DEF TaskOf, ScrapeStatus
    <3> QED BY <1>2, <3>1 DEF Refused, Dead, Over
  <2>2. scrape'[<<r, 1>>].status = "dead" /\ scrape'[<<r, 2>>].status \in {"succeeded", "dead"}
    BY <1>1, <2>1, ScrapeTasks DEF Stays
  <2> QED BY <2>2 DEF Beyond, Refused, Dead, Over
<1>3. ASSUME NEW n \in {1, 2}, \/ scrape[<<r, n>>].status = "succeeded"
                               \/ scrape[<<r, n>>].pc \in {"scraped", "present", "ack"}
      PROVE  Beyond(r)'
  <2>1. <<r, n>> \in Tasks
    BY <1>1
  <2>2. \/ scrape'[<<r, n>>].status = "succeeded"
        \/ scrape'[<<r, n>>].pc \in {"scraped", "present", "ack"}
    BY <1>3, <2>1, ScrapeTasks
  <2> QED BY <2>2 DEF Beyond
<1> QED BY <1>2, <1>3 DEF Beyond
\* No scrape is made of a file that has had its own.
LEMMA UnneededStep ==
    ASSUME Rounds <= 1, IInv, RoundInv, [Next]_vars
    PROVE  Unneeded'
<1> SUFFICES ASSUME NEW t \in Tasks, transfer'[t].pc = "scrape", nfo'[t[1]] > 0
             PROVE  Beyond(t[1])'
  BY DEF Unneeded
<1>0. nfo \in [Round -> Nat] /\ t[1] \in Round
  BY TaskRound DEF IInv, Files
<1>1. ~ Crash
  <2> SUFFICES ASSUME Crash PROVE FALSE
    OBVIOUS
  <2>1. transfer'[t] = [transfer[t] EXCEPT !.pc = "idle", !.key = <<>>]
    BY DEF Crash
  <2>2. transfer[t] \in TaskOf(TransferStatus, TransferPc)
    BY Running
  <2>3. transfer'[t].pc = "idle"
    BY <2>1, <2>2 DEF TaskOf
  <2> QED BY <2>3
<1>2. CASE nfo[t[1]] > 0
  <2>1. transfer[t].pc = "scrape"
    BY <1>2, TransferTasks
  <2>2. Beyond(t[1])
    BY <1>2, <2>1 DEF RoundInv, Unneeded
  <2> QED BY <1>0, <1>1, <2>2, BeyondStays
<1>3. CASE nfo[t[1]] = 0
  <2>1. PICK r \in Round : /\ nfo' # nfo
                           /\ \/ Refused(scrape, r) /\ UNCHANGED scrape
                              \/ \E u \in Tasks : WriteNfo(u) /\ u[1] = r
    BY <1>3, NfoWritten
  <2>2. r = t[1]
    BY <1>0, OneRound
  <2>3. CASE Refused(scrape, r) /\ UNCHANGED scrape
    BY <2>2, <2>3 DEF Beyond
  <2>4. CASE \E u \in Tasks : WriteNfo(u) /\ u[1] = r
    <3>1. PICK u \in Tasks : WriteNfo(u) /\ u[1] = r
      BY <2>4
    <3>2. scrape' = Step(scrape, u, "scraped")
      BY <3>1 DEF WriteNfo
    <3>3. scrape'[u].pc = "scraped"
      <4>1. scrape \in [Tasks -> TaskOf(ScrapeStatus, ScrapePc)]
        BY Running
      <4> QED BY <3>2, <4>1, TaskFields
    <3>4. PICK n \in {1, 2} : u = <<r, n>>
      BY <3>1 DEF Tasks
    <3> QED BY <2>2, <3>3, <3>4 DEF Beyond
  <2> QED BY <2>1, <2>3, <2>4
<1> QED BY <1>0, <1>2, <1>3
\* The invariant of one round is kept.
LEMMA RoundStep ==
    ASSUME Rounds <= 1, ~ Neighbour, IInv, RoundInv, [Next]_vars
    PROVE  RoundInv'
<1>1. Past' /\ Completed' /\ Repeated' /\ Present' /\ Shown'
  BY PastStep, CompletedStep, RepeatedStep, PresentStep, ShownStays
<1>2. InTurn(transfer)' /\ InTurn(scrape)'
  BY InTurnStep DEF InTurn, Dead
<1>3. LateQueued' /\ LateSubmitted' /\ Begun' /\ Unneeded'
  BY LateQueuedStep, LateSubmittedStep, BegunStep, UnneededStep
<1> QED BY <1>1, <1>2, <1>3 DEF RoundInv

-----------------------------------------------------------------------------
(* The theorem *)

\* A step that leaves the library.
LEMMA LeavesStep ==
    ASSUME Rounds <= 1, ~ Neighbour, IInv, RoundInv, [Next]_vars,
           LibraryDone, snapshot'.stage # "in_library"
    PROVE  clock' # clock \/ \E s \in Tasks : Retried(s)
<1>0. /\ clock \in Nat /\ nfo \in [Round -> Nat] /\ snapshot \in Snapshots
      /\ \A key \in DOMAIN timeline : timeline[key] \in Nat
      /\ \A r \in Round : nfo[r] > 0 /\ snapshot.started >= nfo[r]
      /\ snapshot.stage = "in_library"
  BY DEF IInv, Lifecycle, Files, Dates, RoundInv, Shown, LibraryDone
<1>1. snapshot.started \in Nat
  BY <1>0 DEF Snapshots
<1>2. CASE Quiet
  BY <1>0, <1>2 DEF Quiet
<1>3. ASSUME NEW key, News(key)
      PROVE  clock' # clock \/ \E s \in Tasks : Retried(s)
  <2>1. CASE key \notin DOMAIN timeline
    BY <1>0, <1>3, <2>1 DEF News, Note
  <2>2. CASE key \in DOMAIN timeline
    <3>1. snapshot' = Project(snapshot, key[1], timeline[key]) /\ timeline[key] \in Nat
      BY <1>0, <1>3, <2>2 DEF News, Note, Record
    <3>2. key[1] \in Restarting /\ timeline[key] > snapshot.started
      BY <1>0, <1>3, <3>1, Leaves DEF News, Due
    <3>3. PICK r \in Round : placed[r] > 0
      BY <1>0 DEF IInv, Lifecycle, ShownMeansThere, Filed
    <3>4. Late(key)
      BY <1>0, <1>1, <3>1, <3>2, <3>3 DEF Late
    <3> QED BY <1>3, <2>2, <3>2, <3>4 DEF News, Due
  <2> QED BY <2>1, <2>2
<1>4. CASE \E r \in Round : Request(r) \/ Add(r)
  BY <1>0, <1>4 DEF Request, Add
<1>5. CASE ReconcileNext
  <2> SUFFICES ASSUME TRUE PROVE FALSE
    OBVIOUS
  <2>1. PICK e \in pass, told \in Snapshots :
             /\ told = Project(snapshot, e.kind, e.time)
             /\ \/ snapshot' = told
                \/ /\ FromTransfers(e) /\ nfo[e.round] > 0 /\ e.round \in Round
                   /\ snapshot' = FromNfo(told, nfo[e.round])
    BY <1>5, RepeatStep
  <2>2. e.kind \in Kinds /\ e.time \in Nat /\ e.round \in Round
    BY DEF IInv, Reconciling, Report3, Kinds
  <2>3. told.stage = "in_library"
    <3> SUFFICES ASSUME told.stage # "in_library" PROVE FALSE
      OBVIOUS
    <3>1. e.kind \in Restarting /\ e.time > snapshot.started
      BY <1>0, <2>1, <2>2, Leaves
    <3>2. ~ FromTransfers(e)
      BY <3>1 DEF FromTransfers, Restarting
    <3>3. e.time <= nfo[e.round]
      BY <1>0, <2>2, <3>2 DEF RoundInv, Repeated
    <3> QED BY <1>0, <1>1, <2>2, <3>1, <3>3
  <2>4. CASE nfo[e.round] > 0 /\ snapshot' = FromNfo(told, nfo[e.round])
    <3> DEFINE scraped == Project(told, "reconcile.scrape.completed", nfo[e.round])
    <3>1. snapshot' = Project(scraped, "reconcile.library.present", nfo[e.round])
      BY <2>4 DEF FromNfo
    <3>2. nfo[e.round] \in Nat
      BY <1>0, <2>2
    <3>3. {"reconcile.scrape.completed", "reconcile.library.present"} \subseteq Kinds \ Restarting
      BY DEF Kinds, Restarting
    <3>4. scraped \in Snapshots
      BY <3>2, <3>3, ProjectStage
    <3>5. scraped.stage = "in_library"
      BY <2>3, <3>2, <3>3, Leaves
    <3> HIDE DEF scraped
    <3> QED BY <3>1, <3>2, <3>3, <3>4, <3>5, Leaves
  <2> QED BY <2>1, <2>3, <2>4
<1> QED BY <1>2, <1>3, <1>4, <1>5, Tidings

\* While an episode is downloaded once, and is alone in its directory, no crash, no redelivered
\* task and no pass of the reconciler throws it out of the library by telling again what was
\* told before, however often each happens: only something new does, or a scrape that had
\* failed, is begun again, and is delivered once more.
THEOREM OnlyNewsLeavesLibrary ==
    ASSUME Rounds <= 1, ~ Neighbour
    PROVE  Spec => LeftOnlyByNewEvent
<1> DEFINE Stay == LibraryDone /\ snapshot'.stage # "in_library" =>
                      clock' # clock \/ \E s \in Tasks : Retried(s)
<1>1. Init => IInv /\ RoundInv
  BY InitIInv, InitRoundInv
<1>2. IInv /\ RoundInv /\ [Next]_vars => IInv' /\ RoundInv'
  BY NextStep, RoundStep
<1>3. IInv /\ RoundInv /\ [Next]_vars => [Stay]_vars
  BY LeavesStep
<1> QED BY <1>1, <1>2, <1>3, PTL DEF Spec, LeftOnlyByNewEvent

===============================================================================
