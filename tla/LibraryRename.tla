---------------------------- MODULE LibraryRename ----------------------------
(***************************************************************************)
(* One job of the library batch rename: LibraryRenameExecutor, the restart *)
(* recovery of LibraryRenameService, and a transfer into the same two      *)
(* directories.                                                            *)
(*                                                                         *)
(* The items 1..N move one video each from one directory, "old", to        *)
(* another, "new", each with a subtitle; the directory also holds a        *)
(* poster.  at[i] says what is at the item's two paths: its video, the     *)
(* unfinished copy of a move between disks, some other file, or nothing.   *)
(* Threads: two submissions of run_job, one cancel, one rollback at a      *)
(* time, one transfer.  The process may crash; its locks then stay until   *)
(* their leases run out.  The lease of a live holder outlasts its step.    *)
(***************************************************************************)
EXTENDS Naturals, FiniteSets, FiniteSetsExt

CONSTANTS N,             \* number of items
          Runners,       \* threads that run_job() was submitted to
          None,
          MaxFaults,     \* storage or database operations that fail
          MaxCrashes,
          MaxRollbacks,  \* rollbacks the user asks for
          MaxTransfers   \* files a transfer writes to an item's path

ASSUME RenameAssumption ==
    /\ N \in Nat \ {0}
    /\ None \notin Runners \cup {"rollback", "dead", "transfer"}
    /\ {"rollback", "dead", "transfer"} \cap Runners = {}
    /\ MaxFaults \in Nat /\ MaxCrashes \in Nat
    /\ MaxRollbacks \in Nat /\ MaxTransfers \in Nat

Item == 1..N
Poster == 0
Asset == 0..N            \* the poster and the items' subtitles
Side == {"old", "new"}
Table == {"history", "metadata"}
Files == {"video", "copy", "other", "nothing"}

VARIABLES
    job,       \* LIBRARY_RENAME_JOB.STATUS
    item,      \* LIBRARY_RENAME_ITEM.STATUS of each item
    journal,   \* ... and AUX_MOVES: the assets it says were moved
    row,       \* the side each item's transfer history and metadata rows name
    at,        \* the files at each item's two paths
    asset,     \* where each asset is; "stray": in the new directory, old name
    jobLock,   \* library:rename:job:<id>
    dirLock,   \* library:target:dir of the two directories
    run,       \* the runners
    back,      \* the rollback
    cancel,    \* the cancel request
    xfer,      \* the transfer
    up,        \* the process is running
    overwritten,  \* who wrote over a file
    begun,     \* items a rollback has begun to move back
    left       \* what of the bounds is left

library == <<row, at, asset>>
rows == <<job, item, journal>>
locks == <<jobLock, dirLock>>
threads == <<run, back, cancel, xfer>>
vars == <<rows, library, locks, threads, up, overwritten, begun, left>>

Statuses == {"planned", "running", "cancelling", "cancelled", "completed",
             "interrupted", "failed", "rolled_back"}
ItemStatuses == {"planned", "running", "done", "failed",
                 "manual_intervention", "rolled_back"}
Cancelling == {"cancelling", "cancelled"}

RunSteps == {"idle", "read", "lock", "pick", "check", "dirs", "recheck", "move", "copying",
             "assets", "rows", "done", "undo_rows", "undo_assets", "undo_video",
             "undone", "extend", "finish", "log_finish", "decide", "end"}
BackSteps == {"idle", "lock", "list", "assets", "video", "move", "copying",
              "rows", "status", "end"}

IdleRun == [pc |-> "idle", todo |-> {}, cur |-> None, moved |-> {},
            ok |-> TRUE, end |-> "failed"]
IdleBack == [pc |-> "idle", todo |-> {}, cur |-> None, ok |-> TRUE]
IdleXfer == [pc |-> "idle", cur |-> None, side |-> "old"]
RowsAt(side) == [t \in Table |-> side]

\* A file may have gone since the plan was made.
Init ==
    /\ job = "planned"
    /\ item = [i \in Item |-> "planned"]
    /\ journal = [i \in Item |-> {}]
    /\ row = [i \in Item |-> RowsAt("old")]
    /\ at \in [Item -> {[old |-> f, new |-> "nothing"] : f \in {"video", "nothing"}}]
    /\ asset = [a \in Asset |-> "old"]
    /\ jobLock = None
    /\ dirLock = [d \in Side |-> None]
    /\ run = [e \in Runners |-> IdleRun]
    /\ back = IdleBack
    /\ cancel = "idle"
    /\ xfer = IdleXfer
    /\ up = TRUE
    /\ begun = {}
    /\ overwritten = {}
    /\ left = [faults |-> MaxFaults, crashes |-> MaxCrashes,
               rollbacks |-> MaxRollbacks, transfers |-> MaxTransfers]

Exists(i, side) == at[i][side] # "nothing"

NoFault == UNCHANGED left
Fault ==
    /\ left.faults > 0
    /\ left' = [left EXCEPT !.faults = @ - 1]

\* shutil.move() within a disk, or the last step of one between disks: it writes over
\* whatever is at the target.
Arrive(i, from, to, who) ==
    /\ at' = [at EXCEPT ![i][to] = at[i][from], ![i][from] = "nothing"]
    /\ overwritten' = overwritten \cup (IF at[i][to] = "other" THEN {who} ELSE {})

StartCopy(i, to, who) ==
    /\ at' = [at EXCEPT ![i][to] = "copy"]
    /\ overwritten' = overwritten \cup (IF Exists(i, to) THEN {who} ELSE {})

DirLocks(holder) == [d \in Side |-> holder]

-----------------------------------------------------------------------------
(* execute() and run_job() *)

Goto(e, pc) == run' = [run EXCEPT ![e].pc = pc]
At(e, pc) == up /\ run[e].pc = pc
ReleaseDirs(e) == dirLock' = [d \in Side |-> IF dirLock[d] = e THEN None ELSE dirLock[d]]

\* execute(): submits run_job() for a job that is still planned.
Submit(e) ==
    /\ At(e, "idle") /\ job = "planned"
    /\ Goto(e, "read")
    /\ UNCHANGED <<rows, library, locks, back, cancel, xfer, up, overwritten, begun, left>>

ReadJob(e) ==
    /\ At(e, "read")
    /\ Goto(e, IF job = "planned" THEN "lock" ELSE "idle")
    /\ UNCHANGED <<rows, library, locks, back, cancel, xfer, up, overwritten, begun, left>>

\* Takes the lock, writes "running" without looking at the status again, and lists the
\* planned items.
TakeJob(e) ==
    /\ At(e, "lock")
    /\ \/ /\ jobLock = None
          /\ jobLock' = e /\ job' = "running"
          /\ run' = [run EXCEPT ![e] = [IdleRun EXCEPT !.pc = "pick",
                                            !.todo = {i \in Item : item[i] = "planned"}]]
       \/ /\ jobLock # None
          /\ Goto(e, "idle") /\ UNCHANGED <<job, jobLock>>
    /\ UNCHANGED <<item, journal, library, dirLock, back, cancel, xfer, up, overwritten,
                   begun, left>>

Pick(e) ==
    LET i == Min(run[e].todo) IN
    /\ At(e, "pick")
    /\ run' = IF job \in Cancelling \/ run[e].todo = {}
              THEN [run EXCEPT ![e].pc = "finish"]
              ELSE [run EXCEPT ![e] = [@ EXCEPT !.pc = "check", !.cur = i,
                                                !.todo = run[e].todo \ {i},
                                                !.moved = {}, !.ok = TRUE]]
    /\ UNCHANGED <<rows, library, locks, back, cancel, xfer, up, overwritten, begun, left>>

\* _execute_item() up to its locks: the source is still the planned one and the target is
\* free ...
Check(e) ==
    LET i == run[e].cur IN
    /\ At(e, "check")
    /\ IF at[i]["old"] = "video" /\ ~ Exists(i, "new")
       THEN Goto(e, "dirs") /\ UNCHANGED item
       ELSE item' = [item EXCEPT ![i] = "failed"] /\ Goto(e, "extend")
    /\ UNCHANGED <<job, journal, library, locks, back, cancel, xfer, up, overwritten, begun,
                   left>>

\* ... and both directories can be locked.
LockDirs(e) ==
    /\ At(e, "dirs")
    /\ \/ /\ dirLock = DirLocks(None)
          /\ dirLock' = DirLocks(e)
          /\ Goto(e, "recheck") /\ UNCHANGED item
       \/ /\ dirLock # DirLocks(None)
          /\ item' = [item EXCEPT ![run[e].cur] = "failed"]
          /\ Goto(e, "extend") /\ UNCHANGED dirLock
    /\ UNCHANGED <<job, journal, library, jobLock, back, cancel, xfer, up, overwritten,
                   begun, left>>

\* Mutation: the target is not looked at again once the locks are held.
RecheckUnseen(e) ==
    LET i == run[e].cur IN
    /\ At(e, "recheck") /\ NoFault
    /\ item' = [item EXCEPT ![i] = "running"]
    /\ Goto(e, "move")
    /\ UNCHANGED <<job, journal, library, locks, back, cancel, xfer, up, overwritten, begun>>

\* Mutation: the item is not marked running before its file moves.
RecheckUnmarked(e) ==
    LET i == run[e].cur IN
    /\ At(e, "recheck") /\ ~ Exists(i, "new") /\ NoFault
    /\ Goto(e, "move")
    /\ UNCHANGED <<rows, library, locks, back, cancel, xfer, up, overwritten, begun>>

\* Looks at the target again under the locks, and marks the item running.
Recheck(e) ==
    LET i == run[e].cur IN
    /\ At(e, "recheck")
    /\ \/ /\ Exists(i, "new") /\ NoFault
          /\ item' = [item EXCEPT ![i] = "failed"]
          /\ ReleaseDirs(e) /\ Goto(e, "extend")
       \/ /\ ~ Exists(i, "new") /\ NoFault
          /\ item' = [item EXCEPT ![i] = "running"]
          /\ Goto(e, "move") /\ UNCHANGED dirLock
       \/ /\ Fault
          /\ Goto(e, "undo_rows") /\ UNCHANGED <<item, dirLock>>
    /\ UNCHANGED <<job, journal, library, jobLock, back, cancel, xfer, up, overwritten, begun>>

Move(e) ==
    LET i == run[e].cur IN
    /\ At(e, "move")
    /\ \/ /\ Arrive(i, "old", "new", "rename") /\ NoFault
          /\ Goto(e, "assets")
       \/ /\ StartCopy(i, "new", "rename") /\ NoFault
          /\ Goto(e, "copying")
       \/ /\ Fault
          /\ Goto(e, "undo_rows") /\ UNCHANGED <<at, overwritten>>
    /\ UNCHANGED <<rows, row, asset, locks, back, cancel, xfer, up, begun>>

Copied(e) ==
    LET i == run[e].cur IN
    /\ At(e, "copying")
    /\ \/ /\ Arrive(i, "old", "new", "rename") /\ NoFault
          /\ Goto(e, "assets")
       \/ /\ Fault
          /\ Goto(e, "undo_rows") /\ UNCHANGED <<at, overwritten>>
    /\ UNCHANGED <<rows, row, asset, locks, back, cancel, xfer, up, begun>>

\* _move_aux(): a subtitle that cannot be moved is logged and stays.
MoveAssets(e) ==
    LET i == run[e].cur IN
    /\ At(e, "assets")
    /\ \/ /\ asset' = [asset EXCEPT ![i] = "new"] /\ NoFault
          /\ run' = [run EXCEPT ![e].pc = "rows", ![e].moved = {i}]
       \/ /\ Fault
          /\ Goto(e, "rows") /\ UNCHANGED asset
    /\ UNCHANGED <<rows, row, at, locks, back, cancel, xfer, up, overwritten, begun>>

WriteRows(e) ==
    LET i == run[e].cur IN
    /\ At(e, "rows")
    /\ \/ /\ row' = [row EXCEPT ![i] = RowsAt("new")] /\ NoFault
          /\ Goto(e, "done")
       \/ /\ \E written \in {{}, {"history"}, Table} :
                row' = [row EXCEPT ![i] = [t \in Table |-> IF t \in written THEN "new" ELSE @[t]]]
          /\ Fault /\ Goto(e, "undo_rows")
    /\ UNCHANGED <<rows, at, asset, locks, back, cancel, xfer, up, overwritten, begun>>

\* Mutation: "done" is written without the journal.
WriteDoneUnjournaled(e) ==
    /\ At(e, "done") /\ NoFault
    /\ item' = [item EXCEPT ![run[e].cur] = "done"]
    /\ ReleaseDirs(e) /\ Goto(e, "extend")
    /\ UNCHANGED <<job, journal, library, jobLock, back, cancel, xfer, up, overwritten, begun>>

\* The journal of what was moved is written with "done", and not before.
WriteDone(e) ==
    LET i == run[e].cur IN
    /\ At(e, "done")
    /\ \/ /\ item' = [item EXCEPT ![i] = "done"]
          /\ journal' = [journal EXCEPT ![i] = run[e].moved]
          /\ ReleaseDirs(e) /\ NoFault /\ Goto(e, "extend")
       \/ /\ Fault
          /\ Goto(e, "undo_rows") /\ UNCHANGED <<item, journal, dirLock>>
    /\ UNCHANGED <<job, library, jobLock, back, cancel, xfer, up, overwritten, begun>>

-----------------------------------------------------------------------------
(* The exception path of _execute_item(), each part of which is tried whether or not *)
(* the one before it succeeded *)

\* Mutation: the history is put back, the metadata row is forgotten.
UndoRowsHalf(e) ==
    LET i == run[e].cur IN
    /\ At(e, "undo_rows") /\ NoFault
    /\ row' = [row EXCEPT ![i]["history"] = "old"]
    /\ Goto(e, "undo_assets")
    /\ UNCHANGED <<rows, at, asset, locks, back, cancel, xfer, up, overwritten, begun>>

UndoRows(e) ==
    LET i == run[e].cur IN
    /\ At(e, "undo_rows")
    /\ \/ /\ row' = [row EXCEPT ![i] = RowsAt("old")] /\ NoFault
       \/ /\ \E t \in Table : row' = [row EXCEPT ![i] = [RowsAt("old") EXCEPT ![t] = row[i][t]]]
          /\ Fault
    /\ Goto(e, "undo_assets")
    /\ UNCHANGED <<rows, at, asset, locks, back, cancel, xfer, up, overwritten, begun>>

Restored(moved) == [a \in Asset |-> IF a \in moved THEN "old" ELSE asset[a]]

UndoAssets(e) ==
    /\ At(e, "undo_assets")
    /\ \/ /\ asset' = Restored(run[e].moved) /\ NoFault
          /\ Goto(e, "undo_video")
       \/ /\ run[e].moved # {} /\ Fault
          /\ run' = [run EXCEPT ![e].pc = "undo_video", ![e].ok = FALSE] /\ UNCHANGED asset
    /\ UNCHANGED <<rows, row, at, locks, back, cancel, xfer, up, overwritten, begun>>

\* The video goes back only if it is at the new path and nothing is at the old one.
UndoVideo(e) ==
    LET i == run[e].cur IN
    /\ At(e, "undo_video")
    /\ \/ /\ Exists(i, "new") /\ ~ Exists(i, "old")
          /\ \/ /\ Arrive(i, "new", "old", "rename") /\ NoFault
                /\ Goto(e, "undone")
             \/ /\ Fault /\ UNCHANGED <<at, overwritten>>
                /\ run' = [run EXCEPT ![e].pc = "undone", ![e].ok = FALSE]
       \/ /\ Exists(i, "new") = Exists(i, "old") /\ NoFault
          /\ run' = [run EXCEPT ![e].pc = "undone", ![e].ok = FALSE]
          /\ UNCHANGED <<at, overwritten>>
       \/ /\ ~ Exists(i, "new") /\ Exists(i, "old") /\ NoFault
          /\ Goto(e, "undone") /\ UNCHANGED <<at, overwritten>>
    /\ UNCHANGED <<rows, row, asset, locks, back, cancel, xfer, up, begun>>

Undone(e) ==
    /\ At(e, "undone")
    /\ item' = [item EXCEPT ![run[e].cur] =
                    IF run[e].ok THEN "failed" ELSE "manual_intervention"]
    /\ ReleaseDirs(e) /\ Goto(e, "extend")
    /\ UNCHANGED <<job, journal, library, jobLock, back, cancel, xfer, up, overwritten,
                   begun, left>>

-----------------------------------------------------------------------------
(* The end of run_job() *)

\* A lease that cannot be extended ends the run as interrupted.
Extend(e) ==
    /\ At(e, "extend")
    /\ \/ /\ NoFault /\ Goto(e, "pick")
       \/ /\ Fault
          /\ run' = [run EXCEPT ![e].pc = "end", ![e].end = "interrupted"]
    /\ UNCHANGED <<rows, library, locks, back, cancel, xfer, up, overwritten, begun>>

\* _finish_directory_assets(): when every item is done and no media file is left behind,
\* what is still in the old directory follows.  One that cannot be moved stays.
Finish(e) ==
    /\ At(e, "finish")
    /\ IF /\ \A i \in Item : item[i] = "done" /\ ~ Exists(i, "old")
          /\ \E a \in Asset : asset[a] = "old"
       THEN \/ /\ NoFault
               /\ run' = [run EXCEPT ![e].pc = "log_finish",
                                     ![e].moved = {a \in Asset : asset[a] = "old"}]
               /\ asset' = [a \in Asset |-> IF asset[a] = "old" THEN "stray" ELSE asset[a]]
            \/ /\ Fault
               /\ Goto(e, "decide") /\ UNCHANGED asset
       ELSE NoFault /\ Goto(e, "decide") /\ UNCHANGED asset
    /\ UNCHANGED <<rows, row, at, locks, back, cancel, xfer, up, overwritten, begun>>

\* They are added to the journal of the directory's first item.
LogFinish(e) ==
    /\ At(e, "log_finish")
    /\ \/ /\ journal' = [journal EXCEPT ![1] = @ \cup run[e].moved] /\ NoFault
       \/ Fault /\ UNCHANGED journal
    /\ Goto(e, "decide")
    /\ UNCHANGED <<job, item, library, locks, back, cancel, xfer, up, overwritten, begun>>

\* Mutation: the status is not read again before the job ends.
DecideBlind(e) ==
    /\ At(e, "decide")
    /\ run' = [run EXCEPT ![e].pc = "end", ![e].end = "completed"]
    /\ UNCHANGED <<rows, library, locks, back, cancel, xfer, up, overwritten, begun, left>>

Decide(e) ==
    /\ At(e, "decide")
    /\ run' = [run EXCEPT ![e].pc = "end",
                          ![e].end = IF job \in Cancelling THEN "cancelled" ELSE "completed"]
    /\ UNCHANGED <<rows, library, locks, back, cancel, xfer, up, overwritten, begun, left>>

EndJob(e, status) ==
    /\ job' = status
    /\ jobLock' = None /\ ReleaseDirs(e)
    /\ run' = [run EXCEPT ![e] = IdleRun]
    /\ UNCHANGED <<item, journal, library, back, cancel, xfer, up, overwritten, begun>>

End(e) == At(e, "end") /\ EndJob(e, run[e].end) /\ NoFault

\* A database error outside _execute_item()'s own handler fails the job.
JobFails(e) ==
    /\ up /\ run[e].pc \in {"pick", "check", "dirs", "undone", "decide", "end"}
    /\ EndJob(e, "failed") /\ Fault

RunStep(e) ==
    \/ ReadJob(e) \/ TakeJob(e) \/ Pick(e) \/ Check(e) \/ LockDirs(e) \/ Recheck(e) \/ Move(e)
    \/ Copied(e) \/ MoveAssets(e) \/ WriteRows(e) \/ WriteDone(e) \/ UndoRows(e) \/ UndoAssets(e)
    \/ UndoVideo(e) \/ Undone(e) \/ Extend(e) \/ Finish(e) \/ LogFinish(e) \/ Decide(e)
    \/ End(e) \/ JobFails(e)

-----------------------------------------------------------------------------
(* cancel_job(): a read, and a write that depends on it *)

CancelRead ==
    /\ up /\ cancel = "idle" /\ job \in {"planned", "running"}
    /\ cancel' = job
    /\ UNCHANGED <<rows, library, locks, run, back, xfer, up, overwritten, begun, left>>

CancelWrite ==
    /\ up /\ cancel \in {"planned", "running"}
    /\ job' = IF cancel = "planned" THEN "cancelled" ELSE "cancelling"
    /\ cancel' = "sent"
    /\ UNCHANGED <<item, journal, library, locks, run, back, xfer, up, overwritten, begun, left>>

-----------------------------------------------------------------------------
(* rollback_job(), which holds the job's lock but no directory's *)

BackAt(pc) == up /\ back.pc = pc
BackUnchanged == UNCHANGED <<run, cancel, xfer, up, dirLock>>

RollbackAsk ==
    /\ BackAt("idle") /\ left.rollbacks > 0 /\ job # "running"
    /\ back' = [back EXCEPT !.pc = "lock"]
    /\ left' = [left EXCEPT !.rollbacks = @ - 1]
    /\ BackUnchanged
    /\ UNCHANGED <<rows, library, jobLock, overwritten, begun>>

RollbackLock ==
    /\ BackAt("lock")
    /\ \/ /\ jobLock = None
          /\ jobLock' = "rollback"
          /\ back' = [IdleBack EXCEPT !.pc = "list", !.todo = {i \in Item : item[i] = "done"}]
       \/ jobLock # None /\ back' = IdleBack /\ UNCHANGED jobLock
    /\ BackUnchanged
    /\ UNCHANGED <<rows, library, overwritten, begun, left>>

\* The last item first.
RollbackNext ==
    /\ BackAt("list")
    /\ IF back.todo = {}
       THEN back' = [back EXCEPT !.pc = "end"] /\ UNCHANGED begun
       ELSE LET i == Max(back.todo) IN
            /\ back' = [back EXCEPT !.pc = "assets", !.cur = i, !.ok = TRUE,
                                    !.todo = @ \ {i}]
            /\ begun' = begun \cup {i}
    /\ BackUnchanged
    /\ UNCHANGED <<rows, library, jobLock, overwritten, left>>

\* Only what the journal names goes back.
RollbackAssets ==
    /\ BackAt("assets")
    /\ \/ /\ asset' = Restored(journal[back.cur]) /\ NoFault
          /\ back' = [back EXCEPT !.pc = "video"]
       \/ /\ journal[back.cur] # {} /\ Fault /\ UNCHANGED asset
          /\ back' = [back EXCEPT !.pc = "video", !.ok = FALSE]
    /\ BackUnchanged
    /\ UNCHANGED <<rows, row, at, jobLock, overwritten, begun>>

\* _rollback_paths() looks at both paths ...
RollbackVideo ==
    LET i == back.cur IN
    /\ BackAt("video")
    /\ back' =
        CASE Exists(i, "new") /\ ~ Exists(i, "old") -> [back EXCEPT !.pc = "move"]
          [] Exists(i, "new") = Exists(i, "old") -> [back EXCEPT !.pc = "status", !.ok = FALSE]
          [] OTHER -> [back EXCEPT !.pc = IF back.ok THEN "rows" ELSE "status"]
    /\ BackUnchanged
    /\ UNCHANGED <<rows, library, jobLock, overwritten, begun, left>>

\* ... and then moves.
RollbackMove ==
    LET i == back.cur
        moved == [back EXCEPT !.pc = IF back.ok THEN "rows" ELSE "status"] IN
    /\ up /\ back.pc \in {"move", "copying"}
    /\ \/ /\ Arrive(i, "new", "old", "rollback") /\ NoFault
          /\ back' = moved
       \/ /\ back.pc = "move"
          /\ StartCopy(i, "old", "rollback") /\ NoFault
          /\ back' = [back EXCEPT !.pc = "copying"]
       \/ /\ Fault /\ UNCHANGED <<at, overwritten>>
          /\ back' = [back EXCEPT !.pc = "status", !.ok = FALSE]
    /\ BackUnchanged
    /\ UNCHANGED <<rows, row, asset, jobLock, begun>>

\* A database error leaves the rollback where it is: it can be asked for again.
RollbackRows ==
    LET i == back.cur IN
    /\ BackAt("rows")
    /\ \/ /\ row' = [row EXCEPT ![i] = RowsAt("old")] /\ NoFault
          /\ back' = [back EXCEPT !.pc = "status"] /\ UNCHANGED jobLock
       \/ /\ \E t \in SUBSET {"history"} :
                row' = [row EXCEPT ![i] = [s \in Table |-> IF s \in t THEN "old" ELSE @[s]]]
          /\ Fault
          /\ back' = IdleBack /\ jobLock' = None
    /\ BackUnchanged
    /\ UNCHANGED <<rows, at, asset, overwritten, begun>>

RollbackStatus ==
    /\ BackAt("status")
    /\ item' = [item EXCEPT ![back.cur] =
                    IF back.ok THEN "rolled_back" ELSE "manual_intervention"]
    /\ back' = [back EXCEPT !.pc = "list"]
    /\ BackUnchanged
    /\ UNCHANGED <<job, journal, library, jobLock, overwritten, begun, left>>

RollbackEnd ==
    /\ BackAt("end")
    /\ job' = "rolled_back"
    /\ jobLock' = None /\ back' = IdleBack
    /\ BackUnchanged
    /\ UNCHANGED <<item, journal, library, overwritten, begun, left>>

RollbackStep ==
    \/ RollbackLock \/ RollbackNext \/ RollbackAssets \/ RollbackVideo \/ RollbackMove
    \/ RollbackRows \/ RollbackStatus \/ RollbackEnd

-----------------------------------------------------------------------------
(* A transfer into the library: it takes the lock of the directory, looks, and writes *)

TransferStart(i, side) ==
    /\ up /\ xfer.pc = "idle" /\ left.transfers > 0
    /\ dirLock[side] = None
    /\ dirLock' = [dirLock EXCEPT ![side] = "transfer"]
    /\ xfer' = [pc |-> "check", cur |-> i, side |-> side]
    /\ left' = [left EXCEPT !.transfers = @ - 1]
    /\ UNCHANGED <<rows, library, jobLock, run, back, cancel, up, overwritten, begun>>

TransferEnd == xfer' = IdleXfer /\ dirLock' = [dirLock EXCEPT ![xfer.side] = None]

TransferCheck ==
    /\ up /\ xfer.pc = "check"
    /\ \/ Exists(xfer.cur, xfer.side) /\ TransferEnd
       \/ /\ ~ Exists(xfer.cur, xfer.side)
          /\ xfer' = [xfer EXCEPT !.pc = "write"] /\ UNCHANGED dirLock
    /\ UNCHANGED <<rows, library, jobLock, run, back, cancel, up, overwritten, begun, left>>

TransferWrite ==
    /\ up /\ xfer.pc = "write"
    /\ at' = [at EXCEPT ![xfer.cur][xfer.side] = "other"]
    /\ overwritten' = overwritten \cup (IF Exists(xfer.cur, xfer.side) THEN {"transfer"} ELSE {})
    /\ TransferEnd
    /\ UNCHANGED <<rows, row, asset, jobLock, run, back, cancel, up, begun, left>>

-----------------------------------------------------------------------------
(* Crash, leases of the dead, restart *)

Left(holder) == IF holder = None THEN None ELSE "dead"

Crash ==
    /\ up /\ left.crashes > 0
    /\ left' = [left EXCEPT !.crashes = @ - 1]
    /\ up' = FALSE
    /\ jobLock' = Left(jobLock) /\ dirLock' = [d \in Side |-> Left(dirLock[d])]
    /\ run' = [e \in Runners |-> IdleRun] /\ back' = IdleBack /\ xfer' = IdleXfer
    /\ cancel' = IF cancel = "idle" THEN "idle" ELSE "sent"
    /\ UNCHANGED <<rows, library, overwritten, begun>>

LeasesEnd ==
    /\ "dead" \in {jobLock, dirLock["old"], dirLock["new"]}
    /\ jobLock' = IF jobLock = "dead" THEN None ELSE jobLock
    /\ dirLock' = [d \in Side |-> IF dirLock[d] = "dead" THEN None ELSE dirLock[d]]
    /\ UNCHANGED <<rows, library, threads, up, overwritten, begun, left>>

\* Mutation: an item that did not move takes the job's status.
RecoveredAsJob(i) ==
    IF Exists(i, "new") = Exists(i, "old") THEN "manual_intervention"
    ELSE IF Exists(i, "new") THEN "done" ELSE "interrupted"

\* _recover_job() goes by which of the paths exist.
Recovered(i) ==
    IF Exists(i, "new") = Exists(i, "old") THEN "manual_intervention"
    ELSE IF Exists(i, "new") THEN "done" ELSE "failed"

\* recover_interrupted_jobs() runs once, at start-up, and only for a running job whose
\* lock it gets.
Restart ==
    LET hit == {i \in Item : item[i] = "running"} IN
    /\ ~ up /\ up' = TRUE
    /\ IF job = "running" /\ jobLock = None
       THEN /\ job' = "interrupted"
            /\ item' = [i \in Item |-> IF i \in hit THEN Recovered(i) ELSE item[i]]
            /\ row' = [i \in Item |-> IF i \in hit /\ Recovered(i) = "done"
                                      THEN RowsAt("new") ELSE row[i]]
       ELSE UNCHANGED <<job, item, row>>
    /\ UNCHANGED <<journal, at, asset, locks, threads, overwritten, begun, left>>

-----------------------------------------------------------------------------
Next ==
    \/ \E e \in Runners : Submit(e) \/ RunStep(e)
    \/ CancelRead \/ CancelWrite
    \/ RollbackAsk \/ RollbackStep
    \/ \E i \in Item, side \in Side : TransferStart(i, side)
    \/ TransferCheck \/ TransferWrite
    \/ Crash \/ LeasesEnd \/ Restart

Spec == Init /\ [][Next]_vars

-----------------------------------------------------------------------------
(* Properties *)

\* Types, and who may hold which lock.
TypeOK ==
    /\ job \in Statuses
    /\ item \in [Item -> ItemStatuses]
    /\ journal \in [Item -> SUBSET Asset]
    /\ row \in [Item -> [Table -> Side]]
    /\ at \in [Item -> [Side -> Files]]
    /\ asset \in [Asset -> {"old", "new", "stray"}]
    /\ jobLock \in Runners \cup {None, "rollback", "dead"}
    /\ dirLock \in [Side -> Runners \cup {None, "transfer", "dead"}]
    /\ run \in [Runners -> [pc : RunSteps, todo : SUBSET Item, cur : Item \cup {None},
                            moved : SUBSET Asset, ok : BOOLEAN, end : Statuses]]
    /\ back \in [pc : BackSteps, todo : SUBSET Item, cur : Item \cup {None}, ok : BOOLEAN]
    /\ cancel \in {"idle", "planned", "running", "sent"}
    /\ xfer \in [pc : {"idle", "check", "write"}, cur : Item \cup {None}, side : Side]
    /\ up \in BOOLEAN
    /\ overwritten \subseteq {"rename", "rollback", "transfer"}
    /\ begun \subseteq Item
    /\ left \in [faults : 0..MaxFaults, crashes : 0..MaxCrashes,
                 rollbacks : 0..MaxRollbacks, transfers : 0..MaxTransfers]

\* What an item's row promises is true of the disk and of the other tables, after one
\* failed operation and after a crash and its recovery: an item that is not done has its
\* video at the old path and its history and metadata there too, a done item has all
\* three at the new one until a rollback touches it.
SettledItemsAgree ==
    \A i \in Item :
        /\ item[i] \in {"planned", "failed"} =>
               at[i]["new"] \notin {"video", "copy"} /\ row[i] = RowsAt("old")
        /\ item[i] = "done" /\ i \notin begun =>
               /\ at[i]["new"] = "video" /\ at[i]["old"] # "video"
               /\ row[i] = RowsAt("new")
        /\ item[i] = "rolled_back" =>
               /\ at[i]["old"] = "video" \/ overwritten # {}
               /\ at[i]["new"] # "video" /\ row[i] = RowsAt("old")

\* A rename writes over no file: not over one a transfer puts at the target between the
\* plan, the two looks and the move; nor does that transfer write over the video.
RenameKeepsFiles == begun = {} => overwritten = {}

\* The same of everything that writes the library, rollbacks included.
NothingOverwritten == overwritten = {}

\* Where nothing failed or crashed, a rollback leaves no item done and takes every
\* subtitle and the poster back, those moved when the job ended included.
RollbackRestores ==
    job = "rolled_back" /\ left.faults = MaxFaults /\ left.crashes = MaxCrashes =>
        /\ \A i \in Item : item[i] # "done"
        /\ \A a \in Asset : asset[a] = "old"

\* A job says "completed" only when every item was tried and none is under way, however
\* a second submission, a cancel and a lost lease fall between its steps.
CompletedMeansSettled ==
    job = "completed" => \A i \in Item : item[i] \notin {"planned", "running"}

\* A video changes place only while its row says that it is being moved, or may be moved
\* back: recovery finds every move in the table.
MovesAreJournaled ==
    [][\A i \in Item :
          (at[i]["new"] = "video") # (at'[i]["new"] = "video") => item[i] \in {"running", "done"}]_vars
=============================================================================
