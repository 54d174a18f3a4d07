------------------------- MODULE LibraryRenameProofs --------------------------
(***************************************************************************)
(* Theorems about LibraryRename for any number of items, runners, crashes, *)
(* rollbacks and transfers.                                                *)
(***************************************************************************)
EXTENDS LibraryRename, FiniteSetTheorems, TLAPS

\* A set of items that is not empty has a least and a greatest element.
LEMMA MinItem ==
  ASSUME NEW S \in SUBSET Item, S # {}
  PROVE  Min(S) \in S
<1> DEFINE R == OpToRel(<, Nat)
<1>0. S \subseteq Nat
  BY RenameAssumption DEF Item
<1>1. ASSUME NEW x \in Nat, NEW y \in Nat, y < x
      PROVE  <<y, x>> \in R
  BY <1>1 DEF OpToRel
<1>2. IsWellFoundedOn(R, Nat)
  BY NatLessThanWellFounded
<1> HIDE DEF R
<1>3. PICK x \in S : \A y \in S : ~ (<<y, x>> \in R)
  BY <1>0, <1>2, WFMin
<1>4. \A y \in S : ~ (y < x)
  BY <1>0, <1>1, <1>3
<1>5. \A y \in S : x <= y
  BY <1>0, <1>4
<1> QED
  BY <1>5 DEF Min

LEMMA MaxItem ==
  ASSUME NEW S \in SUBSET Item, S # {}
  PROVE  Max(S) \in S
<1> DEFINE T == {N - i : i \in S}
           R == OpToRel(<, Nat)
<1>0. T \subseteq Nat /\ T # {} /\ S \subseteq Nat
  <2>1. \A i \in Item : i \in Nat /\ N - i \in Nat
    BY RenameAssumption DEF Item
  <2> QED
    BY <2>1
<1>1. ASSUME NEW x \in Nat, NEW y \in Nat, y < x
      PROVE  <<y, x>> \in R
  BY <1>1 DEF OpToRel
<1>2. IsWellFoundedOn(R, Nat)
  BY NatLessThanWellFounded
<1> HIDE DEF R
<1>3. PICK x \in T : \A y \in T : ~ (<<y, x>> \in R)
  BY <1>0, <1>2, WFMin
<1>4. PICK m \in S : x = N - m
  BY <1>3
<1>5. \A n \in S : ~ (N - n < N - m)
  BY <1>0, <1>1, <1>3, <1>4
<1>6. \A n \in S : m >= n
  BY <1>0, <1>5, RenameAssumption
<1> QED
  BY <1>6 DEF Max

-----------------------------------------------------------------------------
(* Types *)

RunPlaces == [pc : RunSteps, todo : SUBSET Item, cur : Item \cup {None},
              moved : SUBSET Asset, ok : BOOLEAN, end : Statuses]
BackPlaces == [pc : BackSteps, todo : SUBSET Item, cur : Item \cup {None}, ok : BOOLEAN]

\* The steps of _execute_item(), and of the rollback of one item.
ItemSteps == {"check", "dirs", "recheck", "move", "copying", "assets", "rows", "done",
              "undo_rows", "undo_assets", "undo_video", "undone"}
BackItemSteps == {"assets", "video", "move", "copying", "rows", "status"}

RowsTyped == job \in Statuses /\ item \in [Item -> ItemStatuses] /\ journal \in [Item -> SUBSET Asset]
RowTyped == row \in [Item -> [Table -> Side]]
AtTyped == at \in [Item -> [Side -> Files]] /\ overwritten \subseteq {"rename", "rollback", "transfer"}
AssetTyped == asset \in [Asset -> {"old", "new", "stray"}]
LocksTyped ==
    /\ jobLock \in Runners \cup {None, "rollback", "dead"}
    /\ dirLock \in [Side -> Runners \cup {None, "transfer", "dead"}]
RunTyped ==
    /\ run \in [Runners -> RunPlaces]
    /\ \A e \in Runners : run[e].pc \in ItemSteps => run[e].cur \in Item
BackTyped ==
    /\ back \in BackPlaces /\ begun \subseteq Item
    /\ back.pc \in BackItemSteps => back.cur \in Item
XferTyped ==
    /\ xfer \in [pc : {"idle", "check", "write"}, cur : Item \cup {None}, side : Side]
    /\ xfer.pc # "idle" => xfer.cur \in Item
RestTyped == cancel \in {"idle", "planned", "running", "sent"} /\ up \in BOOLEAN
LeftTyped == left \in [faults : 0..MaxFaults, crashes : 0..MaxCrashes,
                       rollbacks : 0..MaxRollbacks, transfers : 0..MaxTransfers]

TypeInv ==
    /\ RowsTyped /\ RowTyped /\ AtTyped /\ AssetTyped /\ LocksTyped
    /\ RunTyped /\ BackTyped /\ XferTyped /\ RestTyped /\ LeftTyped

LEMMA TypeInit == Init => TypeInv
<1> SUFFICES ASSUME Init PROVE TypeInv
  OBVIOUS
<1>1. RowsTyped /\ RowTyped /\ AssetTyped /\ LocksTyped
  BY DEF Init, RowsTyped, RowTyped, AssetTyped, LocksTyped, Statuses, ItemStatuses, RowsAt, Side
<1>2. AtTyped
  BY DEF Init, AtTyped, Side, Files
<1>3. RunTyped /\ BackTyped /\ XferTyped /\ RestTyped
  BY DEF Init, RunTyped, RunPlaces, IdleRun, RunSteps, ItemSteps, Statuses, BackTyped, BackPlaces,
         IdleBack, BackSteps, BackItemSteps, XferTyped, IdleXfer, Side, RestTyped
<1>4. LeftTyped
  BY RenameAssumption DEF Init, LeftTyped
<1> QED
  BY <1>1, <1>2, <1>3, <1>4 DEF TypeInv

LEMMA StayTyped ==
  ASSUME TypeInv
  PROVE  /\ UNCHANGED rows => RowsTyped'
         /\ UNCHANGED row => RowTyped'
         /\ UNCHANGED <<at, overwritten>> => AtTyped'
         /\ UNCHANGED asset => AssetTyped'
         /\ UNCHANGED locks => LocksTyped'
         /\ UNCHANGED run => RunTyped'
         /\ UNCHANGED <<back, begun>> => BackTyped'
         /\ UNCHANGED xfer => XferTyped'
         /\ UNCHANGED <<cancel, up>> => RestTyped'
         /\ UNCHANGED left => LeftTyped'
  BY DEF TypeInv, rows, locks, RowsTyped, RowTyped, AtTyped, AssetTyped, LocksTyped, RunTyped,
         BackTyped, XferTyped, RestTyped, LeftTyped

LEMMA FaultTyped ==
  ASSUME TypeInv, NoFault \/ Fault
  PROVE  LeftTyped'
<1>1. CASE NoFault
  BY <1>1, StayTyped DEF NoFault
<1>2. CASE Fault
  BY <1>2, RenameAssumption DEF Fault, TypeInv, LeftTyped
<1> QED
  BY <1>1, <1>2

\* What a move does to the paths of an item.
LEMMA ArriveFiles ==
  ASSUME AtTyped, NEW i \in Item, NEW from \in Side, NEW to \in Side, from # to,
         NEW who \in {"rename", "rollback"}, Arrive(i, from, to, who)
  PROVE  /\ AtTyped' /\ at'[i][to] = at[i][from] /\ at'[i][from] = "nothing"
         /\ \A j \in Item \ {i} : at'[j] = at[j]
         /\ overwritten \subseteq overwritten'
         /\ at[i][to] # "other" => overwritten' = overwritten
         /\ at[i][to] = "other" => overwritten' # {}
  BY DEF AtTyped, Arrive, Files, Side

LEMMA StartCopyFiles ==
  ASSUME AtTyped, NEW i \in Item, NEW to \in Side, NEW who \in {"rename", "rollback"},
         StartCopy(i, to, who)
  PROVE  /\ AtTyped' /\ at'[i][to] = "copy" /\ \A s \in Side \ {to} : at'[i][s] = at[i][s]
         /\ \A j \in Item \ {i} : at'[j] = at[j]
         /\ overwritten \subseteq overwritten'
         /\ ~ Exists(i, to) => overwritten' = overwritten
         /\ Exists(i, to) => overwritten' # {}
  BY DEF AtTyped, StartCopy, Files, Side

\* A runner moves: the others stay where they are.
LEMMA RunMoves ==
  ASSUME TypeInv, NEW e \in Runners, NEW p \in RunPlaces, run' = [run EXCEPT ![e] = p],
         p.pc \in ItemSteps => p.cur \in Item
  PROVE  RunTyped'
  BY DEF TypeInv, RunTyped, RunPlaces

LEMMA GotoTyped ==
  ASSUME TypeInv, NEW e \in Runners, NEW pc \in RunSteps, Goto(e, pc),
         pc \in ItemSteps => run[e].pc \in ItemSteps
  PROVE  RunTyped'
<1> DEFINE p == [run[e] EXCEPT !.pc = pc]
<1>1. p \in RunPlaces /\ p.pc = pc /\ p.cur = run[e].cur
  BY DEF TypeInv, RunTyped, RunPlaces
<1>2. run' = [run EXCEPT ![e] = p]
  BY DEF Goto, TypeInv, RunTyped
<1>3. pc \in ItemSteps => run[e].cur \in Item
  BY DEF TypeInv, RunTyped
<1> QED
  BY <1>1, <1>2, <1>3, RunMoves

\* What else a step of one runner changes in its place.
Locals(e) == <<run[e].todo, run[e].cur, run[e].moved, run[e].ok, run[e].end>>

LEMMA GotoFields ==
  ASSUME TypeInv, NEW e \in Runners, NEW pc \in RunSteps, Goto(e, pc)
  PROVE  run'[e].pc = pc /\ UNCHANGED Locals(e) /\ \A f \in Runners \ {e} : run'[f] = run[f]
  BY DEF Goto, TypeInv, RunTyped, RunPlaces, Locals

\* What EndJob() leaves.
LEMMA EndJobTyped ==
  ASSUME TypeInv, NEW e \in Runners, NEW status \in Statuses, EndJob(e, status)
  PROVE  /\ RowsTyped' /\ RowTyped' /\ AtTyped' /\ AssetTyped' /\ LocksTyped'
         /\ RunTyped' /\ BackTyped' /\ XferTyped' /\ RestTyped'
<1>1. RowsTyped'
  BY DEF EndJob, TypeInv, RowsTyped
<1>2. LocksTyped'
  BY DEF EndJob, ReleaseDirs, TypeInv, LocksTyped
<1>3. IdleRun \in RunPlaces /\ IdleRun.pc \notin ItemSteps
  BY DEF IdleRun, RunPlaces, RunSteps, ItemSteps, Statuses
<1>4. RunTyped'
  BY <1>3, RunMoves DEF EndJob
<1> QED
  BY <1>1, <1>2, <1>4, StayTyped DEF EndJob, library

LEMMA TypeRun ==
  ASSUME TypeInv, NEW e \in Runners, Submit(e) \/ RunStep(e)
  PROVE  TypeInv'
<1> DEFINE i == run[e].cur
<1>r. run[e] \in RunPlaces /\ (run[e].pc \in ItemSteps => i \in Item) /\ AtTyped
  BY DEF TypeInv, RunTyped
<1> HIDE DEF i
<1>d. ReleaseDirs(e) => dirLock' \in [Side -> Runners \cup {None, "transfer", "dead"}]
  BY DEF ReleaseDirs, TypeInv, LocksTyped
<1> USE DEF RunSteps, ItemSteps, At, library, locks
<1>1. CASE Submit(e)
  BY <1>1, StayTyped, GotoTyped DEF Submit, TypeInv
<1>2. CASE ReadJob(e)
  BY <1>2, StayTyped, GotoTyped DEF ReadJob, TypeInv
<1>3. CASE TakeJob(e)
  <2>1. RowsTyped' /\ LocksTyped'
    BY <1>3 DEF TakeJob, TypeInv, RowsTyped, LocksTyped, Statuses
  <2>2. RunTyped'
    <3>1. CASE Goto(e, "idle")
      BY <3>1, GotoTyped
    <3>2. CASE ~ Goto(e, "idle")
      <4> DEFINE p == [IdleRun EXCEPT !.pc = "pick", !.todo = {j \in Item : item[j] = "planned"}]
      <4>1. p \in RunPlaces /\ p.pc = "pick"
        BY DEF IdleRun, RunPlaces, Statuses
      <4>2. run' = [run EXCEPT ![e] = p]
        BY <1>3, <3>2 DEF TakeJob
      <4> QED
        BY <4>1, <4>2, RunMoves
    <3> QED
      BY <3>1, <3>2
  <2> QED
    BY <1>3, <2>1, <2>2, StayTyped DEF TakeJob, TypeInv
<1>4. CASE Pick(e)
  <2>1. RunTyped'
    <3>1. CASE job \in Cancelling \/ run[e].todo = {}
      <4>1. Goto(e, "finish")
        BY <1>4, <3>1 DEF Pick, Goto
      <4> QED
        BY <4>1, GotoTyped
    <3>2. CASE ~ (job \in Cancelling \/ run[e].todo = {})
      <4> DEFINE m == Min(run[e].todo)
                 p == [run[e] EXCEPT !.pc = "check", !.cur = m, !.todo = @ \ {m},
                                     !.moved = {}, !.ok = TRUE]
      <4>1. m \in Item
        BY <1>r, <3>2, MinItem DEF RunPlaces
      <4>2. run' = [run EXCEPT ![e] = p]
        BY <1>4, <3>2 DEF Pick
      <4> HIDE DEF m
      <4>3. p \in RunPlaces /\ p.cur = m
        BY <1>r, <4>1 DEF RunPlaces
      <4> QED
        BY <4>1, <4>2, <4>3, RunMoves
    <3> QED
      BY <3>1, <3>2
  <2> QED
    BY <1>4, <2>1, StayTyped DEF Pick, TypeInv
<1>5. CASE Check(e)
  <2>1. RowsTyped'
    BY <1>5, <1>r DEF Check, TypeInv, RowsTyped, ItemStatuses, i
  <2> QED
    BY <1>5, <2>1, StayTyped, GotoTyped DEF Check, TypeInv
<1>6. CASE LockDirs(e)
  <2>1. RowsTyped'
    BY <1>6, <1>r DEF LockDirs, TypeInv, RowsTyped, ItemStatuses, i
  <2>2. LocksTyped'
    BY <1>6 DEF LockDirs, DirLocks, TypeInv, LocksTyped
  <2> QED
    BY <1>6, <2>1, <2>2, StayTyped, GotoTyped DEF LockDirs, TypeInv
<1>7. CASE Recheck(e)
  <2>1. RowsTyped'
    BY <1>7, <1>r DEF Recheck, TypeInv, RowsTyped, ItemStatuses, i
  <2>2. LocksTyped'
    BY <1>7, <1>d DEF Recheck, TypeInv, LocksTyped
  <2> QED
    BY <1>7, <2>1, <2>2, StayTyped, GotoTyped, FaultTyped DEF Recheck, TypeInv
<1>8. CASE Move(e) \/ Copied(e)
  <2>1. AtTyped'
    BY <1>8, <1>r, ArriveFiles, StartCopyFiles, StayTyped DEF Move, Copied, Side, i
  <2>2. RunTyped'
    BY <1>8, GotoTyped DEF Move, Copied
  <2>3. LeftTyped'
    BY <1>8, FaultTyped DEF Move, Copied
  <2> QED
    BY <1>8, <2>1, <2>2, <2>3, StayTyped DEF Move, Copied, TypeInv
<1>9. CASE MoveAssets(e)
  <2>1. AssetTyped'
    BY <1>9 DEF MoveAssets, TypeInv, AssetTyped
  <2>2. RunTyped'
    <3>1. CASE Goto(e, "rows")
      BY <1>9, <3>1, GotoTyped DEF MoveAssets
    <3>2. CASE ~ Goto(e, "rows")
      <4> DEFINE p == [run[e] EXCEPT !.pc = "rows", !.moved = {i}]
      <4>1. i \in Item /\ Item \subseteq Asset
        BY <1>9, <1>r, RenameAssumption DEF MoveAssets, Item, Asset
      <4>2. run' = [run EXCEPT ![e] = p]
        <5>1. run' = [run EXCEPT ![e].pc = "rows", ![e].moved = {i}]
          BY <1>9, <3>2 DEF MoveAssets, i
        <5> QED
          BY <5>1 DEF TypeInv, RunTyped
      <4>3. p \in RunPlaces /\ p.cur = i
        BY <1>r, <4>1 DEF RunPlaces, i
      <4> QED
        BY <4>1, <4>2, <4>3, RunMoves
    <3> QED
      BY <3>1, <3>2
  <2> QED
    BY <1>9, <2>1, <2>2, StayTyped, FaultTyped DEF MoveAssets, TypeInv
<1>10. CASE WriteRows(e)
  <2>1. RowTyped'
    <3>1. RowsAt("new") \in [Table -> Side]
      BY DEF RowsAt, Side
    <3> QED
      BY <1>10, <1>r, <3>1 DEF WriteRows, TypeInv, RowTyped, Side, Table, i
  <2> QED
    BY <1>10, <2>1, StayTyped, GotoTyped, FaultTyped DEF WriteRows, TypeInv
<1>11. CASE WriteDone(e)
  <2>1. RowsTyped'
    BY <1>11, <1>r DEF WriteDone, TypeInv, RowsTyped, ItemStatuses, RunPlaces, i
  <2>2. LocksTyped'
    BY <1>11, <1>d DEF WriteDone, TypeInv, LocksTyped
  <2> QED
    BY <1>11, <2>1, <2>2, StayTyped, GotoTyped, FaultTyped DEF WriteDone, TypeInv
<1>12. CASE UndoRows(e)
  <2>1. RowTyped'
    <3>1. RowsAt("old") \in [Table -> Side]
      BY DEF RowsAt, Side
    <3> QED
      BY <1>12, <1>r, <3>1 DEF UndoRows, TypeInv, RowTyped, Side, Table, i
  <2> QED
    BY <1>12, <2>1, StayTyped, GotoTyped, FaultTyped DEF UndoRows, TypeInv
<1>13. CASE UndoAssets(e)
  <2>1. AssetTyped'
    BY <1>13 DEF UndoAssets, Restored, TypeInv, AssetTyped
  <2> DEFINE p == [run[e] EXCEPT !.pc = "undo_video", !.ok = FALSE]
  <2>2. p \in RunPlaces /\ p.cur = i
    BY <1>r DEF RunPlaces, i
  <2>3. RunTyped'
    <3>1. Goto(e, "undo_video") \/ run' = [run EXCEPT ![e] = p]
      BY <1>13 DEF UndoAssets, TypeInv, RunTyped
    <3> QED
      BY <1>13, <1>r, <2>2, <3>1, RunMoves, GotoTyped DEF UndoAssets
  <2> QED
    BY <1>13, <2>1, <2>3, StayTyped, FaultTyped DEF UndoAssets, TypeInv
<1>14. CASE UndoVideo(e)
  <2>1. AtTyped'
    BY <1>14, <1>r, ArriveFiles, StayTyped DEF UndoVideo, Side, i
  <2> DEFINE p == [run[e] EXCEPT !.pc = "undone", !.ok = FALSE]
  <2>2. p \in RunPlaces /\ p.cur = i
    BY <1>r DEF RunPlaces, i
  <2>3. RunTyped'
    <3>1. Goto(e, "undone") \/ run' = [run EXCEPT ![e] = p]
      BY <1>14 DEF UndoVideo, TypeInv, RunTyped
    <3> QED
      BY <1>14, <1>r, <2>2, <3>1, RunMoves, GotoTyped DEF UndoVideo
  <2> QED
    BY <1>14, <2>1, <2>3, StayTyped, FaultTyped DEF UndoVideo, TypeInv
<1>15. CASE Undone(e)
  <2>1. RowsTyped'
    BY <1>15, <1>r DEF Undone, TypeInv, RowsTyped, ItemStatuses, i
  <2>2. LocksTyped'
    BY <1>15, <1>d DEF Undone, TypeInv, LocksTyped
  <2> QED
    BY <1>15, <2>1, <2>2, StayTyped, GotoTyped DEF Undone, TypeInv
<1>16. CASE Extend(e)
  <2> DEFINE p == [run[e] EXCEPT !.pc = "end", !.end = "interrupted"]
  <2>1. p \in RunPlaces /\ p.pc = "end"
    BY <1>r DEF RunPlaces, Statuses
  <2>2. RunTyped'
    <3>1. Goto(e, "pick") \/ run' = [run EXCEPT ![e] = p]
      BY <1>16 DEF Extend, TypeInv, RunTyped
    <3> QED
      BY <2>1, <3>1, RunMoves, GotoTyped
  <2> QED
    BY <1>16, <2>2, StayTyped, FaultTyped DEF Extend, TypeInv
<1>17. CASE Finish(e)
  <2>1. AssetTyped'
    BY <1>17 DEF Finish, TypeInv, AssetTyped
  <2> DEFINE p == [run[e] EXCEPT !.pc = "log_finish", !.moved = {a \in Asset : asset[a] = "old"}]
  <2>2. p \in RunPlaces /\ p.pc = "log_finish"
    BY <1>r DEF RunPlaces
  <2>3. RunTyped'
    <3>1. Goto(e, "decide") \/ run' = [run EXCEPT ![e] = p]
      BY <1>17 DEF Finish, TypeInv, RunTyped
    <3> QED
      BY <2>2, <3>1, RunMoves, GotoTyped
  <2> QED
    BY <1>17, <2>1, <2>3, StayTyped, FaultTyped DEF Finish, TypeInv
<1>18. CASE LogFinish(e)
  <2>1. RowsTyped'
    BY <1>18, <1>r, RenameAssumption DEF LogFinish, TypeInv, RowsTyped, RunPlaces, Item
  <2> QED
    BY <1>18, <2>1, StayTyped, GotoTyped, FaultTyped DEF LogFinish, TypeInv
<1>19. CASE Decide(e)
  <2> DEFINE status == IF job \in Cancelling THEN "cancelled" ELSE "completed"
             p == [run[e] EXCEPT !.pc = "end", !.end = status]
  <2>1. p \in RunPlaces /\ p.pc = "end"
    BY <1>r DEF RunPlaces, Statuses
  <2>2. run' = [run EXCEPT ![e] = p]
    BY <1>19 DEF Decide, TypeInv, RunTyped
  <2> QED
    BY <1>19, <2>1, <2>2, RunMoves, StayTyped DEF Decide, TypeInv
<1>20. CASE End(e) \/ JobFails(e)
  <2>1. run[e].end \in Statuses /\ "failed" \in Statuses
    BY <1>r DEF RunPlaces, Statuses
  <2> QED
    BY <1>20, <2>1, EndJobTyped, FaultTyped DEF End, JobFails, TypeInv
<1> QED
  BY <1>1, <1>2, <1>3, <1>4, <1>5, <1>6, <1>7, <1>8, <1>9, <1>10, <1>11, <1>12, <1>13, <1>14,
     <1>15, <1>16, <1>17, <1>18, <1>19, <1>20 DEF RunStep

LEMMA TypeRollback ==
  ASSUME TypeInv, RollbackAsk \/ RollbackStep
  PROVE  TypeInv'
<1> DEFINE i == back.cur
<1>r. back \in BackPlaces /\ (back.pc \in BackItemSteps => i \in Item) /\ AtTyped
  BY DEF TypeInv, BackTyped
<1> HIDE DEF i
<1> USE DEF BackSteps, BackItemSteps, BackAt, BackUnchanged, library, locks
<1>i. IdleBack \in BackPlaces /\ IdleBack.pc = "idle"
  BY DEF IdleBack, BackPlaces
<1>1. CASE RollbackAsk
  <2>1. BackTyped'
    BY <1>1, <1>r DEF RollbackAsk, TypeInv, BackTyped, BackPlaces
  <2>2. LeftTyped'
    BY <1>1, RenameAssumption DEF RollbackAsk, TypeInv, LeftTyped
  <2>3. LocksTyped'
    BY <1>1, StayTyped DEF RollbackAsk
  <2> QED
    BY <1>1, <2>1, <2>2, <2>3, StayTyped DEF RollbackAsk, TypeInv
<1>2. CASE RollbackLock
  <2>1. BackTyped'
    BY <1>2, <1>i DEF RollbackLock, TypeInv, BackTyped, BackPlaces, IdleBack
  <2>2. LocksTyped'
    BY <1>2 DEF RollbackLock, TypeInv, LocksTyped
  <2> QED
    BY <1>2, <2>1, <2>2, StayTyped DEF RollbackLock, TypeInv
<1>3. CASE RollbackNext
  <2>1. BackTyped'
    <3>1. back.todo # {} => Max(back.todo) \in Item
      BY <1>r, MaxItem DEF BackPlaces
    <3> QED
      BY <1>3, <1>r, <3>1 DEF RollbackNext, TypeInv, BackTyped, BackPlaces
  <2> QED
    BY <1>3, <2>1, StayTyped DEF RollbackNext, TypeInv
<1>4. CASE RollbackAssets
  <2>1. BackTyped'
    BY <1>4, <1>r DEF RollbackAssets, TypeInv, BackTyped, BackPlaces
  <2>2. AssetTyped'
    BY <1>4 DEF RollbackAssets, Restored, TypeInv, AssetTyped
  <2> QED
    BY <1>4, <2>1, <2>2, StayTyped, FaultTyped DEF RollbackAssets, TypeInv
<1>5. CASE RollbackVideo
  <2>1. BackTyped'
    <3>1. /\ \/ back' = [back EXCEPT !.pc = "move"]
             \/ back' = [back EXCEPT !.pc = "status", !.ok = FALSE]
             \/ back' = [back EXCEPT !.pc = "rows"]
             \/ back' = [back EXCEPT !.pc = "status"]
          /\ begun' = begun /\ i \in Item
      BY <1>5, <1>r DEF RollbackVideo
    <3> QED
      BY <1>r, <3>1 DEF TypeInv, BackTyped, BackPlaces, i
  <2> QED
    BY <1>5, <2>1, StayTyped DEF RollbackVideo, TypeInv
<1>6. CASE RollbackMove
  <2>1. BackTyped'
    BY <1>6, <1>r DEF RollbackMove, TypeInv, BackTyped, BackPlaces
  <2>2. AtTyped'
    BY <1>6, <1>r, ArriveFiles, StartCopyFiles, StayTyped DEF RollbackMove, Side, i
  <2> QED
    BY <1>6, <2>1, <2>2, StayTyped, FaultTyped DEF RollbackMove, TypeInv
<1>7. CASE RollbackRows
  <2>1. BackTyped'
    BY <1>7, <1>r, <1>i DEF RollbackRows, TypeInv, BackTyped, BackPlaces
  <2>2. RowTyped'
    <3>1. RowsAt("old") \in [Table -> Side]
      BY DEF RowsAt, Side
    <3>2. i \in Item /\ row[i] \in [Table -> Side]
      BY <1>7, <1>r DEF RollbackRows, TypeInv, RowTyped
    <3>3. PICK r \in [Table -> Side] : row' = [row EXCEPT ![i] = r]
      <4>1. CASE row' = [row EXCEPT ![i] = RowsAt("old")]
        BY <3>1, <4>1
      <4>2. CASE \E t \in SUBSET {"history"} :
                    row' = [row EXCEPT ![i] = [s \in Table |-> IF s \in t THEN "old" ELSE row[i][s]]]
        BY <3>2, <4>2 DEF Side
      <4> QED
        BY <1>7, <4>1, <4>2 DEF RollbackRows, i
    <3> QED
      BY <3>2, <3>3 DEF TypeInv, RowTyped
  <2>3. LocksTyped'
    BY <1>7 DEF RollbackRows, TypeInv, LocksTyped
  <2> QED
    BY <1>7, <2>1, <2>2, <2>3, StayTyped, FaultTyped DEF RollbackRows, TypeInv
<1>8. CASE RollbackStatus
  <2>1. BackTyped' /\ RowsTyped'
    BY <1>8, <1>r DEF RollbackStatus, TypeInv, BackTyped, BackPlaces, RowsTyped, ItemStatuses, i
  <2> QED
    BY <1>8, <2>1, StayTyped DEF RollbackStatus, TypeInv
<1>9. CASE RollbackEnd
  <2>1. BackTyped' /\ RowsTyped'
    BY <1>9, <1>i DEF RollbackEnd, TypeInv, BackTyped, RowsTyped, Statuses
  <2>2. LocksTyped'
    BY <1>9 DEF RollbackEnd, TypeInv, LocksTyped
  <2> QED
    BY <1>9, <2>1, <2>2, StayTyped DEF RollbackEnd, TypeInv
<1> QED
  BY <1>1, <1>2, <1>3, <1>4, <1>5, <1>6, <1>7, <1>8, <1>9 DEF RollbackStep

TransferSteps == \/ \E i \in Item, side \in Side : TransferStart(i, side)
                 \/ TransferCheck \/ TransferWrite

LEMMA TypeTransfer ==
  ASSUME TypeInv, TransferSteps
  PROVE  TypeInv'
<1> USE DEF library, locks, XferTyped
<1>t. TransferEnd => XferTyped' /\ (UNCHANGED jobLock => LocksTyped')
  BY DEF TransferEnd, IdleXfer, Side, TypeInv, LocksTyped
<1>1. ASSUME NEW i \in Item, NEW side \in Side, TransferStart(i, side)
      PROVE  TypeInv'
  <2>1. XferTyped' /\ LocksTyped'
    BY <1>1 DEF TransferStart, TypeInv, LocksTyped
  <2>2. LeftTyped'
    BY <1>1, RenameAssumption DEF TransferStart, TypeInv, LeftTyped
  <2> QED
    BY <1>1, <2>1, <2>2, StayTyped DEF TransferStart, TypeInv
<1>2. CASE TransferCheck
  <2>1. XferTyped' /\ LocksTyped'
    BY <1>2, <1>t, StayTyped DEF TransferCheck, TypeInv
  <2> QED
    BY <1>2, <2>1, StayTyped DEF TransferCheck, TypeInv
<1>3. CASE TransferWrite
  <2>1. XferTyped' /\ LocksTyped'
    BY <1>3, <1>t DEF TransferWrite
  <2>2. AtTyped'
    BY <1>3 DEF TransferWrite, TypeInv, AtTyped, Files
  <2> QED
    BY <1>3, <2>1, <2>2, StayTyped DEF TransferWrite, TypeInv
<1> QED
  BY <1>1, <1>2, <1>3 DEF TransferSteps

LEMMA TypeProcess ==
  ASSUME TypeInv, CancelRead \/ CancelWrite \/ Crash \/ LeasesEnd \/ Restart
  PROVE  TypeInv'
<1> USE DEF library, locks, rows, threads
<1>1. CASE CancelRead \/ CancelWrite
  <2>1. RowsTyped' /\ RestTyped'
    BY <1>1 DEF CancelRead, CancelWrite, TypeInv, RowsTyped, RestTyped, Statuses
  <2> QED
    BY <1>1, <2>1, StayTyped DEF CancelRead, CancelWrite, TypeInv
<1>2. CASE Crash
  <2>1. LocksTyped'
    BY <1>2 DEF Crash, Left, TypeInv, LocksTyped
  <2>2. RunTyped'
    BY <1>2 DEF Crash, RunTyped, RunPlaces, IdleRun, RunSteps, ItemSteps, Statuses
  <2>3. BackTyped' /\ XferTyped' /\ RestTyped'
    BY <1>2 DEF Crash, BackTyped, BackPlaces, IdleBack, BackSteps, BackItemSteps, XferTyped,
                IdleXfer, Side, RestTyped, TypeInv
  <2>4. LeftTyped'
    BY <1>2, RenameAssumption DEF Crash, TypeInv, LeftTyped
  <2> QED
    BY <1>2, <2>1, <2>2, <2>3, <2>4, StayTyped DEF Crash, TypeInv
<1>3. CASE LeasesEnd
  <2>1. LocksTyped'
    BY <1>3 DEF LeasesEnd, TypeInv, LocksTyped
  <2> QED
    BY <1>3, <2>1, StayTyped DEF LeasesEnd, TypeInv
<1>4. CASE Restart
  <2>1. RowsTyped' /\ RestTyped'
    <3>1. \A i \in Item : Recovered(i) \in ItemStatuses
      BY DEF Recovered, ItemStatuses
    <3> QED
      BY <1>4, <3>1 DEF Restart, TypeInv, RowsTyped, RestTyped, Statuses
  <2>2. RowTyped'
    <3>1. RowsAt("new") \in [Table -> Side]
      BY DEF RowsAt, Side
    <3> QED
      BY <1>4, <3>1 DEF Restart, TypeInv, RowTyped
  <2> QED
    BY <1>4, <2>1, <2>2, StayTyped DEF Restart, TypeInv
<1> QED
  BY <1>1, <1>2, <1>3, <1>4

LEMMA TypeStep == TypeInv /\ [Next]_vars => TypeInv'
<1> SUFFICES ASSUME TypeInv, [Next]_vars PROVE TypeInv'
  OBVIOUS
<1>1. CASE UNCHANGED vars
  BY <1>1, StayTyped DEF vars, rows, library, locks, threads, TypeInv
<1> QED
  BY <1>1, TypeRun, TypeRollback, TypeTransfer, TypeProcess DEF Next, TransferSteps

\* Type correctness: the job's lock is held by a runner, a rollback or a dead process, a
\* directory's by a runner, a transfer or a dead process, and nothing else ever.
THEOREM TypeCorrect == Spec => []TypeOK
<1>1. TypeInv => TypeOK
  BY DEF TypeInv, TypeOK, RowsTyped, RowTyped, AtTyped, AssetTyped, LocksTyped, RunTyped,
         RunPlaces, BackTyped, BackPlaces, XferTyped, RestTyped, LeftTyped
<1> QED
  BY <1>1, TypeInit, TypeStep, PTL DEF Spec

-----------------------------------------------------------------------------
(* The locks exclude *)

Works(e) == run[e].pc \notin {"idle", "read", "lock"}
Holds(e) == run[e].pc \in {"recheck", "move", "copying", "assets", "rows", "done", "undo_rows",
                           "undo_assets", "undo_video", "undone"}
RollsBack == back.pc \notin {"idle", "lock"}

\* A runner works under the job's lock, on a job that runs or is being cancelled, and on an
\* item's files under the locks of both directories; a rollback has the first only, a
\* transfer one of the others.
RunnersLock ==
    \A e \in Runners :
        /\ Works(e) => jobLock = e /\ job \in {"running"} \cup Cancelling
        /\ Holds(e) => dirLock = DirLocks(e)
RollbackLocks == RollsBack => jobLock = "rollback"
TransferLocks == xfer.pc # "idle" => dirLock[xfer.side] = "transfer"

LockInv == RunnersLock /\ RollbackLocks /\ TransferLocks

LEMMA LockInit == Init => LockInv
  BY DEF Init, LockInv, RunnersLock, RollbackLocks, TransferLocks, Works, Holds, RollsBack,
         IdleRun, IdleBack, IdleXfer

\* While a runner works no other one does, and no rollback; while it holds the directories
\* no transfer does.
LEMMA Alone ==
  ASSUME TypeInv, LockInv, NEW e \in Runners
  PROVE  /\ Works(e) => /\ \A f \in Runners \ {e} : ~ Works(f)
                        /\ ~ RollsBack
                        /\ jobLock = e /\ job \in {"running"} \cup Cancelling
         /\ Holds(e) => Works(e) /\ xfer.pc = "idle"
<1>1. Holds(e) => Works(e)
  BY DEF Holds, Works
<1>2. Works(e) => (\A f \in Runners \ {e} : ~ Works(f)) /\ ~ RollsBack /\ jobLock = e
                  /\ job \in {"running"} \cup Cancelling
  BY RenameAssumption DEF LockInv, RunnersLock, RollbackLocks
<1>3. Holds(e) => xfer.pc = "idle"
  BY RenameAssumption DEF LockInv, RunnersLock, TransferLocks, DirLocks, TypeInv, XferTyped
<1> QED
  BY <1>1, <1>2, <1>3

\* A runner moves on, inside its locks.
LEMMA RunKeepsLocks ==
  ASSUME TypeInv, LockInv, NEW e \in Runners, \A f \in Runners \ {e} : run'[f] = run[f],
         Works(e)' => Works(e), Holds(e)' => Holds(e), UNCHANGED <<job, jobLock, back, xfer>>,
         (ReleaseDirs(e) /\ Holds(e) /\ ~ Holds(e)') \/ UNCHANGED dirLock
  PROVE  LockInv'
<1>1. ASSUME NEW f \in Runners PROVE (Works(f)' => Works(f)) /\ (Holds(f)' => Holds(f))
  BY DEF Works, Holds
<1>2. RollbackLocks'
  BY DEF LockInv, RollbackLocks, RollsBack
<1>3. CASE UNCHANGED dirLock
  BY <1>1, <1>2, <1>3 DEF LockInv, RunnersLock, TransferLocks
<1>4. CASE ReleaseDirs(e) /\ Holds(e) /\ ~ Holds(e)'
  <2>1. ASSUME NEW f \in Runners, f # e PROVE ~ Holds(f)'
    BY <1>1, <1>4, <2>1, Alone
  <2>2. xfer.pc = "idle"
    BY <1>4, Alone
  <2> QED
    BY <1>1, <1>2, <1>4, <2>1, <2>2 DEF LockInv, RunnersLock, TransferLocks
<1> QED
  BY <1>3, <1>4

LEMMA EndJobKeepsLocks ==
  ASSUME TypeInv, LockInv, NEW e \in Runners, NEW status, Works(e), EndJob(e, status)
  PROVE  LockInv'
<1>1. ASSUME NEW f \in Runners PROVE ~ Works(f)' /\ ~ Holds(f)'
  <2>1. ~ Works(e)' /\ ~ Holds(e)'
    BY DEF EndJob, IdleRun, Works, Holds, TypeInv, RunTyped
  <2>2. CASE f # e
    <3>1. ~ Works(f) /\ ~ Holds(f)
      BY <2>2, Alone
    <3> QED
      BY <2>2, <3>1 DEF EndJob, Works, Holds, TypeInv, RunTyped
  <2> QED
    BY <2>1, <2>2
<1>2. ~ RollsBack' /\ back' = back
  BY Alone DEF EndJob, RollsBack
<1>3. TransferLocks'
  BY RenameAssumption DEF EndJob, ReleaseDirs, LockInv, TransferLocks, TypeInv, XferTyped
<1> QED
  BY <1>1, <1>2, <1>3 DEF LockInv, RunnersLock, RollbackLocks

LEMMA LockRun ==
  ASSUME TypeInv, LockInv, NEW e \in Runners, Submit(e) \/ RunStep(e)
  PROVE  LockInv'
<1> USE DEF RunSteps, At, rows, locks, threads
<1>o. ASSUME NEW p, run' = [run EXCEPT ![e] = p]
      PROVE  run'[e] = p /\ \A f \in Runners \ {e} : run'[f] = run[f]
  BY <1>o DEF TypeInv, RunTyped
<1>1. CASE Submit(e) \/ ReadJob(e)
  BY <1>1, GotoFields, RunKeepsLocks DEF Submit, ReadJob, Works, Holds
<1>2. CASE TakeJob(e)
  <2>1. CASE jobLock # None
    BY <1>2, <2>1, GotoFields, RunKeepsLocks DEF TakeJob, Works, Holds
  <2>2. CASE jobLock = None
    <3>1. /\ jobLock = None /\ jobLock' = e /\ job' = "running" /\ UNCHANGED <<dirLock, back, xfer>>
          /\ run' = [run EXCEPT ![e] = [IdleRun EXCEPT !.pc = "pick",
                                            !.todo = {i \in Item : item[i] = "planned"}]]
      BY <1>2, <2>2 DEF TakeJob
    <3>2. \A f \in Runners : ~ Works(f) /\ ~ Holds(f)
      BY <3>1, RenameAssumption DEF LockInv, RunnersLock, Works, Holds
    <3>3. ~ RollsBack
      BY <3>1, RenameAssumption DEF LockInv, RollbackLocks
    <3>4. run'[e].pc = "pick" /\ \A f \in Runners \ {e} : run'[f] = run[f]
      BY <3>1, <1>o DEF IdleRun
    <3> QED
      BY <3>1, <3>2, <3>3, <3>4 DEF LockInv, RunnersLock, RollbackLocks, RollsBack, TransferLocks,
                                    Works, Holds
  <2> QED
    BY <2>1, <2>2
<1>3. CASE Pick(e)
  <2>1. run'[e].pc \in {"finish", "check"} /\ \A f \in Runners \ {e} : run'[f] = run[f]
    BY <1>3 DEF Pick, TypeInv, RunTyped, RunPlaces
  <2> QED
    BY <1>3, <2>1, RunKeepsLocks DEF Pick, Works, Holds
<1>4. CASE Check(e)
  BY <1>4, GotoFields, RunKeepsLocks DEF Check, Works, Holds
<1>5. CASE LockDirs(e)
  <2>1. CASE Goto(e, "extend")
    BY <1>5, <2>1, GotoFields, RunKeepsLocks DEF LockDirs, Works, Holds
  <2>2. CASE ~ Goto(e, "extend")
    <3>1. /\ dirLock = DirLocks(None) /\ dirLock' = DirLocks(e) /\ Goto(e, "recheck")
          /\ UNCHANGED <<job, jobLock, back, xfer>>
      BY <1>5, <2>2 DEF LockDirs
    <3>2. Works(e)
      BY <1>5 DEF LockDirs, Works
    <3>3. \A f \in Runners \ {e} : ~ Holds(f) /\ ~ Works(f)
      BY <3>2, Alone
    <3>4. xfer.pc = "idle"
      BY <3>1, RenameAssumption DEF LockInv, TransferLocks, DirLocks, TypeInv, XferTyped
    <3>5. \A f \in Runners : (Works(f)' => f = e) /\ (Holds(f)' => f = e)
      BY <3>1, <3>3, GotoFields DEF Works, Holds
    <3>6. jobLock = e /\ job \in {"running"} \cup Cancelling /\ ~ RollsBack
      BY <3>2, Alone
    <3> QED
      BY <3>1, <3>4, <3>5, <3>6 DEF LockInv, RunnersLock, RollbackLocks, RollsBack, TransferLocks,
                                    DirLocks
  <2> QED
    BY <2>1, <2>2
<1>6. CASE Recheck(e)
  BY <1>6, GotoFields, RunKeepsLocks DEF Recheck, Works, Holds
<1>7. CASE Move(e) \/ Copied(e) \/ WriteRows(e) \/ UndoRows(e)
  BY <1>7, GotoFields, RunKeepsLocks DEF Move, Copied, WriteRows, UndoRows, Works, Holds
<1>8. CASE MoveAssets(e)
  <2>1. run'[e].pc = "rows" /\ \A f \in Runners \ {e} : run'[f] = run[f]
    BY <1>8 DEF MoveAssets, Goto, TypeInv, RunTyped, RunPlaces
  <2> QED
    BY <1>8, <2>1, RunKeepsLocks DEF MoveAssets, Works, Holds
<1>9. CASE WriteDone(e) \/ Undone(e)
  BY <1>9, GotoFields, RunKeepsLocks DEF WriteDone, Undone, Works, Holds
<1>10. CASE UndoAssets(e)
  <2>1. run'[e].pc = "undo_video" /\ \A f \in Runners \ {e} : run'[f] = run[f]
    BY <1>10 DEF UndoAssets, Goto, TypeInv, RunTyped, RunPlaces
  <2> QED
    BY <1>10, <2>1, RunKeepsLocks DEF UndoAssets, Works, Holds
<1>11. CASE UndoVideo(e)
  <2>1. run'[e].pc = "undone" /\ \A f \in Runners \ {e} : run'[f] = run[f]
    BY <1>11 DEF UndoVideo, Goto, TypeInv, RunTyped, RunPlaces
  <2> QED
    BY <1>11, <2>1, RunKeepsLocks DEF UndoVideo, Works, Holds
<1>12. CASE Extend(e) \/ Finish(e) \/ LogFinish(e) \/ Decide(e)
  <2>1. run'[e].pc \in {"pick", "end", "log_finish", "decide"}
        /\ \A f \in Runners \ {e} : run'[f] = run[f]
    BY <1>12 DEF Extend, Finish, LogFinish, Decide, Goto, TypeInv, RunTyped, RunPlaces
  <2> QED
    BY <1>12, <2>1, RunKeepsLocks DEF Extend, Finish, LogFinish, Decide, Works, Holds
<1>13. CASE End(e) \/ JobFails(e)
  BY <1>13, EndJobKeepsLocks DEF End, JobFails, Works
<1> QED
  BY <1>1, <1>2, <1>3, <1>4, <1>5, <1>6, <1>7, <1>8, <1>9, <1>10, <1>11, <1>12, <1>13 DEF RunStep

LEMMA LockStep == TypeInv /\ LockInv /\ [Next]_vars => LockInv'
<1> SUFFICES ASSUME TypeInv, LockInv, [Next]_vars PROVE LockInv'
  OBVIOUS
<1> USE DEF LockInv, RunnersLock, RollbackLocks, TransferLocks, rows, locks, threads
<1>s. ASSUME UNCHANGED run PROVE \A e \in Runners : Works(e)' = Works(e) /\ Holds(e)' = Holds(e)
  BY <1>s DEF Works, Holds
<1>1. CASE UNCHANGED vars
  BY <1>1, <1>s DEF vars, RollsBack
<1>2. CASE CancelRead \/ CancelWrite
  BY <1>2, <1>s DEF CancelRead, CancelWrite, RollsBack, Cancelling
<1>3. CASE RollbackAsk \/ RollbackStep
  <2>0. back \in BackPlaces
    BY DEF TypeInv, BackTyped
  <2> USE DEF BackAt, BackUnchanged, RollsBack
  <2>1. CASE RollbackAsk \/ RollbackLock
    BY <2>0, <2>1, <1>s, RenameAssumption DEF RollbackAsk, RollbackLock, BackPlaces, IdleBack
  <2>2. CASE RollbackNext \/ RollbackAssets \/ RollbackVideo \/ RollbackMove \/ RollbackStatus
    BY <2>0, <2>2, <1>s DEF RollbackNext, RollbackAssets, RollbackVideo, RollbackMove,
                           RollbackStatus, BackPlaces
  <2>3. CASE RollbackRows \/ RollbackEnd
    <3>1. \A e \in Runners : ~ Works(e) /\ ~ Holds(e)
      BY <2>3, RenameAssumption DEF RollbackRows, RollbackEnd, Works, Holds
    <3> QED
      BY <2>0, <2>3, <3>1, <1>s DEF RollbackRows, RollbackEnd, BackPlaces, IdleBack
  <2> QED
    BY <1>3, <2>1, <2>2, <2>3 DEF RollbackStep
<1>4. CASE TransferSteps
  <2>1. ASSUME NEW i \in Item, NEW side \in Side, TransferStart(i, side)
        PROVE  LockInv'
    <3>1. \A e \in Runners : ~ Holds(e)
      BY <2>1, RenameAssumption DEF TransferStart, DirLocks
    <3> QED
      BY <2>1, <3>1, <1>s DEF TransferStart, RollsBack, TypeInv, LocksTyped
  <2>2. CASE TransferCheck \/ TransferWrite
    <3>1. xfer.pc # "idle" /\ \A e \in Runners : ~ Holds(e)
      BY <2>2, Alone DEF TransferCheck, TransferWrite
    <3> QED
      BY <2>2, <3>1, <1>s DEF TransferCheck, TransferWrite, TransferEnd, IdleXfer, RollsBack,
                              TypeInv, XferTyped
  <2> QED
    BY <1>4, <2>1, <2>2 DEF TransferSteps
<1>5. CASE Crash
  BY <1>5 DEF Crash, Works, Holds, RollsBack, IdleRun, IdleBack, IdleXfer
<1>6. CASE LeasesEnd
  BY <1>6, <1>s, RenameAssumption DEF LeasesEnd, RollsBack, DirLocks, TypeInv, XferTyped
<1>7. CASE Restart
  BY <1>7, <1>s, RenameAssumption DEF Restart, RollsBack
<1> QED
  BY <1>1, <1>2, <1>3, <1>4, <1>5, <1>6, <1>7, LockRun DEF Next, TransferSteps

-----------------------------------------------------------------------------
(* The status of the items *)

MoveSteps == {"move", "copying", "assets", "rows", "done"}
UndoSteps == {"undo_rows", "undo_assets", "undo_video", "undone"}

\* What is still to do is planned; the current item is until its files move, and its row
\* says so before they do.
RunStatus(e) ==
    /\ Works(e) => \A i \in run[e].todo : item[i] = "planned"
    /\ run[e].pc \in ItemSteps => run[e].cur \notin run[e].todo
    /\ run[e].pc \in {"check", "dirs", "recheck"} => item[run[e].cur] = "planned"
    /\ run[e].pc \in MoveSteps => item[run[e].cur] = "running"
    /\ run[e].pc \in UndoSteps => item[run[e].cur] \in {"planned", "running"}
RunsStatus == \A e \in Runners : RunStatus(e)

\* A rollback goes through exactly the items that are done.
BackStatus ==
    /\ RollsBack => /\ \A i \in back.todo : item[i] = "done"
                    /\ \A i \in Item : item[i] = "done" =>
                           i \in back.todo \/ (back.pc \in BackItemSteps /\ i = back.cur)
    /\ back.pc \in BackItemSteps =>
           item[back.cur] = "done" /\ back.cur \in begun /\ back.cur \notin back.todo
    /\ back.pc = "end" => back.todo = {}

\* What a rollback has begun to move was done.
BegunStatus == \A i \in begun : item[i] \in {"done", "rolled_back", "manual_intervention"}

StatusInv == RunsStatus /\ BackStatus /\ BegunStatus

LEMMA StatusInit == Init => StatusInv
  BY DEF Init, StatusInv, RunsStatus, RunStatus, BackStatus, BegunStatus, Works, ItemSteps, MoveSteps,
         UndoSteps, RollsBack, BackItemSteps, IdleRun, IdleBack

\* A runner changes the status of its current item at most; no rollback is under way.
LEMMA RunKeepsStatus ==
  ASSUME TypeInv, LockInv, StatusInv, NEW e \in Runners, \A f \in Runners \ {e} : run'[f] = run[f],
         UNCHANGED <<back, begun>>,
         \/ UNCHANGED item
         \/ run[e].pc \in ItemSteps /\ \E s \in ItemStatuses : item' = [item EXCEPT ![run[e].cur] = s],
         RunStatus(e)'
  PROVE  StatusInv'
<1>1. CASE UNCHANGED item
  BY <1>1 DEF StatusInv, RunsStatus, RunStatus, BackStatus, BegunStatus, Works, RollsBack
<1>2. CASE ~ UNCHANGED item
  <2>1. PICK s \in ItemStatuses : run[e].pc \in ItemSteps /\ item' = [item EXCEPT ![run[e].cur] = s]
    BY <1>2
  <2>2. Works(e) /\ run[e].cur \in Item /\ item[run[e].cur] \in {"planned", "running"}
    BY <2>1 DEF Works, ItemSteps, TypeInv, RunTyped, StatusInv, RunsStatus, RunStatus, MoveSteps,
                UndoSteps
  <2>3. ~ RollsBack' /\ back'.pc \notin BackItemSteps /\ back'.pc # "end"
    BY <2>2, Alone DEF RollsBack, BackItemSteps
  <2>4. \A f \in Runners \ {e} : RunStatus(f)'
    <3>1. \A f \in Runners \ {e} : ~ Works(f)'
      BY <2>2, Alone DEF Works
    <3> QED
      BY <3>1 DEF RunStatus, Works, ItemSteps, MoveSteps, UndoSteps
  <2>5. BegunStatus'
    BY <2>1, <2>2 DEF StatusInv, BegunStatus, TypeInv, BackTyped, RowsTyped
  <2> QED
    BY <2>3, <2>4, <2>5 DEF StatusInv, RunsStatus, BackStatus
<1> QED
  BY <1>1, <1>2

LEMMA StatusRun ==
  ASSUME TypeInv, LockInv, StatusInv, NEW e \in Runners, Submit(e) \/ RunStep(e)
  PROVE  StatusInv'
<1> DEFINE i == run[e].cur
<1>r. run[e] \in RunPlaces /\ (run[e].pc \in ItemSteps => i \in Item) /\ RowsTyped /\ RunStatus(e)
  BY DEF TypeInv, RunTyped, StatusInv, RunsStatus
<1> USE DEF RunSteps, ItemSteps, MoveSteps, UndoSteps, At, rows, locks, threads
\* The status may change, the place changes within the item's steps, and the rest stays.
<1>k. ASSUME UNCHANGED <<back, begun, run[e].todo>>, \A f \in Runners \ {e} : run'[f] = run[f],
             \/ UNCHANGED item
             \/ run[e].pc \in ItemSteps /\ \E s \in ItemStatuses : item' = [item EXCEPT ![i] = s],
             Works(e)' => Works(e),
             run'[e].pc \in ItemSteps => run[e].pc \in ItemSteps /\ run'[e].cur = i,
             run'[e].pc \in {"check", "dirs", "recheck"} => item'[i] = "planned",
             run'[e].pc \in MoveSteps => item'[i] = "running",
             run'[e].pc \in UndoSteps => item'[i] \in {"planned", "running"}
      PROVE  StatusInv'
  <2>1. RunStatus(e)'
    <3>1. CASE UNCHANGED item
      BY <1>k, <1>r, <3>1 DEF RunStatus, Works
    <3>2. CASE ~ UNCHANGED item
      <4>1. PICK s \in ItemStatuses : run[e].pc \in ItemSteps /\ item' = [item EXCEPT ![i] = s]
        BY <1>k, <3>2
      <4>2. i \in Item /\ i \notin run[e].todo /\ Works(e)
        BY <1>r, <4>1 DEF RunStatus, Works
      <4>3. \A j \in run[e].todo : item'[j] = "planned"
        BY <1>r, <4>1, <4>2 DEF RunStatus, RowsTyped, RunPlaces
      <4> QED
        BY <1>k, <4>2, <4>3 DEF RunStatus
    <3> QED
      BY <3>1, <3>2
  <2> QED
    BY <1>k, <2>1, RunKeepsStatus
<1> HIDE DEF i
<1>1. CASE Submit(e) \/ ReadJob(e)
  BY <1>1, <1>k, GotoFields DEF Submit, ReadJob, Works, Locals
<1>2. CASE TakeJob(e)
  <2>1. CASE jobLock # None
    BY <1>2, <2>1, <1>k, GotoFields DEF TakeJob, Works, Locals
  <2>2. CASE jobLock = None
    <3> DEFINE p == [IdleRun EXCEPT !.pc = "pick", !.todo = {j \in Item : item[j] = "planned"}]
    <3>1. run' = [run EXCEPT ![e] = p] /\ UNCHANGED <<item, back, begun>>
      BY <1>2, <2>2 DEF TakeJob
    <3>2. p.pc = "pick" /\ \A j \in p.todo : item[j] = "planned"
      BY DEF IdleRun
    <3> HIDE DEF p
    <3>3. run'[e] = p /\ \A f \in Runners \ {e} : run'[f] = run[f]
      BY <3>1 DEF TypeInv, RunTyped
    <3>4. RunStatus(e)'
      BY <3>1, <3>2, <3>3 DEF RunStatus
    <3> QED
      BY <3>1, <3>3, <3>4, RunKeepsStatus
  <2> QED
    BY <2>1, <2>2
<1>3. CASE Pick(e)
  <2>1. CASE job \in Cancelling \/ run[e].todo = {}
    <3>1. Goto(e, "finish")
      BY <1>3, <2>1 DEF Pick, Goto
    <3> QED
      BY <1>3, <3>1, <1>k, GotoFields DEF Pick, Works, Locals
  <2>2. CASE ~ (job \in Cancelling \/ run[e].todo = {})
    <3> DEFINE m == Min(run[e].todo)
               p == [run[e] EXCEPT !.pc = "check", !.cur = m, !.todo = @ \ {m},
                                   !.moved = {}, !.ok = TRUE]
    <3>1. m \in run[e].todo /\ run[e].todo \subseteq Item
      BY <1>r, <2>2, MinItem DEF RunPlaces
    <3>2. run' = [run EXCEPT ![e] = p] /\ UNCHANGED <<item, back, begun>>
      BY <1>3, <2>2 DEF Pick
    <3> HIDE DEF m
    <3>3. p.pc = "check" /\ p.cur = m /\ p.todo = run[e].todo \ {m}
      BY <1>r DEF RunPlaces
    <3> HIDE DEF p
    <3>4. run'[e] = p /\ \A f \in Runners \ {e} : run'[f] = run[f]
      BY <3>2 DEF TypeInv, RunTyped
    <3>5. \A j \in run[e].todo : item[j] = "planned"
      BY <1>3, <1>r DEF Pick, RunStatus, Works
    <3>6. RunStatus(e)'
      BY <3>1, <3>2, <3>3, <3>4, <3>5 DEF RunStatus
    <3> QED
      BY <3>2, <3>4, <3>6, RunKeepsStatus
  <2> QED
    BY <2>1, <2>2
<1>4. CASE Check(e)
  BY <1>4, <1>r, <1>k, GotoFields DEF Check, RunStatus, Works, Locals, ItemStatuses, RowsTyped, i
<1>5. CASE LockDirs(e)
  BY <1>5, <1>r, <1>k, GotoFields DEF LockDirs, RunStatus, Works, Locals, ItemStatuses, RowsTyped, i
<1>6. CASE Recheck(e)
  BY <1>6, <1>r, <1>k, GotoFields DEF Recheck, RunStatus, Works, Locals, ItemStatuses, RowsTyped, i
<1>7. CASE Move(e) \/ Copied(e) \/ WriteRows(e) \/ UndoRows(e)
  BY <1>7, <1>r, <1>k, GotoFields
  DEF Move, Copied, WriteRows, UndoRows, RunStatus, Works, Locals, i
<1>8. CASE MoveAssets(e)
  <2>1. run'[e].pc = "rows" /\ UNCHANGED <<run[e].todo, run[e].cur>>
        /\ \A f \in Runners \ {e} : run'[f] = run[f]
    BY <1>8 DEF MoveAssets, Goto, TypeInv, RunTyped, RunPlaces
  <2> QED
    BY <1>8, <2>1, <1>r, <1>k DEF MoveAssets, RunStatus, Works, i
<1>9. CASE WriteDone(e)
  BY <1>9, <1>r, <1>k, GotoFields DEF WriteDone, RunStatus, Works, Locals, ItemStatuses, RowsTyped, i
<1>10. CASE UndoAssets(e)
  <2>1. run'[e].pc = "undo_video" /\ UNCHANGED <<run[e].todo, run[e].cur>>
        /\ \A f \in Runners \ {e} : run'[f] = run[f]
    BY <1>10 DEF UndoAssets, Goto, TypeInv, RunTyped, RunPlaces
  <2> QED
    BY <1>10, <2>1, <1>r, <1>k DEF UndoAssets, RunStatus, Works, i
<1>11. CASE UndoVideo(e)
  <2>1. run'[e].pc = "undone" /\ UNCHANGED <<run[e].todo, run[e].cur>>
        /\ \A f \in Runners \ {e} : run'[f] = run[f]
    BY <1>11 DEF UndoVideo, Goto, TypeInv, RunTyped, RunPlaces
  <2> QED
    BY <1>11, <2>1, <1>r, <1>k DEF UndoVideo, RunStatus, Works, i
<1>12. CASE Undone(e)
  BY <1>12, <1>r, <1>k, GotoFields DEF Undone, RunStatus, Works, Locals, ItemStatuses, RowsTyped, i
<1>13. CASE Extend(e) \/ Finish(e) \/ LogFinish(e) \/ Decide(e)
  <2>1. run'[e].pc \in {"pick", "end", "log_finish", "decide"} /\ UNCHANGED run[e].todo
        /\ \A f \in Runners \ {e} : run'[f] = run[f]
    BY <1>13 DEF Extend, Finish, LogFinish, Decide, Goto, TypeInv, RunTyped, RunPlaces
  <2> QED
    BY <1>13, <2>1, <1>k DEF Extend, Finish, LogFinish, Decide, Works
<1>14. CASE End(e) \/ JobFails(e)
  <2>1. /\ run'[e] = IdleRun /\ UNCHANGED <<item, back, begun>>
        /\ \A f \in Runners \ {e} : run'[f] = run[f]
    BY <1>14 DEF End, JobFails, EndJob, TypeInv, RunTyped
  <2>2. RunStatus(e)'
    BY <2>1 DEF RunStatus, Works, IdleRun
  <2> QED
    BY <2>1, <2>2, RunKeepsStatus
<1> QED
  BY <1>1, <1>2, <1>3, <1>4, <1>5, <1>6, <1>7, <1>8, <1>9, <1>10, <1>11, <1>12, <1>13, <1>14
  DEF RunStep

\* While a rollback is under way no runner works.
LEMMA BackAlone ==
  ASSUME TypeInv, LockInv, RollsBack
  PROVE  jobLock = "rollback" /\ \A e \in Runners : ~ Works(e) /\ ~ Holds(e)
<1>1. \A e \in Runners : ~ Works(e)
  BY Alone
<1> QED
  BY <1>1, Alone DEF LockInv, RollbackLocks

LEMMA StatusRollback ==
  ASSUME TypeInv, LockInv, StatusInv, RollbackAsk \/ RollbackStep
  PROVE  StatusInv'
<1>r. back \in BackPlaces /\ (back.pc \in BackItemSteps => back.cur \in Item) /\ RowsTyped
  BY DEF TypeInv, BackTyped
<1>s. ASSUME UNCHANGED <<run, item>> PROVE RunsStatus'
  BY <1>s DEF StatusInv, RunsStatus, RunStatus, Works
<1> USE DEF BackSteps, BackItemSteps, BackAt, BackUnchanged, rows, RollsBack
\* The place moves on within the item.
<1>k. ASSUME UNCHANGED <<run, item, begun, back.todo, back.cur>>, RollsBack' => RollsBack,
             back.pc \in BackItemSteps => back'.pc \in BackItemSteps \/ ~ RollsBack',
             back'.pc \in BackItemSteps => back.pc \in BackItemSteps,
             back'.pc = "end" => back.pc = "end"
      PROVE  StatusInv'
  BY <1>k, <1>s DEF StatusInv, BackStatus, BegunStatus
<1>1. CASE RollbackAsk
  BY <1>1, <1>r, <1>k DEF RollbackAsk, BackPlaces
<1>2. CASE RollbackLock
  <2> DEFINE done == {i \in Item : item[i] = "done"}
             p == [IdleBack EXCEPT !.pc = "list", !.todo = done]
  <2>0. back' \in {p, IdleBack} /\ UNCHANGED <<run, item, begun>>
    BY <1>2 DEF RollbackLock
  <2> HIDE DEF done
  <2>a. p.pc = "list" /\ p.todo = done /\ IdleBack.pc = "idle"
    BY DEF IdleBack
  <2> HIDE DEF p
  <2>1. /\ back'.pc \in {"idle", "list"} /\ UNCHANGED <<run, item, begun>>
        /\ (back'.pc = "list") => (back'.todo = done)
    BY <2>0, <2>a
  <2>2. BackStatus'
    BY <2>1 DEF BackStatus, done
  <2> QED
    BY <2>1, <2>2, <1>s DEF StatusInv, BegunStatus
<1>3. CASE RollbackNext
  <2>1. CASE back.todo = {}
    BY <1>3, <1>r, <2>1, <1>s DEF RollbackNext, StatusInv, BackStatus, BegunStatus, BackPlaces
  <2>2. CASE back.todo # {}
    <3> DEFINE m == Max(back.todo)
    <3>1. m \in back.todo /\ m \in Item
      BY <1>r, <2>2, MaxItem DEF BackPlaces
    <3>2. /\ back' = [back EXCEPT !.pc = "assets", !.cur = m, !.ok = TRUE, !.todo = @ \ {m}]
          /\ begun' = begun \cup {m} /\ UNCHANGED <<run, item>> /\ back.pc = "list"
      BY <1>3, <2>2 DEF RollbackNext
    <3> HIDE DEF m
    <3>3. back'.pc = "assets" /\ back'.cur = m /\ back'.todo = back.todo \ {m}
      BY <1>r, <3>2 DEF BackPlaces
    <3>4. BackStatus' /\ BegunStatus'
      BY <1>r, <3>1, <3>2, <3>3 DEF StatusInv, BackStatus, BegunStatus
    <3> QED
      BY <3>2, <3>4, <1>s DEF StatusInv
  <2> QED
    BY <2>1, <2>2
<1>4. CASE RollbackAssets
  BY <1>4, <1>r, <1>k DEF RollbackAssets, BackPlaces
<1>5. CASE RollbackVideo
  <2>1. \/ back' = [back EXCEPT !.pc = "move"]
        \/ back' = [back EXCEPT !.pc = "status", !.ok = FALSE]
        \/ back' = [back EXCEPT !.pc = "rows"]
        \/ back' = [back EXCEPT !.pc = "status"]
    BY <1>5 DEF RollbackVideo
  <2> QED
    BY <1>5, <2>1, <1>r, <1>k DEF RollbackVideo, BackPlaces
<1>6. CASE RollbackMove
  BY <1>6, <1>r, <1>k DEF RollbackMove, BackPlaces
<1>7. CASE RollbackRows
  <2>1. CASE back' = IdleBack
    BY <1>7, <2>1, <1>s DEF RollbackRows, IdleBack, StatusInv, BackStatus, BegunStatus
  <2>2. CASE back' # IdleBack
    BY <1>7, <2>2, <1>r, <1>k DEF RollbackRows, BackPlaces
  <2> QED
    BY <2>1, <2>2
<1>8. CASE RollbackStatus
  <2> DEFINE i == back.cur
  <2>1. PICK s \in {"rolled_back", "manual_intervention"} : item' = [item EXCEPT ![i] = s]
    BY <1>8 DEF RollbackStatus
  <2>2. i \in Item /\ item[i] = "done" /\ i \in begun /\ i \notin back.todo
    BY <1>8, <1>r DEF RollbackStatus, StatusInv, BackStatus
  <2>3. back' = [back EXCEPT !.pc = "list"] /\ back.pc = "status" /\ UNCHANGED <<run, begun>>
    BY <1>8 DEF RollbackStatus
  <2>4. RunsStatus'
    <3>1. \A e \in Runners : ~ Works(e)
      BY <2>3, BackAlone
    <3> QED
      BY <2>3, <3>1 DEF RunsStatus, RunStatus, Works, ItemSteps, MoveSteps, UndoSteps
  <2>5. BackStatus'
    <3>1. back'.pc = "list" /\ back'.todo = back.todo /\ back.todo \subseteq Item
      BY <2>3, <1>r DEF BackPlaces
    <3>2. \A j \in Item : j # i => item'[j] = item[j]
      BY <2>1
    <3>3. item'[i] # "done"
      BY <1>r, <2>1, <2>2 DEF RowsTyped
    <3> QED
      BY <1>r, <2>2, <2>3, <3>1, <3>2, <3>3 DEF StatusInv, BackStatus
  <2>6. BegunStatus'
    BY <1>r, <2>1, <2>2, <2>3 DEF StatusInv, BegunStatus, RowsTyped, TypeInv, BackTyped
  <2> QED
    BY <2>4, <2>5, <2>6 DEF StatusInv
<1>9. CASE RollbackEnd
  BY <1>9, <1>s DEF RollbackEnd, IdleBack, StatusInv, BackStatus, BegunStatus
<1> QED
  BY <1>1, <1>2, <1>3, <1>4, <1>5, <1>6, <1>7, <1>8, <1>9 DEF RollbackStep

LEMMA StatusStep == TypeInv /\ LockInv /\ StatusInv /\ [Next]_vars => StatusInv'
<1> SUFFICES ASSUME TypeInv, LockInv, StatusInv, [Next]_vars PROVE StatusInv'
  OBVIOUS
<1> USE DEF rows, locks, threads
<1>s. ASSUME UNCHANGED <<run, item, back, begun>> PROVE StatusInv'
  BY <1>s DEF StatusInv, RunsStatus, RunStatus, BackStatus, BegunStatus, Works, RollsBack
<1>1. CASE UNCHANGED vars \/ CancelRead \/ CancelWrite \/ LeasesEnd
  BY <1>1, <1>s DEF vars, CancelRead, CancelWrite, LeasesEnd
<1>2. CASE TransferSteps
  BY <1>2, <1>s DEF TransferSteps, TransferStart, TransferCheck, TransferWrite
<1>3. CASE Crash
  BY <1>3 DEF Crash, StatusInv, RunsStatus, RunStatus, BackStatus, BegunStatus, Works, RollsBack,
              IdleRun, IdleBack, ItemSteps, MoveSteps, UndoSteps, BackItemSteps
<1>4. CASE Restart
  <2>1. CASE UNCHANGED item
    BY <1>4, <2>1, <1>s DEF Restart
  <2>2. CASE ~ UNCHANGED item
    <3>1. jobLock = None /\ UNCHANGED <<run, back, begun>>
          /\ item' = [i \in Item |-> IF item[i] = "running" THEN Recovered(i) ELSE item[i]]
      BY <1>4, <2>2 DEF Restart
    <3>2. ~ RollsBack /\ \A e \in Runners : ~ Works(e)
      BY <3>1, RenameAssumption DEF LockInv, RunnersLock, RollbackLocks
    <3>3. RunsStatus' /\ BackStatus'
      BY <3>1, <3>2 DEF RunsStatus, RunStatus, Works, ItemSteps, MoveSteps, UndoSteps,
                        BackStatus, RollsBack, BackItemSteps
    <3>4. BegunStatus'
      BY <3>1 DEF StatusInv, BegunStatus, TypeInv, BackTyped
    <3> QED
      BY <3>3, <3>4 DEF StatusInv
  <2> QED
    BY <2>1, <2>2
<1> QED
  BY <1>1, <1>2, <1>3, <1>4, StatusRun, StatusRollback DEF Next, TransferSteps

-----------------------------------------------------------------------------
(* The files of the items *)

AtOld(i) == at[i]["old"] = "video" \/ overwritten # {}

\* Where an item's video is, by what its row says of it.  Once a rollback has begun to move
\* it back the row says so only when it is done.
ItemFiles(i) ==
    /\ item[i] \in {"planned", "failed"} => at[i]["new"] \notin {"video", "copy"}
    /\ item[i] = "running" => \/ Exists(i, "old") /\ Exists(i, "new")
                              \/ at[i]["old"] = "video" /\ ~ Exists(i, "new")
                              \/ ~ Exists(i, "old") /\ at[i]["new"] = "video"
    /\ item[i] = "done" /\ i \notin begun => at[i]["new"] = "video" /\ at[i]["old"] # "video"
    /\ item[i] = "done" => at[i]["new"] = "video" \/ AtOld(i)
    /\ item[i] = "rolled_back" => AtOld(i) /\ at[i]["new"] # "video"
ItemsFiles == \A i \in Item : ItemFiles(i)

\* What a runner has seen of its item's paths, or made of them, is still so.
RunFiles(e) ==
    LET i == run[e].cur IN
    /\ run[e].pc \in {"dirs", "recheck", "move", "copying"} => at[i]["old"] = "video"
    /\ run[e].pc = "move" => ~ Exists(i, "new")
    /\ run[e].pc = "copying" => at[i]["new"] = "copy"
    /\ run[e].pc \in {"assets", "rows", "done"} => ~ Exists(i, "old") /\ at[i]["new"] = "video"
    /\ run[e].pc \in {"undo_rows", "undo_assets", "undo_video"} =>
           \/ at[i]["old"] = "video" /\ at[i]["new"] # "video"
           \/ ~ Exists(i, "old") /\ at[i]["new"] = "video"
    /\ run[e].pc = "undone" /\ run[e].ok => ~ Exists(i, "new")
RunsFiles == \A e \in Runners : RunFiles(e)

\* A rollback holds no directory: a transfer may come between its look and its move, and one
\* of them then writes over a file.
BackFiles ==
    LET i == back.cur IN
    /\ back.pc \in {"move", "copying"} => at[i]["new"] = "video" \/ overwritten # {}
    /\ back.pc = "rows" => back.ok
    /\ back.pc \in {"rows", "status"} /\ back.ok => AtOld(i) /\ at[i]["new"] # "video"

\* The path a transfer has seen free stays free, but for a rollback.
XferFiles ==
    xfer.pc = "write" => \/ ~ Exists(xfer.cur, xfer.side)
                         \/ xfer.side = "old" /\ xfer.cur \in begun

FilesInv == ItemsFiles /\ RunsFiles /\ BackFiles /\ XferFiles /\ RenameKeepsFiles

LEMMA FilesInit == Init => FilesInv
<1> SUFFICES ASSUME Init PROVE FilesInv
  OBVIOUS
<1>1. ItemsFiles
  BY DEF Init, ItemsFiles, ItemFiles
<1>2. RunsFiles /\ BackFiles /\ XferFiles /\ RenameKeepsFiles
  BY DEF Init, RunsFiles, RunFiles, BackFiles, XferFiles, RenameKeepsFiles, IdleRun, IdleBack, IdleXfer
<1> QED
  BY <1>1, <1>2 DEF FilesInv

\* An item whose row and files a step leaves alone.
LEMMA ItemFilesStay ==
  ASSUME NEW i \in Item, ItemFiles(i), at'[i] = at[i], item'[i] = item[i],
         (i \in begun)' = (i \in begun), overwritten \subseteq overwritten'
  PROVE  ItemFiles(i)'
  BY DEF ItemFiles, AtOld, Exists

\* What is left to show of an item that takes a new status.
LEMMA ItemFilesNow ==
  ASSUME NEW i \in Item,
         \/ item'[i] \in {"planned", "failed"} /\ at'[i]["new"] \notin {"video", "copy"}
         \/ /\ item'[i] = "running"
            /\ \/ at'[i]["old"] \notin {"nothing"} /\ at'[i]["new"] \notin {"nothing"}
               \/ at'[i]["old"] = "video" /\ at'[i]["new"] = "nothing"
               \/ at'[i]["old"] = "nothing" /\ at'[i]["new"] = "video"
         \/ item'[i] = "done" /\ at'[i]["new"] = "video" /\ at'[i]["old"] # "video"
         \/ item'[i] = "rolled_back" /\ AtOld(i)' /\ at'[i]["new"] # "video"
         \/ item'[i] = "manual_intervention"
  PROVE  ItemFiles(i)'
  BY DEF ItemFiles, Exists

\* A step of a runner touches the files of its current item at most, under the locks of the
\* directories, and overwrites nothing.
LEMMA RunKeepsFiles ==
  ASSUME TypeInv, LockInv, FilesInv, NEW e \in Runners, NEW i, i = run[e].cur, \A f \in Runners \ {e} : run'[f] = run[f],
         UNCHANGED <<back, begun, xfer, overwritten>>,
         \/ UNCHANGED <<at, item>>
         \/ /\ run[e].pc \in ItemSteps /\ ItemFiles(i)'
            /\ \A j \in Item \ {i} : at'[j] = at[j] /\ item'[j] = item[j],
         UNCHANGED at \/ Holds(e),
         RunFiles(e)'
  PROVE  FilesInv'
<1>1. ItemsFiles'
  <2>1. CASE UNCHANGED <<at, item>>
    BY <2>1, ItemFilesStay DEF FilesInv, ItemsFiles
  <2>2. CASE ~ UNCHANGED <<at, item>>
    BY <2>2, ItemFilesStay DEF FilesInv, ItemsFiles
  <2> QED
    BY <2>1, <2>2
<1>2. RenameKeepsFiles'
  BY DEF FilesInv, RenameKeepsFiles
<1>3. RunsFiles' /\ BackFiles' /\ XferFiles'
  <2>1. CASE UNCHANGED at
    <3>1. \A f \in Runners \ {e} : RunFiles(f)'
      BY <2>1 DEF FilesInv, RunsFiles, RunFiles, Exists
    <3> QED
      BY <2>1, <3>1 DEF FilesInv, RunsFiles, BackFiles, XferFiles, AtOld, Exists
  <2>2. CASE Holds(e)
    <3>1. Works(e) /\ xfer.pc = "idle"
      BY <2>2, Alone
    <3>2. ~ RollsBack /\ \A f \in Runners \ {e} : ~ Works(f)
      BY <3>1, Alone
    <3>3. \A f \in Runners \ {e} : RunFiles(f)'
      BY <3>2 DEF RunFiles, Works
    <3> QED
      BY <3>1, <3>2, <3>3 DEF RunsFiles, BackFiles, XferFiles, RollsBack
  <2> QED
    BY <2>1, <2>2
<1> QED
  BY <1>1, <1>2, <1>3 DEF FilesInv

LEMMA FilesRun ==
  ASSUME TypeInv, LockInv, StatusInv, FilesInv, NEW e \in Runners, Submit(e) \/ RunStep(e)
  PROVE  FilesInv'
<1>0. PICK i : i = run[e].cur
  OBVIOUS
<1> USE <1>0
<1>r. /\ run[e] \in RunPlaces /\ (run[e].pc \in ItemSteps => i \in Item)
      /\ RowsTyped /\ AtTyped /\ RunStatus(e) /\ RunFiles(e)
      /\ i \in Item => ItemFiles(i)
  BY DEF TypeInv, RunTyped, StatusInv, RunsStatus, FilesInv, RunsFiles, ItemsFiles
<1> USE DEF RunSteps, ItemSteps, MoveSteps, UndoSteps, At, rows, locks, threads, library
\* Steps that leave the items' rows and files alone.
<1>k. ASSUME UNCHANGED <<back, begun, xfer, overwritten, at, item>>,
             \A f \in Runners \ {e} : run'[f] = run[f], RunFiles(e)'
      PROVE  FilesInv'
  BY <1>k, RunKeepsFiles
\* Steps that only write the status of the current item.
<1>w. ASSUME UNCHANGED <<back, begun, xfer, overwritten, at>>, run[e].pc \in ItemSteps,
             NEW s \in ItemStatuses, item' = [item EXCEPT ![i] = s],
             \A f \in Runners \ {e} : run'[f] = run[f], RunFiles(e)', ItemFiles(i)'
      PROVE  FilesInv'
  <2>1. \A j \in Item \ {i} : at'[j] = at[j] /\ item'[j] = item[j]
    BY <1>w, <1>r DEF RowsTyped
  <2> QED
    BY <1>w, <2>1, RunKeepsFiles
\* Steps that move the current item's files.
<1>m. ASSUME UNCHANGED <<back, begun, xfer, overwritten, item>>, Holds(e), run[e].pc \in ItemSteps,
             \A j \in Item \ {i} : at'[j] = at[j],
             \A f \in Runners \ {e} : run'[f] = run[f], RunFiles(e)', ItemFiles(i)'
      PROVE  FilesInv'
  BY <1>m, RunKeepsFiles
<1>1. CASE Submit(e) \/ ReadJob(e) \/ Extend(e) \/ Finish(e) \/ LogFinish(e) \/ Decide(e)
  <2>1. run'[e].pc \in {"read", "lock", "idle", "pick", "end", "log_finish", "decide"}
        /\ \A f \in Runners \ {e} : run'[f] = run[f]
    BY <1>1 DEF Submit, ReadJob, Extend, Finish, LogFinish, Decide, Goto, TypeInv, RunTyped, RunPlaces
  <2>2. RunFiles(e)'
    BY <2>1 DEF RunFiles
  <2> QED
    BY <1>1, <1>k, <2>1, <2>2 DEF Submit, ReadJob, Extend, Finish, LogFinish, Decide
<1>2. CASE TakeJob(e)
  <2>1. run'[e].pc \in {"pick", "idle"} /\ \A f \in Runners \ {e} : run'[f] = run[f]
    <3>1. CASE Goto(e, "idle")
      BY <3>1, GotoFields
    <3>2. CASE ~ Goto(e, "idle")
      <4> DEFINE p == [IdleRun EXCEPT !.pc = "pick", !.todo = {j \in Item : item[j] = "planned"}]
      <4>1. run' = [run EXCEPT ![e] = p] /\ p.pc = "pick"
        BY <1>2, <3>2 DEF TakeJob, IdleRun
      <4> HIDE DEF p
      <4> QED
        BY <4>1 DEF TypeInv, RunTyped
    <3> QED
      BY <3>1, <3>2
  <2>2. RunFiles(e)'
    BY <2>1 DEF RunFiles
  <2> QED
    BY <1>2, <1>k, <2>1, <2>2 DEF TakeJob
<1>3. CASE Pick(e)
  <2>1. run'[e].pc \in {"finish", "check"} /\ \A f \in Runners \ {e} : run'[f] = run[f]
    BY <1>3 DEF Pick, TypeInv, RunTyped, RunPlaces
  <2>2. RunFiles(e)'
    BY <2>1 DEF RunFiles
  <2> QED
    BY <1>3, <1>k, <2>1, <2>2 DEF Pick
<1>4. CASE Check(e)
  <2>1. CASE Goto(e, "dirs")
    BY <1>4, <1>k, <2>1, GotoFields DEF Check, RunFiles, Locals
  <2>2. CASE ~ Goto(e, "dirs")
    <3>1. item' = [item EXCEPT ![i] = "failed"] /\ Goto(e, "extend") /\ item[i] = "planned" /\ i \in Item
      BY <1>4, <1>r, <2>2 DEF Check, RunStatus
    <3>2. RunFiles(e)' /\ ItemFiles(i)'
      BY <1>4, <1>r, <3>1, GotoFields, ItemFilesNow DEF Check, RunFiles, ItemFiles, RowsTyped
    <3> QED
      BY <1>4, <1>r, <1>w, <3>1, <3>2, GotoFields DEF Check, ItemStatuses
  <2> QED
    BY <2>1, <2>2
<1>5. CASE LockDirs(e)
  <2>1. CASE Goto(e, "recheck")
    BY <1>5, <1>k, <1>r, <2>1, GotoFields DEF LockDirs, RunFiles, Locals
  <2>2. CASE ~ Goto(e, "recheck")
    <3>1. item' = [item EXCEPT ![i] = "failed"] /\ Goto(e, "extend") /\ item[i] = "planned" /\ i \in Item
      BY <1>5, <1>r, <2>2 DEF LockDirs, RunStatus
    <3>2. RunFiles(e)' /\ ItemFiles(i)'
      BY <1>5, <1>r, <3>1, GotoFields, ItemFilesNow DEF LockDirs, RunFiles, ItemFiles, RowsTyped
    <3> QED
      BY <1>5, <1>r, <1>w, <3>1, <3>2, GotoFields DEF LockDirs, ItemStatuses
  <2> QED
    BY <2>1, <2>2
<1>6. CASE Recheck(e)
  <2>1. item[i] = "planned" /\ i \in Item /\ at[i]["old"] = "video" /\ at[i]["new"] \notin {"video", "copy"}
    BY <1>6, <1>r DEF Recheck, RunStatus, RunFiles, ItemFiles
  <2>2. CASE Goto(e, "undo_rows")
    BY <1>6, <1>k, <2>1, <2>2, GotoFields DEF Recheck, RunFiles, Locals
  <2>3. CASE Goto(e, "extend")
    <3>1. item' = [item EXCEPT ![i] = "failed"]
      BY <1>6, <2>3, GotoFields DEF Recheck
    <3>2. RunFiles(e)' /\ ItemFiles(i)'
      BY <1>6, <1>r, <2>1, <2>3, <3>1, GotoFields, ItemFilesNow DEF Recheck, RunFiles, ItemFiles, RowsTyped
    <3> QED
      BY <1>6, <1>r, <1>w, <2>3, <3>1, <3>2, GotoFields DEF Recheck, ItemStatuses
  <2>4. CASE Goto(e, "move")
    <3>1. item' = [item EXCEPT ![i] = "running"] /\ ~ Exists(i, "new")
      BY <1>6, <2>4, GotoFields DEF Recheck
    <3>2. RunFiles(e)' /\ ItemFiles(i)'
      BY <1>6, <1>r, <2>1, <2>4, <3>1, GotoFields, ItemFilesNow
      DEF Recheck, RunFiles, ItemFiles, RowsTyped, Exists, Locals
    <3> QED
      BY <1>6, <1>r, <1>w, <2>4, <3>1, <3>2, GotoFields DEF Recheck, ItemStatuses
  <2> QED
    BY <1>6, <2>2, <2>3, <2>4 DEF Recheck
<1>7. CASE Move(e) \/ Copied(e)
  <2>1. /\ item[i] = "running" /\ i \in Item /\ Holds(e) /\ at[i]["old"] = "video"
        /\ at[i]["new"] \in {"nothing", "copy"}
        /\ run[e].pc = "move" => ~ Exists(i, "new")
    BY <1>7, <1>r DEF Move, Copied, RunStatus, RunFiles, Holds, Exists
  <2>2. CASE Goto(e, "undo_rows")
    BY <1>7, <1>k, <2>1, <2>2, GotoFields DEF Move, Copied, RunFiles, Locals
  <2>3. CASE Goto(e, "assets")
    <3>1. Arrive(i, "old", "new", "rename")
      BY <1>7, <2>3, GotoFields DEF Move, Copied
    <3>2. /\ at'[i]["new"] = "video" /\ at'[i]["old"] = "nothing" /\ overwritten' = overwritten
          /\ \A j \in Item \ {i} : at'[j] = at[j]
      BY <1>r, <2>1, <3>1, ArriveFiles DEF Side
    <3>3. RunFiles(e)' /\ ItemFiles(i)'
      BY <1>7, <2>1, <2>3, <3>2, GotoFields, ItemFilesNow DEF Move, Copied, RunFiles, ItemFiles, Locals, Exists
    <3> QED
      BY <1>7, <1>m, <2>1, <2>3, <3>2, <3>3, GotoFields DEF Move, Copied
  <2>4. CASE Goto(e, "copying")
    <3>1. StartCopy(i, "new", "rename") /\ ~ Exists(i, "new")
      BY <1>7, <2>1, <2>4, GotoFields DEF Move, Copied
    <3>2. /\ at'[i]["new"] = "copy" /\ at'[i]["old"] = "video" /\ overwritten' = overwritten
          /\ \A j \in Item \ {i} : at'[j] = at[j]
      BY <1>r, <2>1, <3>1, StartCopyFiles DEF Side
    <3>3. RunFiles(e)' /\ ItemFiles(i)'
      BY <1>7, <2>1, <2>4, <3>2, GotoFields, ItemFilesNow DEF Move, Copied, RunFiles, ItemFiles, Locals, Exists
    <3> QED
      BY <1>7, <1>m, <2>1, <2>4, <3>2, <3>3, GotoFields DEF Move, Copied
  <2> QED
    BY <1>7, <2>2, <2>3, <2>4 DEF Move, Copied
<1>8. CASE MoveAssets(e) \/ UndoAssets(e)
  <2>1. /\ run'[e].pc \in {"rows", "undo_video"} /\ (run'[e].pc = "rows" <=> run[e].pc = "assets")
        /\ run'[e].cur = i /\ \A f \in Runners \ {e} : run'[f] = run[f]
    BY <1>8 DEF MoveAssets, UndoAssets, Goto, TypeInv, RunTyped, RunPlaces
  <2>2. RunFiles(e)'
    BY <1>8, <1>r, <2>1 DEF MoveAssets, UndoAssets, RunFiles, Exists
  <2> QED
    BY <1>8, <1>k, <2>1, <2>2 DEF MoveAssets, UndoAssets
<1>9. CASE WriteRows(e) \/ UndoRows(e)
  BY <1>9, <1>r, <1>k, GotoFields DEF WriteRows, UndoRows, RunFiles, Exists, Locals
<1>10. CASE WriteDone(e)
  <2>1. CASE Goto(e, "undo_rows")
    BY <1>10, <1>r, <1>k, <2>1, GotoFields DEF WriteDone, RunFiles, Exists, Locals
  <2>2. CASE ~ Goto(e, "undo_rows")
    <3>1. /\ item' = [item EXCEPT ![i] = "done"] /\ Goto(e, "extend") /\ i \in Item
          /\ ~ Exists(i, "old") /\ at[i]["new"] = "video"
      BY <1>10, <1>r, <2>2 DEF WriteDone, RunFiles
    <3>2. RunFiles(e)' /\ ItemFiles(i)'
      BY <1>10, <1>r, <3>1, GotoFields, ItemFilesNow DEF WriteDone, RunFiles, ItemFiles, RowsTyped, Exists
    <3> QED
      BY <1>10, <1>r, <1>w, <3>1, <3>2, GotoFields DEF WriteDone, ItemStatuses
  <2> QED
    BY <2>1, <2>2
<1>11. CASE UndoVideo(e)
  <2> DEFINE p == [run[e] EXCEPT !.pc = "undone", !.ok = FALSE]
  <2>p. p.pc = "undone" /\ p.cur = i /\ ~ p.ok
    BY <1>r DEF RunPlaces
  <2> HIDE DEF p
  <2>g. \/ Goto(e, "undone") /\ (Arrive(i, "new", "old", "rename") \/ ~ Exists(i, "new"))
        \/ run' = [run EXCEPT ![e] = p]
    BY <1>11 DEF UndoVideo, TypeInv, RunTyped, p
  <2>a. Arrive(i, "new", "old", "rename") /\ Exists(i, "new") => ~ UNCHANGED at
    BY <1>11, <1>r, ArriveFiles DEF UndoVideo, Side, Exists
  <2>1. /\ run'[e].pc = "undone" /\ run'[e].cur = i /\ \A f \in Runners \ {e} : run'[f] = run[f]
        /\ Exists(i, "new") /\ UNCHANGED at => ~ run'[e].ok
    <3>1. CASE Goto(e, "undone") /\ (Arrive(i, "new", "old", "rename") \/ ~ Exists(i, "new"))
      BY <3>1, <2>a, GotoFields DEF Locals
    <3>2. CASE run' = [run EXCEPT ![e] = p]
      <4>1. run'[e] = p /\ \A f \in Runners \ {e} : run'[f] = run[f]
        BY <3>2 DEF TypeInv, RunTyped
      <4> QED
        BY <4>1, <2>p
    <3> QED
      BY <2>g, <3>1, <3>2
  <2>2. i \in Item /\ Holds(e) /\ item[i] \in {"planned", "running"}
    BY <1>11, <1>r DEF UndoVideo, RunStatus, Holds
  <2>3. CASE UNCHANGED at
    <3>1. UNCHANGED overwritten
      BY <1>11, <2>3, <1>r, <2>2 DEF UndoVideo, Arrive, Exists, AtTyped, Side
    <3>2. RunFiles(e)'
      BY <2>1, <2>3 DEF RunFiles, Exists
    <3> QED
      BY <1>11, <1>k, <2>1, <2>3, <3>1, <3>2 DEF UndoVideo
  <2>4. CASE ~ UNCHANGED at
    <3>1. Arrive(i, "new", "old", "rename") /\ Exists(i, "new") /\ ~ Exists(i, "old")
      BY <1>11, <2>4 DEF UndoVideo
    <3>2. /\ at'[i]["old"] = at[i]["new"] /\ at'[i]["new"] = "nothing" /\ overwritten' = overwritten
          /\ \A j \in Item \ {i} : at'[j] = at[j]
      BY <1>r, <2>2, <3>1, ArriveFiles DEF Side, Exists
    <3>3. at[i]["new"] = "video" /\ item[i] = "running" /\ UNCHANGED item
      BY <1>11, <1>r, <2>2, <3>1 DEF UndoVideo, RunFiles, ItemFiles, Exists
    <3>4. RunFiles(e)' /\ ItemFiles(i)'
      BY <1>11, <2>1, <2>2, <3>2, <3>3, ItemFilesNow DEF RunFiles, Exists
    <3> QED
      BY <1>11, <1>m, <2>1, <2>2, <3>2, <3>4 DEF UndoVideo
  <2> QED
    BY <2>3, <2>4
<1>12. CASE Undone(e)
  <2>1. PICK s \in {"failed", "manual_intervention"} :
            item' = [item EXCEPT ![i] = s] /\ (s = "failed" => run[e].ok)
    BY <1>12 DEF Undone
  <2>2. /\ Goto(e, "extend") /\ i \in Item
        /\ run[e].ok => ~ Exists(i, "new")
    BY <1>12, <1>r, <2>1 DEF Undone, RunFiles
  <2>3. RunFiles(e)' /\ ItemFiles(i)'
    BY <1>12, <1>r, <2>1, <2>2, GotoFields, ItemFilesNow DEF Undone, RunFiles, ItemFiles, RowsTyped, Exists
  <2> QED
    BY <1>12, <1>r, <1>w, <2>1, <2>2, <2>3, GotoFields DEF Undone, ItemStatuses
<1>13. CASE End(e) \/ JobFails(e)
  <2>1. run'[e] = IdleRun /\ \A f \in Runners \ {e} : run'[f] = run[f]
    BY <1>13 DEF End, JobFails, EndJob, TypeInv, RunTyped
  <2>2. RunFiles(e)'
    BY <2>1 DEF RunFiles, IdleRun
  <2> QED
    BY <1>13, <1>k, <2>1, <2>2 DEF End, JobFails, EndJob
<1> QED
  BY <1>1, <1>2, <1>3, <1>4, <1>5, <1>6, <1>7, <1>8, <1>9, <1>10, <1>11, <1>12, <1>13 DEF RunStep

LEMMA FilesRollback ==
  ASSUME TypeInv, LockInv, StatusInv, FilesInv, RollbackAsk \/ RollbackStep
  PROVE  FilesInv'
<1>0. PICK i : i = back.cur
  OBVIOUS
<1> USE <1>0
<1>r. /\ back \in BackPlaces /\ (back.pc \in BackItemSteps => i \in Item)
      /\ RowsTyped /\ AtTyped /\ begun \subseteq Item
      /\ back.pc \in BackItemSteps => item[i] = "done" /\ i \in begun /\ ItemFiles(i)
      /\ back.pc \in BackItemSteps => begun # {}
  BY DEF TypeInv, BackTyped, StatusInv, BackStatus, FilesInv, ItemsFiles
<1>b. BackFiles
  BY DEF FilesInv
<1> USE DEF BackItemSteps, BackAt, BackUnchanged, rows, library
<1>s. ASSUME UNCHANGED <<run, at>> PROVE RunsFiles'
  BY <1>s DEF FilesInv, RunsFiles, RunFiles, Exists
<1>x. ASSUME UNCHANGED <<xfer, at>>, begun \subseteq begun' PROVE XferFiles'
  BY <1>x DEF FilesInv, XferFiles, Exists
\* Steps that leave the items' rows and files alone.
<1>k. ASSUME UNCHANGED <<run, xfer, at, item, begun, overwritten>>, BackFiles'
      PROVE  FilesInv'
  <2>1. ItemsFiles'
    BY <1>k, ItemFilesStay DEF FilesInv, ItemsFiles
  <2> QED
    BY <1>k, <1>s, <1>x, <2>1 DEF FilesInv, RenameKeepsFiles
\* Steps that move the current item's files: no runner has that item.
<1>m. ASSUME UNCHANGED <<run, xfer, item, begun>>, RollsBack, back.pc \in BackItemSteps,
             \A j \in Item \ {i} : at'[j] = at[j], overwritten \subseteq overwritten',
             ItemFiles(i)', BackFiles', at'[i]["new"] \in {"nothing", at[i]["new"]}
      PROVE  FilesInv'
  <2>1. ItemsFiles'
    BY <1>m, ItemFilesStay DEF FilesInv, ItemsFiles
  <2>2. RunsFiles'
    <3>1. \A e \in Runners : ~ Works(e)
      BY <1>m, BackAlone
    <3> QED
      BY <1>m, <3>1 DEF RunsFiles, RunFiles, Works
  <2>3. XferFiles'
    BY <1>m, <1>r DEF FilesInv, XferFiles, Exists, TypeInv, XferTyped, Side
  <2>4. RenameKeepsFiles'
    BY <1>m, <1>r DEF RenameKeepsFiles
  <2> QED
    BY <1>m, <2>1, <2>2, <2>3, <2>4 DEF FilesInv
<1>1. CASE RollbackAsk \/ RollbackLock \/ RollbackEnd
  <2>1. back'.pc \in {"lock", "list", "idle"}
    <3> DEFINE p(S) == [IdleBack EXCEPT !.pc = "list", !.todo = S]
    <3>1. \A S : p(S).pc = "list"
      BY DEF IdleBack
    <3>2. RollbackLock => back' \in {IdleBack, p({j \in Item : item[j] = "done"})}
      BY DEF RollbackLock
    <3> HIDE DEF p
    <3> QED
      BY <1>1, <1>r, <3>1, <3>2 DEF RollbackAsk, RollbackEnd, IdleBack, BackPlaces
  <2>2. BackFiles'
    BY <2>1 DEF BackFiles
  <2> QED
    BY <1>1, <1>k, <2>2 DEF RollbackAsk, RollbackLock, RollbackEnd
<1>2. CASE RollbackNext
  <2>1. back'.pc \in {"assets", "end"}
    BY <1>2, <1>r DEF RollbackNext, BackPlaces
  <2>2. BackFiles'
    BY <2>1 DEF BackFiles
  <2>3. CASE UNCHANGED begun
    BY <1>2, <1>k, <2>2, <2>3 DEF RollbackNext
  <2>4. CASE ~ UNCHANGED begun
    <3>1. PICK m \in Item : begun' = begun \cup {m} /\ item[m] = "done"
      <4>1. back.todo # {} /\ begun' = begun \cup {Max(back.todo)}
        BY <1>2, <2>4 DEF RollbackNext
      <4>2. Max(back.todo) \in back.todo /\ back.todo \subseteq Item
        BY <1>r, <4>1, MaxItem DEF BackPlaces
      <4>3. \A j \in back.todo : item[j] = "done"
        BY <1>2 DEF RollbackNext, StatusInv, BackStatus, RollsBack
      <4> QED
        BY <4>1, <4>2, <4>3
    <3>2. UNCHANGED <<run, xfer, at, item, overwritten>>
      BY <1>2 DEF RollbackNext
    <3>3. ItemsFiles'
      <4>1. ASSUME NEW j \in Item PROVE ItemFiles(j)'
        BY <3>1, <3>2, <4>1 DEF FilesInv, ItemsFiles, ItemFiles, AtOld, Exists
      <4> QED
        BY <4>1 DEF ItemsFiles
    <3>4. RenameKeepsFiles'
      BY <3>1 DEF RenameKeepsFiles
    <3> QED
      BY <1>s, <1>x, <2>2, <3>1, <3>2, <3>3, <3>4 DEF FilesInv
  <2> QED
    BY <2>3, <2>4
<1>3. CASE RollbackAssets
  <2>1. back'.pc = "video"
    BY <1>3, <1>r DEF RollbackAssets, BackPlaces
  <2> QED
    BY <1>3, <1>k, <2>1 DEF RollbackAssets, BackFiles
<1>4. CASE RollbackVideo
  <2>1. ItemFiles(i) /\ item[i] = "done"
    BY <1>4, <1>r DEF RollbackVideo
  <2>2. CASE Exists(i, "new") /\ ~ Exists(i, "old")
    <3>1. back'.pc = "move" /\ back'.cur = i
      BY <1>4, <1>r, <2>2 DEF RollbackVideo, BackPlaces
    <3>2. BackFiles'
      BY <1>4, <2>1, <2>2, <3>1 DEF RollbackVideo, BackFiles, ItemFiles, AtOld, Exists
    <3> QED
      BY <1>4, <1>k, <3>2 DEF RollbackVideo
  <2>3. CASE Exists(i, "new") = Exists(i, "old")
    <3>1. back'.pc = "status" /\ ~ back'.ok
      BY <1>4, <1>r, <2>3 DEF RollbackVideo, BackPlaces, Exists
    <3> QED
      BY <1>4, <1>k, <3>1 DEF RollbackVideo, BackFiles
  <2>4. CASE ~ Exists(i, "new") /\ Exists(i, "old")
    <3>1. /\ back' = [back EXCEPT !.pc = IF back.ok THEN "rows" ELSE "status"]
      BY <1>4, <2>4 DEF RollbackVideo
    <3>2. /\ back'.pc \in {"rows", "status"} /\ back'.cur = i /\ back'.ok = back.ok
          /\ back'.pc = "rows" => back.ok
      BY <1>r, <3>1 DEF BackPlaces
    <3>3. BackFiles'
      BY <1>4, <2>1, <2>4, <3>2 DEF RollbackVideo, BackFiles, ItemFiles, AtOld, Exists
    <3> QED
      BY <1>4, <1>k, <3>3 DEF RollbackVideo
  <2> QED
    BY <2>2, <2>3, <2>4 DEF Exists
<1>5. CASE RollbackMove
  <2>1. /\ i \in Item /\ RollsBack /\ back.pc \in {"move", "copying"}
        /\ at[i]["new"] = "video" \/ overwritten # {}
        /\ item[i] = "done" /\ i \in begun /\ ItemFiles(i)
        /\ UNCHANGED <<run, xfer, item, begun>>
    BY <1>5, <1>b, <1>r DEF RollbackMove, BackFiles, RollsBack
  <2>2. CASE Arrive(i, "new", "old", "rollback") /\ back' = [back EXCEPT !.pc = IF back.ok THEN "rows" ELSE "status"]
    <3>1. /\ at'[i]["old"] = at[i]["new"] /\ at'[i]["new"] = "nothing"
          /\ \A j \in Item \ {i} : at'[j] = at[j]
          /\ overwritten \subseteq overwritten'
      BY <1>r, <2>1, <2>2, ArriveFiles DEF Side
    <3>2. /\ back'.pc \in {"rows", "status"} /\ back'.cur = i /\ back'.ok = back.ok
          /\ back'.pc = "rows" => back.ok
      BY <1>r, <2>2 DEF BackPlaces
    <3>3. AtOld(i)'
      BY <2>1, <3>1 DEF AtOld
    <3>4. BackFiles'
      BY <3>1, <3>2, <3>3 DEF BackFiles, AtOld
    <3>5. ItemFiles(i)'
      BY <2>1, <3>3 DEF ItemFiles
    <3> QED
      BY <1>m, <2>1, <3>1, <3>4, <3>5
  <2>3. CASE StartCopy(i, "old", "rollback") /\ back' = [back EXCEPT !.pc = "copying"]
    <3>1. /\ at'[i]["new"] = at[i]["new"]
          /\ \A j \in Item \ {i} : at'[j] = at[j]
          /\ overwritten \subseteq overwritten'
          /\ at[i]["old"] = "video" => overwritten' # {}
      BY <1>r, <2>1, <2>3, StartCopyFiles DEF Side, Exists
    <3>2. back'.pc = "copying" /\ back'.cur = i
      BY <1>r, <2>3 DEF BackPlaces
    <3>3. BackFiles'
      BY <2>1, <3>1, <3>2 DEF BackFiles
    <3>4. ItemFiles(i)'
      BY <2>1, <3>1 DEF ItemFiles, AtOld
    <3> QED
      BY <1>m, <2>1, <3>1, <3>3, <3>4
  <2>4. CASE UNCHANGED <<at, overwritten>> /\ back' = [back EXCEPT !.pc = "status", !.ok = FALSE]
    <3>1. back'.pc = "status" /\ ~ back'.ok
      BY <1>r, <2>4 DEF BackPlaces
    <3> QED
      BY <1>k, <2>1, <2>4, <3>1 DEF BackFiles
  <2> QED
    BY <1>5, <2>2, <2>3, <2>4 DEF RollbackMove
<1>6. CASE RollbackRows
  <2>1. CASE back' = IdleBack
    BY <1>6, <1>k, <2>1 DEF RollbackRows, BackFiles, IdleBack
  <2>2. CASE back' # IdleBack
    <3>1. back'.pc = "status" /\ back'.cur = i /\ back'.ok = back.ok
      BY <1>6, <1>r, <2>2 DEF RollbackRows, BackPlaces
    <3>2. BackFiles'
      BY <1>6, <1>b, <3>1 DEF RollbackRows, BackFiles, AtOld
    <3> QED
      BY <1>6, <1>k, <3>2 DEF RollbackRows
  <2> QED
    BY <2>1, <2>2
<1>7. CASE RollbackStatus
  <2>1. PICK s \in {"rolled_back", "manual_intervention"} :
            item' = [item EXCEPT ![i] = s] /\ (s = "rolled_back" => back.ok)
    BY <1>7 DEF RollbackStatus
  <2>2. /\ UNCHANGED <<run, xfer, at, begun, overwritten>> /\ back'.pc = "list"
        /\ back.pc = "status" /\ i \in Item
    BY <1>7, <1>r DEF RollbackStatus, BackPlaces
  <2>3. item'[i] = s /\ \A j \in Item \ {i} : item'[j] = item[j]
    BY <1>r, <2>1, <2>2 DEF RowsTyped
  <2>4. ItemFiles(i)'
    BY <1>b, <2>1, <2>2, <2>3, ItemFilesNow DEF BackFiles, AtOld
  <2>5. ItemsFiles'
    BY <2>2, <2>3, <2>4, ItemFilesStay DEF FilesInv, ItemsFiles
  <2>6. BackFiles' /\ RenameKeepsFiles'
    BY <2>2 DEF BackFiles, FilesInv, RenameKeepsFiles
  <2> QED
    BY <1>s, <1>x, <2>2, <2>5, <2>6 DEF FilesInv
<1> QED
  BY <1>1, <1>2, <1>3, <1>4, <1>5, <1>6, <1>7 DEF RollbackStep

LEMMA FilesTransfer ==
  ASSUME TypeInv, LockInv, StatusInv, FilesInv, TransferSteps
  PROVE  FilesInv'
<1>r. /\ AtTyped /\ XferTyped /\ XferFiles
  BY DEF TypeInv, FilesInv
<1> USE DEF rows, library
<1>k. ASSUME UNCHANGED <<run, back, at, item, begun, overwritten>>, XferFiles'
      PROVE  FilesInv'
  <2>1. ItemsFiles'
    BY <1>k, ItemFilesStay DEF FilesInv, ItemsFiles
  <2>2. RunsFiles' /\ BackFiles' /\ RenameKeepsFiles'
    BY <1>k DEF FilesInv, RunsFiles, RunFiles, BackFiles, RenameKeepsFiles, AtOld, Exists
  <2> QED
    BY <1>k, <2>1, <2>2 DEF FilesInv
<1>1. ASSUME NEW i \in Item, NEW side \in Side, TransferStart(i, side)
      PROVE  FilesInv'
  BY <1>1, <1>k DEF TransferStart, XferFiles
<1>2. CASE TransferCheck
  <2>1. XferFiles'
    BY <1>2, <1>r DEF TransferCheck, TransferEnd, IdleXfer, XferFiles, XferTyped, Exists
  <2> QED
    BY <1>2, <1>k, <2>1 DEF TransferCheck
<1>3. CASE TransferWrite
  <2>0. PICK i : i = xfer.cur
    OBVIOUS
  <2>1. PICK side : side = xfer.side
    OBVIOUS
  <2> USE <2>0, <2>1
  <2>2. /\ i \in Item /\ side \in Side /\ xfer.pc = "write"
        /\ UNCHANGED <<run, back, item, begun>>
        /\ ~ Exists(i, side) \/ (side = "old" /\ i \in begun)
    BY <1>3, <1>r DEF TransferWrite, XferTyped, XferFiles
  <2>3. /\ at'[i][side] = "other" /\ \A s \in Side \ {side} : at'[i][s] = at[i][s]
        /\ \A j \in Item \ {i} : at'[j] = at[j]
        /\ overwritten \subseteq overwritten'
        /\ ~ Exists(i, side) => overwritten' = overwritten
        /\ Exists(i, side) => overwritten' # {}
    BY <1>3, <1>r, <2>2 DEF TransferWrite, AtTyped
  <2>4. at'[i]["new"] # at[i]["new"] => at[i]["new"] = "nothing" /\ at'[i]["new"] = "other"
    BY <2>2, <2>3 DEF Side, Exists
  <2>5. at'[i]["old"] # at[i]["old"] =>
            at'[i]["old"] = "other" /\ (at[i]["old"] = "nothing" \/ (i \in begun /\ overwritten' # {}))
    BY <2>2, <2>3 DEF Side, Exists
  <2>6. ItemFiles(i)'
    <3>1. ItemFiles(i) /\ (i \in begun => item[i] \in {"done", "rolled_back", "manual_intervention"})
      BY <2>2 DEF FilesInv, ItemsFiles, StatusInv, BegunStatus
    <3>2. AtOld(i) => AtOld(i)'
      BY <2>3, <2>5 DEF AtOld
    <3>3. CASE item[i] \in {"planned", "failed"}
      BY <2>2, <2>4, <3>1, <3>3, ItemFilesNow DEF ItemFiles
    <3>4. CASE item[i] = "running"
      BY <2>2, <2>4, <2>5, <3>1, <3>4, ItemFilesNow DEF ItemFiles, Exists
    <3>5. CASE item[i] = "done"
      BY <2>2, <2>4, <2>5, <3>1, <3>2, <3>5 DEF ItemFiles
    <3>6. CASE item[i] = "rolled_back"
      BY <2>2, <2>4, <3>1, <3>2, <3>6, ItemFilesNow DEF ItemFiles
    <3>7. CASE item[i] = "manual_intervention"
      BY <2>2, <3>7, ItemFilesNow
    <3> QED
      BY <2>2, <3>3, <3>4, <3>5, <3>6, <3>7 DEF TypeInv, RowsTyped, ItemStatuses
  <2>7. ItemsFiles'
    BY <2>2, <2>3, <2>6, ItemFilesStay DEF FilesInv, ItemsFiles
  <2>8. RunsFiles'
    <3>1. ASSUME NEW e \in Runners PROVE RunFiles(e)'
      <4>1. ~ Holds(e)
        BY <2>2, Alone
      <4>2. CASE run[e].pc = "dirs"
        <5>1. run[e].cur \in Item /\ item[run[e].cur] = "planned" /\ at[run[e].cur]["old"] = "video"
          BY <4>2 DEF TypeInv, RunTyped, ItemSteps, StatusInv, RunsStatus, RunStatus, FilesInv,
                      RunsFiles, RunFiles
        <5>2. run[e].cur \notin begun
          BY <5>1 DEF StatusInv, BegunStatus
        <5>3. at'[run[e].cur]["old"] = "video"
          BY <2>3, <2>5, <5>1, <5>2
        <5> QED
          BY <2>2, <4>2, <5>3 DEF RunFiles
      <4>3. CASE run[e].pc # "dirs"
        BY <2>2, <4>1, <4>3 DEF RunFiles, Holds
      <4> QED
        BY <4>2, <4>3
    <3> QED
      BY <3>1 DEF RunsFiles
  <2>9. BackFiles'
    <3>1. BackFiles /\ (back.pc \in BackItemSteps => back.cur \in Item)
      BY DEF FilesInv, TypeInv, BackTyped
    <3>2. CASE back.cur = i
      BY <2>2, <2>3, <2>4, <2>5, <3>1, <3>2 DEF BackFiles, AtOld
    <3>3. CASE back.cur # i
      BY <2>2, <2>3, <3>1, <3>3 DEF BackFiles, AtOld, BackItemSteps
    <3> QED
      BY <3>2, <3>3
  <2>10. XferFiles'
    BY <1>3 DEF TransferWrite, TransferEnd, IdleXfer, XferFiles
  <2>11. RenameKeepsFiles'
    BY <2>2, <2>3 DEF FilesInv, RenameKeepsFiles
  <2> QED
    BY <2>7, <2>8, <2>9, <2>10, <2>11 DEF FilesInv
<1> QED
  BY <1>1, <1>2, <1>3 DEF TransferSteps

LEMMA FilesStep == TypeInv /\ LockInv /\ StatusInv /\ FilesInv /\ [Next]_vars => FilesInv'
<1> SUFFICES ASSUME TypeInv, LockInv, StatusInv, FilesInv, [Next]_vars PROVE FilesInv'
  OBVIOUS
<1> USE DEF rows, library, locks, threads
<1>r. UNCHANGED <<run, at>> => RunsFiles'
  BY DEF FilesInv, RunsFiles, RunFiles, Exists
<1>s. UNCHANGED <<back, at, overwritten>> => BackFiles'
  BY DEF FilesInv, BackFiles, AtOld
<1>t. UNCHANGED <<xfer, at, begun>> => XferFiles'
  BY DEF FilesInv, XferFiles, Exists
<1>u. UNCHANGED <<at, item, begun, overwritten>> => ItemsFiles' /\ RenameKeepsFiles'
  BY ItemFilesStay DEF FilesInv, ItemsFiles, RenameKeepsFiles
<1>1. CASE UNCHANGED vars \/ CancelRead \/ CancelWrite \/ LeasesEnd
  BY <1>1, <1>r, <1>s, <1>t, <1>u DEF vars, CancelRead, CancelWrite, LeasesEnd, FilesInv
<1>2. CASE Crash
  BY <1>2, <1>u DEF Crash, FilesInv, RunsFiles, RunFiles, BackFiles, XferFiles, IdleRun, IdleBack, IdleXfer
<1>3. CASE Restart
  <2>1. RunsFiles' /\ BackFiles' /\ XferFiles'
    BY <1>3, <1>r, <1>s, <1>t DEF Restart
  <2>2. CASE UNCHANGED item
    BY <1>3, <1>u, <2>1, <2>2 DEF Restart, FilesInv
  <2>3. CASE ~ UNCHANGED item
    <3>1. /\ item' = [i \in Item |-> IF item[i] = "running" THEN Recovered(i) ELSE item[i]]
          /\ UNCHANGED <<at, begun, overwritten>>
      BY <1>3, <2>3 DEF Restart
    <3>2. ASSUME NEW i \in Item PROVE ItemFiles(i)'
      <4>1. CASE item[i] = "running"
        <5>1. ItemFiles(i) /\ item'[i] = Recovered(i)
          BY <3>1, <4>1 DEF FilesInv, ItemsFiles
        <5> QED
          BY <3>1, <4>1, <5>1, ItemFilesNow DEF ItemFiles, Recovered, Exists
      <4>2. CASE item[i] # "running"
        BY <3>1, <4>2, ItemFilesStay DEF FilesInv, ItemsFiles
      <4> QED
        BY <4>1, <4>2
    <3>3. RenameKeepsFiles'
      BY <3>1 DEF FilesInv, RenameKeepsFiles
    <3> QED
      BY <2>1, <3>2, <3>3 DEF FilesInv, ItemsFiles
  <2> QED
    BY <2>2, <2>3
<1> QED
  BY <1>1, <1>2, <1>3, FilesRun, FilesRollback, FilesTransfer DEF Next, TransferSteps

\* What the actions of the files preserve together.
JournalInv == TypeInv /\ LockInv /\ StatusInv /\ FilesInv

LEMMA JournalInvariant == Spec => []JournalInv
<1>1. Init => JournalInv
  BY TypeInit, LockInit, StatusInit, FilesInit DEF JournalInv
<1>2. JournalInv /\ [Next]_vars => JournalInv'
  BY TypeStep, LockStep, StatusStep, FilesStep DEF JournalInv
<1> QED
  BY <1>1, <1>2, PTL DEF Spec

\* No rename writes over a file, and no transfer over a video, until a rollback begins to
\* move an item back: the second look at the target, under the locks of both directories,
\* and the first look at the source are enough for any number of transfers and crashes.
THEOREM FilesKept == Spec => []RenameKeepsFiles
<1>1. JournalInv => RenameKeepsFiles
  BY DEF JournalInv, FilesInv
<1> QED
  BY <1>1, JournalInvariant, PTL

Appears(i) == (at[i]["new"] = "video") # (at'[i]["new"] = "video")

LEMMA StepIsJournaled ==
  ASSUME JournalInv, [Next]_vars, NEW i \in Item, Appears(i)
  PROVE  item[i] \in {"running", "done"}
<1>1. TypeInv /\ LockInv /\ StatusInv /\ FilesInv /\ AtTyped
  BY DEF JournalInv, TypeInv
<1>2. at'[i] # at[i]
  BY DEF Appears
<1> USE DEF rows, library, locks, threads, RunSteps, At
<1>3. ASSUME NEW e \in Runners, Move(e) \/ Copied(e)
      PROVE  item[i] \in {"running", "done"}
  <2>1. PICK j : j = run[e].cur
    OBVIOUS
  <2>2. j \in Item /\ item[j] = "running"
    BY <1>1, <1>3, <2>1 DEF Move, Copied, TypeInv, RunTyped, ItemSteps, StatusInv, RunsStatus,
                            RunStatus, MoveSteps
  <2>3. UNCHANGED at \/ Arrive(j, "old", "new", "rename") \/ StartCopy(j, "new", "rename")
    BY <1>3, <2>1 DEF Move, Copied
  <2> QED
    BY <1>1, <1>2, <2>2, <2>3, ArriveFiles, StartCopyFiles DEF Side
<1>4. ASSUME NEW e \in Runners, UndoVideo(e)
      PROVE  item[i] \in {"running", "done"}
  <2>1. PICK j : j = run[e].cur
    OBVIOUS
  <2>2. j \in Item /\ item[j] \in {"planned", "running"} /\ ItemFiles(j)
    BY <1>1, <1>4, <2>1 DEF UndoVideo, TypeInv, RunTyped, ItemSteps, StatusInv, RunsStatus,
                            RunStatus, UndoSteps, FilesInv, ItemsFiles
  <2>3. UNCHANGED at \/ Arrive(j, "new", "old", "rename")
    BY <1>4, <2>1 DEF UndoVideo
  <2>4. i = j /\ at'[i]["new"] = "nothing"
    BY <1>1, <1>2, <2>2, <2>3, ArriveFiles DEF Side
  <2> QED
    BY <2>2, <2>4 DEF Appears, ItemFiles
<1>5. ASSUME RollbackMove
      PROVE  item[i] \in {"running", "done"}
  <2>1. PICK j : j = back.cur
    OBVIOUS
  <2>2. j \in Item /\ item[j] = "done"
    BY <1>1, <1>5, <2>1 DEF RollbackMove, TypeInv, BackTyped, BackItemSteps, StatusInv, BackStatus
  <2>3. UNCHANGED at \/ Arrive(j, "new", "old", "rollback") \/ StartCopy(j, "old", "rollback")
    BY <1>5, <2>1 DEF RollbackMove
  <2> QED
    BY <1>1, <1>2, <2>2, <2>3, ArriveFiles, StartCopyFiles DEF Side
<1>6. ASSUME TransferWrite
      PROVE  FALSE
  <2>1. /\ xfer.cur \in Item /\ xfer.side \in Side
        /\ ~ Exists(xfer.cur, xfer.side) \/ xfer.side = "old"
    BY <1>1, <1>6 DEF TransferWrite, TypeInv, XferTyped, FilesInv, XferFiles
  <2>2. at' = [at EXCEPT ![xfer.cur][xfer.side] = "other"]
    BY <1>6 DEF TransferWrite
  <2> QED
    BY <1>1, <2>1, <2>2 DEF Appears, Exists, AtTyped, Side
<1>7. ASSUME NEW e \in Runners, Submit(e) \/ RunStep(e), ~ Move(e), ~ Copied(e), ~ UndoVideo(e)
      PROVE  FALSE
  BY <1>2, <1>7 DEF RunStep, Submit, ReadJob, TakeJob, Pick, Check, LockDirs, Recheck, MoveAssets,
                    WriteRows, WriteDone, UndoRows, UndoAssets, Undone, Extend, Finish, LogFinish,
                    Decide, End, JobFails, EndJob
<1>8. ASSUME RollbackAsk \/ RollbackStep, ~ RollbackMove
      PROVE  FALSE
  BY <1>2, <1>8 DEF RollbackStep, RollbackAsk, RollbackLock, RollbackNext, RollbackAssets,
                    RollbackVideo, RollbackRows, RollbackStatus, RollbackEnd
<1>9. ASSUME TransferSteps, ~ TransferWrite
      PROVE  FALSE
  BY <1>2, <1>9 DEF TransferSteps, TransferStart, TransferCheck
<1>10. ASSUME UNCHANGED vars \/ CancelRead \/ CancelWrite \/ Crash \/ LeasesEnd \/ Restart
       PROVE  FALSE
  BY <1>2, <1>10 DEF vars, CancelRead, CancelWrite, Crash, LeasesEnd, Restart
<1> QED
  BY <1>3, <1>4, <1>5, <1>6, <1>7, <1>8, <1>9, <1>10 DEF Next, TransferSteps

\* Every move of a video into or out of its new place happens while the item's row says
\* "running" or "done": what recovery and rollback look for.
THEOREM Journaled == Spec => MovesAreJournaled
<1>1. JournalInv /\ [Next]_vars =>
          [\A i \in Item : Appears(i) => item[i] \in {"running", "done"}]_vars
  BY StepIsJournaled
<1>2. [\A i \in Item : Appears(i) => item[i] \in {"running", "done"}]_vars =>
      [\A i \in Item : (at[i]["new"] = "video") # (at'[i]["new"] = "video") =>
                            item[i] \in {"running", "done"}]_vars
  BY DEF Appears
<1> QED
  BY <1>1, <1>2, JournalInvariant, PTL DEF Spec, MovesAreJournaled

-----------------------------------------------------------------------------
(* The rows of history and metadata *)

OneFault == MaxFaults <= 1
RowIs(i, side) == row[i] = RowsAt(side)

\* A second fault may hit the undoing of the first one, and leave the rows halfway: what is
\* said of items that did not move holds up to one fault.
ItemRows(i) ==
    /\ item[i] = "done" /\ i \notin begun => RowIs(i, "new")
    /\ item[i] = "rolled_back" => RowIs(i, "old")
    /\ OneFault /\ item[i] \in {"planned", "failed"} => RowIs(i, "old")
    /\ OneFault /\ item[i] = "running" /\ ~ Exists(i, "new") => RowIs(i, "old")
ItemsRows == \A i \in Item : ItemRows(i)

RunRows(e) ==
    LET i == run[e].cur IN
    /\ run[e].pc = "done" => RowIs(i, "new")
    /\ OneFault =>
        /\ run[e].pc \in UndoSteps => left.faults = 0
        /\ run[e].pc \in {"move", "copying", "assets", "rows", "undo_assets", "undo_video", "undone"} =>
               RowIs(i, "old")
        /\ run[e].pc = "undo_rows" /\ at[i]["old"] = "video" => RowIs(i, "old")
RunsRows == \A e \in Runners : RunRows(e)

BackRows == back.pc = "status" /\ back.ok => RowIs(back.cur, "old")

RowsInv == ItemsRows /\ RunsRows /\ BackRows

LEMMA RowsInit == Init => RowsInv
  BY DEF Init, RowsInv, ItemsRows, ItemRows, RunsRows, RunRows, BackRows, RowIs, IdleRun, IdleBack,
         UndoSteps

\* An item whose row a step leaves alone.
LEMMA ItemRowsStay ==
  ASSUME NEW i \in Item, ItemRows(i), row'[i] = row[i], item'[i] = item[i],
         i \in begun => (i \in begun)', item[i] = "running" /\ Exists(i, "new") => Exists(i, "new")'
  PROVE  ItemRows(i)'
  BY DEF ItemRows, RowIs, RowsAt

\* The one fault is spent once.
LEMMA FaultSpent ==
  ASSUME TypeInv, NoFault \/ Fault
  PROVE  /\ left.faults = 0 => NoFault /\ left'.faults = 0
         /\ OneFault /\ Fault => left'.faults = 0
<1>1. left.faults \in 0..MaxFaults /\ MaxFaults \in Nat
  BY RenameAssumption DEF TypeInv, LeftTyped
<1>2. Fault => left'.faults = left.faults - 1 /\ left.faults > 0
  BY DEF Fault, TypeInv, LeftTyped
<1> QED
  BY <1>1, <1>2 DEF NoFault, Fault, OneFault

\* A step of a runner touches the row of its current item at most, and no rollback or other
\* runner is at an item then.
LEMMA RunKeepsRows ==
  ASSUME TypeInv, LockInv, RowsInv, NEW e \in Runners, NEW i, i = run[e].cur,
         \A f \in Runners \ {e} : run'[f] = run[f], UNCHANGED <<back, begun>>,
         \/ UNCHANGED <<at, item, row>> /\ (left.faults = 0 => left'.faults = 0)
         \/ /\ run[e].pc \in ItemSteps /\ (i \in Item => ItemRows(i)')
            /\ \A j \in Item \ {i} : at'[j] = at[j] /\ item'[j] = item[j] /\ row'[j] = row[j],
         RunRows(e)'
  PROVE  RowsInv'
<1>1. CASE UNCHANGED <<at, item, row>> /\ (left.faults = 0 => left'.faults = 0)
  <2>1. ItemsRows'
    BY <1>1, ItemRowsStay DEF RowsInv, ItemsRows, Exists
  <2>2. \A f \in Runners \ {e} : RunRows(f)'
    BY <1>1 DEF RowsInv, RunsRows, RunRows, RowIs, RowsAt
  <2> QED
    BY <1>1, <2>1, <2>2 DEF RowsInv, RunsRows, BackRows, RowIs, RowsAt
<1>2. CASE /\ run[e].pc \in ItemSteps /\ (i \in Item => ItemRows(i)')
           /\ \A j \in Item \ {i} : at'[j] = at[j] /\ item'[j] = item[j] /\ row'[j] = row[j]
  <2>1. ItemsRows'
    BY <1>2, ItemRowsStay DEF RowsInv, ItemsRows, Exists
  <2>2. Works(e)
    BY <1>2 DEF Works, ItemSteps
  <2>3. ~ RollsBack /\ \A f \in Runners \ {e} : ~ Works(f)
    BY <2>2, Alone
  <2>4. \A f \in Runners \ {e} : RunRows(f)'
    BY <2>3 DEF RunRows, Works, UndoSteps
  <2> QED
    BY <2>1, <2>3, <2>4 DEF RowsInv, RunsRows, BackRows, RollsBack
<1> QED
  BY <1>1, <1>2

LEMMA RowsRun ==
  ASSUME TypeInv, LockInv, StatusInv, FilesInv, RowsInv, NEW e \in Runners, Submit(e) \/ RunStep(e)
  PROVE  RowsInv'
<1>0. PICK i : i = run[e].cur
  OBVIOUS
<1> USE <1>0
<1>r. /\ run[e] \in RunPlaces /\ (run[e].pc \in ItemSteps => i \in Item)
      /\ RowsTyped /\ AtTyped /\ RowTyped /\ RunStatus(e) /\ RunFiles(e) /\ RunRows(e)
      /\ i \in Item => ItemFiles(i) /\ ItemRows(i)
  BY DEF TypeInv, RunTyped, StatusInv, RunsStatus, FilesInv, RunsFiles, ItemsFiles, RowsInv, RunsRows,
         ItemsRows
<1>l. UNCHANGED left => left'.faults = left.faults
  OBVIOUS
<1> USE DEF RunSteps, ItemSteps, MoveSteps, UndoSteps, At, rows, locks, threads, library
\* Steps that leave the items alone.
<1>k. ASSUME UNCHANGED <<back, begun, at, item, row>>, NoFault \/ Fault,
             \A f \in Runners \ {e} : run'[f] = run[f], RunRows(e)'
      PROVE  RowsInv'
  BY <1>k, FaultSpent, RunKeepsRows
\* Steps that write the status of the current item.
<1>w. ASSUME UNCHANGED <<back, begun, at, row>>, run[e].pc \in ItemSteps,
             NEW s \in ItemStatuses, item' = [item EXCEPT ![i] = s],
             \A f \in Runners \ {e} : run'[f] = run[f], RunRows(e)', ItemRows(i)'
      PROVE  RowsInv'
  <2>1. \A j \in Item \ {i} : at'[j] = at[j] /\ item'[j] = item[j] /\ row'[j] = row[j]
    BY <1>w, <1>r DEF RowsTyped
  <2> QED
    BY <1>w, <2>1, RunKeepsRows
\* Steps that write its files or its rows.
<1>m. ASSUME UNCHANGED <<back, begun, item>>, run[e].pc \in ItemSteps,
             \A j \in Item \ {i} : at'[j] = at[j] /\ row'[j] = row[j],
             \A f \in Runners \ {e} : run'[f] = run[f], RunRows(e)', ItemRows(i)'
      PROVE  RowsInv'
  BY <1>m, RunKeepsRows
<1>1. CASE Submit(e) \/ ReadJob(e) \/ Extend(e) \/ Finish(e) \/ LogFinish(e) \/ Decide(e)
  <2>1. run'[e].pc \in {"read", "lock", "idle", "pick", "end", "log_finish", "decide"}
        /\ \A f \in Runners \ {e} : run'[f] = run[f]
    BY <1>1 DEF Submit, ReadJob, Extend, Finish, LogFinish, Decide, Goto, TypeInv, RunTyped, RunPlaces
  <2>2. RunRows(e)'
    BY <2>1 DEF RunRows
  <2>3. NoFault \/ Fault
    BY <1>1 DEF Submit, ReadJob, Extend, Finish, LogFinish, Decide, NoFault
  <2> QED
    BY <1>1, <1>k, <2>1, <2>2, <2>3 DEF Submit, ReadJob, Extend, Finish, LogFinish, Decide
<1>2. CASE TakeJob(e)
  <2>1. run'[e].pc \in {"pick", "idle"} /\ \A f \in Runners \ {e} : run'[f] = run[f]
    <3>1. CASE Goto(e, "idle")
      BY <3>1, GotoFields
    <3>2. CASE ~ Goto(e, "idle")
      <4> DEFINE p == [IdleRun EXCEPT !.pc = "pick", !.todo = {j \in Item : item[j] = "planned"}]
      <4>1. run' = [run EXCEPT ![e] = p] /\ p.pc = "pick"
        BY <1>2, <3>2 DEF TakeJob, IdleRun
      <4> HIDE DEF p
      <4> QED
        BY <4>1 DEF TypeInv, RunTyped
    <3> QED
      BY <3>1, <3>2
  <2>2. RunRows(e)'
    BY <2>1 DEF RunRows
  <2> QED
    BY <1>2, <1>k, <2>1, <2>2 DEF TakeJob, NoFault
<1>3. CASE Pick(e)
  <2>1. run'[e].pc \in {"finish", "check"} /\ \A f \in Runners \ {e} : run'[f] = run[f]
    BY <1>3 DEF Pick, TypeInv, RunTyped, RunPlaces
  <2>2. RunRows(e)'
    BY <2>1 DEF RunRows
  <2> QED
    BY <1>3, <1>k, <2>1, <2>2 DEF Pick, NoFault
<1>4. CASE Check(e) \/ LockDirs(e)
  <2>1. CASE UNCHANGED item
    <3>1. run'[e].pc \in {"dirs", "recheck", "extend"} /\ \A f \in Runners \ {e} : run'[f] = run[f]
      BY <1>4, GotoFields DEF Check, LockDirs
    <3>2. RunRows(e)'
      BY <3>1 DEF RunRows
    <3> QED
      BY <1>4, <1>k, <2>1, <3>1, <3>2 DEF Check, LockDirs, NoFault
  <2>2. CASE ~ UNCHANGED item
    <3>1. item' = [item EXCEPT ![i] = "failed"] /\ Goto(e, "extend") /\ item[i] = "planned" /\ i \in Item
          /\ UNCHANGED <<back, begun, at, row>> /\ run[e].pc \in ItemSteps
      BY <1>4, <1>r, <2>2 DEF Check, LockDirs, RunStatus
    <3>2. RunRows(e)'
      BY <3>1, GotoFields DEF RunRows
    <3>3. ItemRows(i)'
      BY <1>r, <3>1 DEF ItemRows, RowIs, RowsAt, RowsTyped
    <3> QED
      BY <1>w, <3>1, <3>2, <3>3, GotoFields DEF ItemStatuses
  <2> QED
    BY <2>1, <2>2
<1>5. CASE Recheck(e)
  <2>1. /\ item[i] = "planned" /\ i \in Item /\ run[e].pc \in ItemSteps
        /\ UNCHANGED <<back, begun, at, row>> /\ (NoFault \/ Fault)
    BY <1>5, <1>r DEF Recheck, RunStatus
  <2>2. CASE Goto(e, "undo_rows")
    <3>1. Fault /\ UNCHANGED item
      BY <1>5, <2>2, GotoFields DEF Recheck
    <3>2. RunRows(e)'
      BY <1>r, <2>1, <2>2, <3>1, FaultSpent, GotoFields DEF RunRows, ItemRows, Locals, RowIs, RowsAt
    <3> QED
      BY <1>k, <2>1, <2>2, <3>1, <3>2, GotoFields
  <2>3. CASE Goto(e, "extend") \/ Goto(e, "move")
    <3>1. PICK s \in {"failed", "running"} : item' = [item EXCEPT ![i] = s]
      BY <1>5, <2>3, GotoFields DEF Recheck
    <3>2. RunRows(e)'
      BY <1>r, <2>1, <2>3, GotoFields DEF RunRows, ItemRows, Locals, RowIs, RowsAt
    <3>3. ItemRows(i)'
      BY <1>r, <2>1, <3>1 DEF ItemRows, RowIs, RowsAt, RowsTyped
    <3> QED
      BY <1>w, <2>1, <2>3, <3>1, <3>2, <3>3, GotoFields DEF ItemStatuses
  <2> QED
    BY <1>5, <2>2, <2>3 DEF Recheck
<1>6. CASE Move(e) \/ Copied(e)
  <2>1. /\ item[i] = "running" /\ i \in Item /\ run[e].pc \in ItemSteps /\ at[i]["old"] = "video"
        /\ UNCHANGED <<back, begun, item, row>> /\ (NoFault \/ Fault)
        /\ OneFault => RowIs(i, "old")
    BY <1>6, <1>r DEF Move, Copied, RunStatus, RunFiles, RunRows
  <2>2. CASE Goto(e, "undo_rows")
    <3>1. Fault /\ UNCHANGED at
      BY <1>6, <2>2, GotoFields DEF Move, Copied
    <3>2. RunRows(e)'
      BY <2>1, <2>2, <3>1, FaultSpent, GotoFields DEF RunRows, Locals, RowIs, RowsAt
    <3> QED
      BY <1>k, <2>1, <2>2, <3>1, <3>2, GotoFields
  <2>3. CASE Goto(e, "assets") \/ Goto(e, "copying")
    <3>1. Arrive(i, "old", "new", "rename") \/ StartCopy(i, "new", "rename")
      BY <1>6, <2>3, GotoFields DEF Move, Copied
    <3>2. \A j \in Item \ {i} : at'[j] = at[j]
      BY <1>r, <2>1, <3>1, ArriveFiles, StartCopyFiles DEF Side
    <3>3. RunRows(e)'
      BY <2>1, <2>3, GotoFields DEF RunRows, Locals, RowIs, RowsAt
    <3>4. ItemRows(i)'
      BY <2>1 DEF ItemRows, RowIs, RowsAt
    <3> QED
      BY <1>m, <2>1, <2>3, <3>2, <3>3, <3>4, GotoFields
  <2> QED
    BY <1>6, <2>2, <2>3 DEF Move, Copied
<1>7. CASE MoveAssets(e) \/ UndoAssets(e)
  <2>1. /\ run'[e].pc \in {"rows", "undo_video"} /\ (run'[e].pc = "rows" <=> run[e].pc = "assets")
        /\ run'[e].cur = i /\ \A f \in Runners \ {e} : run'[f] = run[f]
    BY <1>7 DEF MoveAssets, UndoAssets, Goto, TypeInv, RunTyped, RunPlaces
  <2>2. UNCHANGED <<back, begun, at, item, row>> /\ (NoFault \/ Fault)
        /\ run[e].pc \in {"assets", "undo_assets"}
    BY <1>7 DEF MoveAssets, UndoAssets
  <2>3. RunRows(e)'
    BY <1>r, <2>1, <2>2, FaultSpent DEF RunRows, RowIs, RowsAt
  <2> QED
    BY <1>k, <2>1, <2>2, <2>3
<1>8. CASE WriteRows(e)
  <2>1. /\ item[i] = "running" /\ i \in Item /\ run[e].pc \in ItemSteps /\ (NoFault \/ Fault)
        /\ UNCHANGED <<back, begun, item, at>> /\ ~ Exists(i, "old") /\ at[i]["new"] = "video"
    BY <1>8, <1>r DEF WriteRows, RunStatus, RunFiles
  <2>2. \A j \in Item \ {i} : row'[j] = row[j]
    BY <1>8, <1>r DEF WriteRows, RowTyped
  <2>3. ItemRows(i)'
    BY <2>1 DEF ItemRows, Exists
  <2>4. CASE Goto(e, "done")
    <3>1. row' = [row EXCEPT ![i] = RowsAt("new")]
      BY <1>8, <2>4, GotoFields DEF WriteRows
    <3>2. RunRows(e)'
      BY <1>r, <2>1, <2>4, <3>1, GotoFields DEF RunRows, Locals, RowIs, RowsAt, RowTyped
    <3> QED
      BY <1>m, <2>1, <2>2, <2>3, <2>4, <3>2, GotoFields
  <2>5. CASE Goto(e, "undo_rows")
    <3>1. Fault
      BY <1>8, <2>5, GotoFields DEF WriteRows
    <3>2. RunRows(e)'
      BY <2>1, <2>5, <3>1, FaultSpent, GotoFields DEF RunRows, Locals, Exists
    <3> QED
      BY <1>m, <2>1, <2>2, <2>3, <2>5, <3>2, GotoFields
  <2> QED
    BY <1>8, <2>4, <2>5 DEF WriteRows
<1>9. CASE WriteDone(e)
  <2>1. /\ item[i] = "running" /\ i \in Item /\ run[e].pc \in ItemSteps /\ (NoFault \/ Fault)
        /\ UNCHANGED <<back, begun, row, at>> /\ ~ Exists(i, "old") /\ RowIs(i, "new")
    BY <1>9, <1>r DEF WriteDone, RunStatus, RunFiles, RunRows
  <2>2. CASE Goto(e, "undo_rows")
    <3>1. Fault /\ UNCHANGED item
      BY <1>9, <2>2, GotoFields DEF WriteDone
    <3>2. RunRows(e)'
      BY <2>1, <2>2, <3>1, FaultSpent, GotoFields DEF RunRows, Locals, Exists
    <3> QED
      BY <1>k, <2>1, <2>2, <3>1, <3>2, GotoFields
  <2>3. CASE ~ Goto(e, "undo_rows")
    <3>1. item' = [item EXCEPT ![i] = "done"] /\ Goto(e, "extend")
      BY <1>9, <2>3 DEF WriteDone
    <3>2. RunRows(e)'
      BY <3>1, GotoFields DEF RunRows
    <3>3. ItemRows(i)'
      BY <1>r, <2>1, <3>1 DEF ItemRows, RowIs, RowsAt, RowsTyped
    <3> QED
      BY <1>w, <2>1, <3>1, <3>2, <3>3, GotoFields DEF ItemStatuses
  <2> QED
    BY <2>2, <2>3
<1>10. CASE UndoRows(e)
  <2>1. /\ item[i] \in {"planned", "running"} /\ i \in Item /\ run[e].pc \in ItemSteps
        /\ UNCHANGED <<back, begun, item, at>> /\ (NoFault \/ Fault)
        /\ run[e].pc = "undo_rows" /\ Goto(e, "undo_assets")
        /\ OneFault => left.faults = 0
    BY <1>10, <1>r DEF UndoRows, RunStatus, RunRows
  <2>2. \A j \in Item \ {i} : row'[j] = row[j]
    BY <1>10, <1>r DEF UndoRows, RowTyped
  <2>3. OneFault => RowIs(i, "old")'
    <3>1. OneFault => NoFault
      BY <2>1, FaultSpent
    <3>2. NoFault => ~ Fault
      BY DEF NoFault, Fault, TypeInv, LeftTyped
    <3>3. OneFault => row' = [row EXCEPT ![i] = RowsAt("old")]
      BY <1>10, <3>1, <3>2 DEF UndoRows
    <3> QED
      BY <1>r, <2>1, <3>3 DEF RowIs, RowsAt, RowTyped
  <2>4. RunRows(e)'
    BY <2>1, <2>3, FaultSpent, GotoFields DEF RunRows, Locals, RowIs, RowsAt
  <2>5. ItemRows(i)'
    BY <2>1, <2>3 DEF ItemRows
  <2> QED
    BY <1>m, <2>1, <2>2, <2>4, <2>5, GotoFields
<1>11. CASE UndoVideo(e)
  <2>1. /\ item[i] \in {"planned", "running"} /\ i \in Item /\ run[e].pc \in ItemSteps
        /\ UNCHANGED <<back, begun, item, row>> /\ (NoFault \/ Fault) /\ run[e].pc = "undo_video"
        /\ OneFault => RowIs(i, "old") /\ left.faults = 0
    BY <1>11, <1>r DEF UndoVideo, RunStatus, RunRows
  <2>2. run'[e].pc = "undone" /\ run'[e].cur = i /\ \A f \in Runners \ {e} : run'[f] = run[f]
    BY <1>11 DEF UndoVideo, Goto, TypeInv, RunTyped, RunPlaces
  <2>3. UNCHANGED at \/ Arrive(i, "new", "old", "rename")
    BY <1>11 DEF UndoVideo
  <2>4. \A j \in Item \ {i} : at'[j] = at[j]
    BY <1>r, <2>1, <2>3, ArriveFiles DEF Side
  <2>5. RunRows(e)' /\ ItemRows(i)'
    BY <2>1, <2>2, FaultSpent DEF RunRows, ItemRows, RowIs, RowsAt
  <2> QED
    BY <1>m, <2>1, <2>2, <2>4, <2>5
<1>12. CASE Undone(e)
  <2>1. PICK s \in {"failed", "manual_intervention"} : item' = [item EXCEPT ![i] = s]
    BY <1>12 DEF Undone
  <2>2. /\ i \in Item /\ Goto(e, "extend") /\ run[e].pc \in ItemSteps
        /\ UNCHANGED <<back, begun, at, row>> /\ (OneFault => RowIs(i, "old"))
    BY <1>12, <1>r DEF Undone, RunRows
  <2>3. RunRows(e)'
    BY <2>2, GotoFields DEF RunRows
  <2>4. ItemRows(i)'
    BY <1>r, <2>1, <2>2 DEF ItemRows, RowIs, RowsAt, RowsTyped
  <2> QED
    BY <1>w, <2>1, <2>2, <2>3, <2>4, GotoFields DEF ItemStatuses
<1>13. CASE End(e) \/ JobFails(e)
  <2>1. run'[e] = IdleRun /\ \A f \in Runners \ {e} : run'[f] = run[f]
    BY <1>13 DEF End, JobFails, EndJob, TypeInv, RunTyped
  <2>2. RunRows(e)'
    BY <2>1 DEF RunRows, IdleRun
  <2> QED
    BY <1>13, <1>k, <2>1, <2>2 DEF End, JobFails, EndJob
<1> QED
  BY <1>1, <1>2, <1>3, <1>4, <1>5, <1>6, <1>7, <1>8, <1>9, <1>10, <1>11, <1>12, <1>13 DEF RunStep

LEMMA RowsRollback ==
  ASSUME TypeInv, LockInv, StatusInv, RowsInv, RollbackAsk \/ RollbackStep
  PROVE  RowsInv'
<1>0. PICK i : i = back.cur
  OBVIOUS
<1> USE <1>0
<1>r. /\ back \in BackPlaces /\ (back.pc \in BackItemSteps => i \in Item)
      /\ RowsTyped /\ AtTyped /\ RowTyped
      /\ back.pc \in BackItemSteps => item[i] = "done" /\ i \in begun
      /\ BackRows
  BY DEF TypeInv, BackTyped, StatusInv, BackStatus, RowsInv
<1>f. left.faults = 0 => left'.faults = 0
  BY FaultSpent
  DEF RollbackAsk, RollbackStep, RollbackLock, RollbackNext, RollbackAssets, RollbackVideo,
      RollbackMove, RollbackRows, RollbackStatus, RollbackEnd, TypeInv, LeftTyped, NoFault
<1> USE DEF BackItemSteps, BackAt, BackUnchanged, rows, library
\* Steps that leave the items alone.
<1>k. ASSUME UNCHANGED <<run, at, item, row>>, begun \subseteq begun', BackRows'
      PROVE  RowsInv'
  <2>1. ItemsRows'
    BY <1>k, ItemRowsStay DEF RowsInv, ItemsRows, Exists
  <2>2. RunsRows'
    BY <1>k, <1>f DEF RowsInv, RunsRows, RunRows, RowIs, RowsAt
  <2> QED
    BY <1>k, <2>1, <2>2 DEF RowsInv
\* Steps at an item: no runner is at one then.
<1>m. ASSUME UNCHANGED <<run, begun>>, RollsBack, back.pc \in BackItemSteps, BackRows', ItemRows(i)',
             \A j \in Item \ {i} : at'[j] = at[j] /\ item'[j] = item[j] /\ row'[j] = row[j]
      PROVE  RowsInv'
  <2>1. ItemsRows'
    BY <1>m, ItemRowsStay DEF RowsInv, ItemsRows, Exists
  <2>2. RunsRows'
    <3>1. \A e \in Runners : ~ Works(e)
      BY <1>m, BackAlone
    <3> QED
      BY <1>m, <3>1 DEF RunsRows, RunRows, Works, UndoSteps
  <2> QED
    BY <1>m, <2>1, <2>2 DEF RowsInv
<1>1. CASE RollbackAsk \/ RollbackLock \/ RollbackEnd
  <2>1. back'.pc \in {"lock", "list", "idle"}
    <3> DEFINE p(S) == [IdleBack EXCEPT !.pc = "list", !.todo = S]
    <3>1. \A S : p(S).pc = "list"
      BY DEF IdleBack
    <3>2. RollbackLock => back' \in {IdleBack, p({j \in Item : item[j] = "done"})}
      BY DEF RollbackLock
    <3> HIDE DEF p
    <3> QED
      BY <1>1, <1>r, <3>1, <3>2 DEF RollbackAsk, RollbackEnd, IdleBack, BackPlaces
  <2>2. BackRows'
    BY <2>1 DEF BackRows
  <2> QED
    BY <1>1, <1>k, <2>2 DEF RollbackAsk, RollbackLock, RollbackEnd
<1>2. CASE RollbackNext \/ RollbackAssets
  <2>1. back'.pc \in {"assets", "end", "video"}
    BY <1>2, <1>r DEF RollbackNext, RollbackAssets, BackPlaces
  <2>2. BackRows'
    BY <2>1 DEF BackRows
  <2>3. UNCHANGED <<run, at, item, row>> /\ begun \subseteq begun'
    BY <1>2 DEF RollbackNext, RollbackAssets
  <2> QED
    BY <1>k, <2>2, <2>3
<1>3. CASE RollbackVideo
  <2>1. \/ back' = [back EXCEPT !.pc = "move"]
        \/ back' = [back EXCEPT !.pc = "status", !.ok = FALSE]
        \/ back' = [back EXCEPT !.pc = "rows"]
        \/ back' = [back EXCEPT !.pc = "status"] /\ ~ back.ok
    BY <1>3 DEF RollbackVideo
  <2>2. BackRows'
    BY <1>r, <2>1 DEF BackRows, BackPlaces
  <2> QED
    BY <1>3, <1>k, <2>2 DEF RollbackVideo
<1>4. CASE RollbackMove
  <2>1. /\ i \in Item /\ RollsBack /\ back.pc \in {"move", "copying"} /\ item[i] = "done" /\ i \in begun
        /\ UNCHANGED <<run, item, begun, row>>
    BY <1>4, <1>r DEF RollbackMove, RollsBack
  <2>2. UNCHANGED at \/ Arrive(i, "new", "old", "rollback") \/ StartCopy(i, "old", "rollback")
    BY <1>4 DEF RollbackMove
  <2>3. \A j \in Item \ {i} : at'[j] = at[j]
    BY <1>r, <2>1, <2>2, ArriveFiles, StartCopyFiles DEF Side
  <2>4. BackRows'
    <3>1. \/ back' = [back EXCEPT !.pc = "copying"]
          \/ back' = [back EXCEPT !.pc = "status", !.ok = FALSE]
          \/ back' = [back EXCEPT !.pc = "rows"]
          \/ back' = [back EXCEPT !.pc = "status"] /\ ~ back.ok
      BY <1>4 DEF RollbackMove
    <3> QED
      BY <1>r, <3>1 DEF BackRows, BackPlaces
  <2>5. ItemRows(i)'
    BY <2>1 DEF ItemRows
  <2> QED
    BY <1>m, <2>1, <2>3, <2>4, <2>5
<1>5. CASE RollbackRows
  <2>1. /\ i \in Item /\ RollsBack /\ back.pc = "rows" /\ item[i] = "done" /\ i \in begun
        /\ UNCHANGED <<run, item, begun, at>>
    BY <1>5, <1>r DEF RollbackRows, RollsBack
  <2>2. \A j \in Item \ {i} : row'[j] = row[j]
    BY <1>5, <1>r DEF RollbackRows, RowTyped
  <2>3. BackRows'
    <3>1. CASE back' = IdleBack
      BY <3>1 DEF BackRows, IdleBack
    <3>2. CASE back' # IdleBack
      <4>1. row' = [row EXCEPT ![i] = RowsAt("old")] /\ back' = [back EXCEPT !.pc = "status"]
        BY <1>5, <3>2 DEF RollbackRows
      <4>2. row'[i] = RowsAt("old") /\ back'.cur = i
        BY <1>r, <2>1, <4>1 DEF RowTyped, BackPlaces
      <4> QED
        BY <4>2 DEF BackRows, RowIs, RowsAt
    <3> QED
      BY <3>1, <3>2
  <2>4. ItemRows(i)'
    BY <2>1 DEF ItemRows
  <2> QED
    BY <1>m, <2>1, <2>2, <2>3, <2>4
<1>6. CASE RollbackStatus
  <2>1. PICK s \in {"rolled_back", "manual_intervention"} :
            item' = [item EXCEPT ![i] = s] /\ (s = "rolled_back" => back.ok)
    BY <1>6 DEF RollbackStatus
  <2>2. /\ UNCHANGED <<run, at, row, begun>> /\ back'.pc = "list"
        /\ back.pc = "status" /\ i \in Item /\ RollsBack
    BY <1>6, <1>r DEF RollbackStatus, BackPlaces, RollsBack
  <2>3. item'[i] = s /\ \A j \in Item \ {i} : item'[j] = item[j]
    BY <1>r, <2>1, <2>2 DEF RowsTyped
  <2>4. ItemRows(i)' /\ BackRows'
    BY <1>r, <2>1, <2>2, <2>3 DEF BackRows, ItemRows, RowIs, RowsAt
  <2> QED
    BY <1>m, <2>2, <2>3, <2>4
<1> QED
  BY <1>1, <1>2, <1>3, <1>4, <1>5, <1>6 DEF RollbackStep

LEMMA RowsStep == JournalInv /\ RowsInv /\ [Next]_vars => RowsInv'
<1> SUFFICES ASSUME JournalInv, RowsInv, [Next]_vars PROVE RowsInv'
  OBVIOUS
<1>j. TypeInv /\ LockInv /\ StatusInv /\ FilesInv
  BY DEF JournalInv
<1> USE DEF rows, library, locks, threads
\* Steps that leave the rows alone, of what may write into a free path.
<1>s. ASSUME UNCHANGED <<run, back, item, row, begun>>, left'.faults = left.faults,
             \A i \in Item : Exists(i, "new") => Exists(i, "new")',
             \A i \in Item : at'[i]["old"] = "video" => at[i]["old"] = "video"
      PROVE  RowsInv'
  <2>1. ItemsRows' /\ BackRows'
    BY <1>s, ItemRowsStay DEF RowsInv, ItemsRows, BackRows, RowIs, RowsAt
  <2>2. RunsRows'
    BY <1>s DEF RowsInv, RunsRows, RunRows, RowIs, RowsAt, UndoSteps, TypeInv, RunTyped, ItemSteps,
                JournalInv
  <2> QED
    BY <2>1, <2>2 DEF RowsInv
<1>1. CASE UNCHANGED vars \/ CancelRead \/ CancelWrite \/ LeasesEnd
  BY <1>1, <1>s DEF vars, CancelRead, CancelWrite, LeasesEnd, Exists
<1>2. CASE TransferSteps
  <2>1. UNCHANGED <<run, back, item, row, begun>> /\ left'.faults = left.faults
    BY <1>2, <1>j DEF TransferSteps, TransferStart, TransferCheck, TransferWrite, TypeInv, LeftTyped
  <2>2. UNCHANGED at \/ at' = [at EXCEPT ![xfer.cur][xfer.side] = "other"]
    BY <1>2 DEF TransferSteps, TransferStart, TransferCheck, TransferWrite
  <2>3. \A i \in Item : (Exists(i, "new") => Exists(i, "new")')
                        /\ (at'[i]["old"] = "video" => at[i]["old"] = "video")
    BY <1>j, <2>2 DEF TypeInv, AtTyped, Side, Exists
  <2> QED
    BY <1>s, <2>1, <2>3
<1>3. CASE Crash
  <2>1. UNCHANGED <<at, item, row, begun>>
    BY <1>3 DEF Crash
  <2>2. ItemsRows'
    BY <2>1, ItemRowsStay DEF RowsInv, ItemsRows, Exists
  <2> QED
    BY <1>3, <2>2 DEF Crash, RowsInv, RunsRows, RunRows, BackRows, IdleRun, IdleBack, UndoSteps
<1>4. CASE Restart
  <2>1. CASE UNCHANGED <<item, row>>
    BY <1>4, <1>s, <2>1 DEF Restart, Exists
  <2>2. CASE ~ UNCHANGED <<item, row>>
    <3>1. /\ jobLock = None /\ UNCHANGED <<run, back, begun, at, left>>
          /\ item' = [i \in Item |-> IF item[i] = "running" THEN Recovered(i) ELSE item[i]]
          /\ row' = [i \in Item |-> IF item[i] = "running" /\ Recovered(i) = "done"
                                    THEN RowsAt("new") ELSE row[i]]
      BY <1>4, <2>2 DEF Restart
    <3>2. ~ RollsBack /\ \A e \in Runners : ~ Works(e)
      BY <1>j, <3>1, RenameAssumption DEF LockInv, RunnersLock, RollbackLocks
    <3>3. RunsRows' /\ BackRows'
      BY <3>1, <3>2 DEF RunsRows, RunRows, BackRows, Works, RollsBack, UndoSteps
    <3>4. ASSUME NEW i \in Item PROVE ItemRows(i)'
      <4>1. CASE item[i] # "running"
        BY <3>1, <4>1, ItemRowsStay DEF RowsInv, ItemsRows, Exists
      <4>2. CASE item[i] = "running"
        BY <3>1, <4>2 DEF RowsInv, ItemsRows, ItemRows, RowIs, RowsAt, Recovered, Exists
      <4> QED
        BY <4>1, <4>2
    <3> QED
      BY <3>3, <3>4 DEF RowsInv, ItemsRows
  <2> QED
    BY <2>1, <2>2
<1> QED
  BY <1>1, <1>2, <1>3, <1>4, <1>j, RowsRun, RowsRollback DEF Next, TransferSteps

LEMMA RowsInvariant == Spec => [](JournalInv /\ RowsInv)
<1>1. Init => RowsInv
  BY RowsInit
<1> QED
  BY <1>1, RowsStep, JournalInvariant, PTL DEF Spec

\* What "done" and "rolled_back" promise holds whatever fails and however often it does: the
\* video, its history and its metadata are at the new place, or back at the old one.
DoneItemsAgree ==
    \A i \in Item :
        /\ item[i] = "done" /\ i \notin begun =>
               /\ at[i]["new"] = "video" /\ at[i]["old"] # "video"
               /\ row[i] = RowsAt("new")
        /\ item[i] = "rolled_back" =>
               /\ at[i]["old"] = "video" \/ overwritten # {}
               /\ at[i]["new"] # "video" /\ row[i] = RowsAt("old")

\* The promises of the two statuses that stand for a completed move, for any number of
\* faults, crashes, rollbacks and transfers.
THEOREM DoneAgree == Spec => []DoneItemsAgree
<1>1. JournalInv /\ RowsInv => DoneItemsAgree
  BY DEF JournalInv, FilesInv, ItemsFiles, ItemFiles, AtOld, RowsInv, ItemsRows, ItemRows, RowIs,
         DoneItemsAgree
<1> QED
  BY <1>1, RowsInvariant, PTL

\* With at most one failed operation, and any number of crashes, what every settled status
\* promises is true of the disk and of the two tables.  With a second one it is not: the
\* exception path ignores its own failures, and an item whose rows it could not put back
\* is still marked "failed".
THEOREM SettledAgree ==
  ASSUME MaxFaults <= 1
  PROVE  Spec => []SettledItemsAgree
<1>1. JournalInv /\ RowsInv => SettledItemsAgree
  BY DEF JournalInv, FilesInv, ItemsFiles, ItemFiles, AtOld, RowsInv, ItemsRows, ItemRows, RowIs,
         OneFault, SettledItemsAgree
<1> QED
  BY <1>1, RowsInvariant, PTL

-----------------------------------------------------------------------------
(* A completed job has nothing left to do *)

Ends == {"failed", "interrupted", "cancelled", "completed"}
EndsInv == \A e \in Runners : run[e].end \in Ends

AtItem(e, i) == run[e].cur = i /\ run[e].pc \in MoveSteps \cup UndoSteps
Abandoned == job # "planned" /\ \A e \in Runners : run[e].pc = "idle"

\* A planned item is in the list of whoever runs the job, or is the one at hand; the list is
\* empty when the runner ends, unless the job is being cancelled.
RunSettles(e) ==
    /\ Works(e) => \A i \in Item : item[i] = "planned" =>
           \/ i \in run[e].todo
           \/ i = run[e].cur /\ run[e].pc \in {"check", "dirs", "recheck"} \cup UndoSteps
    /\ run[e].pc \in {"finish", "log_finish", "decide"} => run[e].todo = {} \/ job \in Cancelling
    /\ run[e].pc = "end" /\ run[e].end = "completed" => run[e].todo = {}
RunsSettle == \A e \in Runners : RunSettles(e)

\* A runner is at each running item, or the process died there and the job is never run again.
RunningItems == \A i \in Item : item[i] = "running" => Abandoned \/ \E e \in Runners : AtItem(e, i)

SettledInv == EndsInv /\ (OneFault => RunsSettle /\ RunningItems /\ CompletedMeansSettled)

LEMMA SettledInit == Init => SettledInv
  BY DEF Init, SettledInv, EndsInv, Ends, RunsSettle, RunSettles, RunningItems, CompletedMeansSettled,
         IdleRun, Works

\* A runner works on the job: its current item is the only one whose status it writes, and
\* the only one that runs.
LEMMA RunKeepsSettled ==
  ASSUME TypeInv, LockInv, SettledInv, NEW e \in Runners, NEW i, i = run[e].cur,
         \A f \in Runners \ {e} : run'[f] = run[f], UNCHANGED job, Works(e),
         \A j \in Item \ {i} : item'[j] = item[j],
         i \in Item /\ item'[i] = "running" /\ (item[i] = "running" => run[e].pc \in MoveSteps \cup UndoSteps)
             => run'[e].cur = i /\ run'[e].pc \in MoveSteps \cup UndoSteps,
         run'[e].end \in Ends, OneFault => RunSettles(e)'
  PROVE  SettledInv'
<1>1. (\A f \in Runners \ {e} : ~ Works(f)) /\ job \in {"running"} \cup Cancelling
  BY Alone
<1>2. EndsInv'
  BY DEF SettledInv, EndsInv
<1>3. OneFault => RunsSettle'
  BY <1>1 DEF RunsSettle, RunSettles, Works
<1>4. CompletedMeansSettled'
  BY <1>1 DEF CompletedMeansSettled, Cancelling
<1>5. ASSUME OneFault, NEW j \in Item, item'[j] = "running"
      PROVE  AtItem(e, j)'
  <2>1. item[j] = "running" => AtItem(e, j)
    BY <1>1, <1>5 DEF SettledInv, RunningItems, Abandoned, AtItem, Works, MoveSteps, UndoSteps
  <2> QED
    BY <1>5, <2>1 DEF AtItem
<1> QED
  BY <1>2, <1>3, <1>4, <1>5 DEF SettledInv, RunningItems

\* A runner that does not have the job goes on.
LEMMA OutsideKeepsSettled ==
  ASSUME SettledInv, NEW e \in Runners, \A f \in Runners \ {e} : run'[f] = run[f],
         UNCHANGED <<job, item>>, ~ Works(e), ~ Works(e)', run'[e].end \in Ends,
         job = "planned" \/ run[e].pc # "idle"
  PROVE  SettledInv'
<1>1. EndsInv'
  BY DEF SettledInv, EndsInv
<1>2. OneFault => RunsSettle'
  BY DEF SettledInv, RunsSettle, RunSettles, Works
<1>3. CompletedMeansSettled' = CompletedMeansSettled
  BY DEF CompletedMeansSettled
<1>4. OneFault => RunningItems'
  BY DEF SettledInv, RunningItems, Abandoned, AtItem, Works, MoveSteps, UndoSteps
<1> QED
  BY <1>1, <1>2, <1>3, <1>4 DEF SettledInv

LEMMA SettledRun ==
  ASSUME JournalInv, RowsInv, SettledInv, NEW e \in Runners, Submit(e) \/ RunStep(e)
  PROVE  SettledInv'
<1>0. PICK i : i = run[e].cur
  OBVIOUS
<1> USE <1>0
<1>j. TypeInv /\ LockInv /\ StatusInv
  BY DEF JournalInv
<1>r. /\ run[e] \in RunPlaces /\ (run[e].pc \in ItemSteps => i \in Item)
      /\ RowsTyped /\ RunStatus(e) /\ run[e].end \in Ends /\ RunRows(e)
      /\ OneFault => RunSettles(e)
  BY <1>j DEF TypeInv, RunTyped, StatusInv, RunsStatus, SettledInv, EndsInv, RunsSettle, RowsInv, RunsRows
<1> USE DEF RunSteps, ItemSteps, MoveSteps, UndoSteps, At, rows, locks, threads, library
\* Steps of a runner that has the job.
<1>k. ASSUME UNCHANGED job, Works(e), Works(e)', \A f \in Runners \ {e} : run'[f] = run[f],
             run'[e].todo = run[e].todo, run'[e].cur = i, run'[e].end \in Ends,
             \A j \in Item \ {i} : item'[j] = item[j],
             i \in Item /\ item'[i] = "running" /\ (item[i] = "running" => run[e].pc \in MoveSteps \cup UndoSteps)
                 => run'[e].pc \in MoveSteps \cup UndoSteps,
             i \in Item /\ item'[i] = "planned" =>
                 /\ item[i] = "planned"
                 /\ run[e].pc \in {"check", "dirs", "recheck"} \cup UndoSteps =>
                        run'[e].pc \in {"check", "dirs", "recheck"} \cup UndoSteps,
             run'[e].pc \in {"finish", "log_finish", "decide"} => run[e].todo = {} \/ job \in Cancelling,
             run'[e].pc = "end" /\ run'[e].end = "completed" => run[e].todo = {}
      PROVE  SettledInv'
  <2>1. OneFault => RunSettles(e)'
    BY <1>k, <1>r DEF RunSettles
  <2> QED
    BY <1>j, <1>k, <2>1, RunKeepsSettled
<1>1. CASE Submit(e) \/ ReadJob(e)
  BY <1>1, <1>r, <1>j, GotoFields, OutsideKeepsSettled DEF Submit, ReadJob, Works, Locals
<1>2. CASE TakeJob(e)
  <2>1. CASE jobLock # None
    BY <1>2, <1>r, <1>j, <2>1, GotoFields, OutsideKeepsSettled DEF TakeJob, Works, Locals
  <2>2. CASE jobLock = None
    <3> DEFINE todo == {j \in Item : item[j] = "planned"}
               p == [IdleRun EXCEPT !.pc = "pick", !.todo = todo]
    <3>0. run' = [run EXCEPT ![e] = p] /\ job' = "running" /\ UNCHANGED item
      BY <1>2, <2>2 DEF TakeJob
    <3>1. \A f \in Runners : ~ Works(f)
      BY <1>j, <2>2, RenameAssumption DEF LockInv, RunnersLock
    <3>t. \A j \in Item : item[j] = "planned" => j \in todo
      OBVIOUS
    <3> HIDE DEF todo
    <3>2. p.pc = "pick" /\ p.todo = todo /\ p.end \in Ends
      BY DEF IdleRun, Ends
    <3> HIDE DEF p
    <3>3. run'[e] = p /\ \A f \in Runners \ {e} : run'[f] = run[f]
      BY <1>j, <3>0 DEF TypeInv, RunTyped
    <3>4. EndsInv'
      BY <3>2, <3>3 DEF SettledInv, EndsInv
    <3>5. RunsSettle'
      <4>1. \A f \in Runners \ {e} : RunSettles(f)'
        BY <3>1, <3>3 DEF RunSettles, Works
      <4>2. RunSettles(e)'
        BY <3>0, <3>2, <3>3, <3>t DEF RunSettles
      <4> QED
        BY <4>1, <4>2 DEF RunsSettle
    <3>6. OneFault => \A j \in Item : item[j] # "running"
      <4>1. \A f \in Runners, j \in Item : ~ AtItem(f, j)
        BY <3>1 DEF AtItem, Works
      <4>2. ~ Abandoned
        BY <1>2 DEF TakeJob, Abandoned
      <4> QED
        BY <4>1, <4>2 DEF SettledInv, RunningItems
    <3> QED
      BY <3>0, <3>4, <3>5, <3>6 DEF SettledInv, RunningItems, CompletedMeansSettled
  <2> QED
    BY <2>1, <2>2
<1>3. CASE Pick(e)
  <2>w. Works(e) /\ UNCHANGED <<job, item>>
    BY <1>3 DEF Pick, Works
  <2>1. CASE job \in Cancelling \/ run[e].todo = {}
    <3>1. Goto(e, "finish")
      BY <1>3, <2>1 DEF Pick, Goto
    <3>2. run[e].pc = "pick"
      BY <1>3 DEF Pick
    <3> QED
      BY <1>k, <1>j, <1>r, <2>1, <2>w, <3>1, <3>2, GotoFields DEF Works, Locals
  <2>2. CASE ~ (job \in Cancelling \/ run[e].todo = {})
    <3> DEFINE m == Min(run[e].todo)
               p == [run[e] EXCEPT !.pc = "check", !.cur = m, !.todo = @ \ {m},
                                   !.moved = {}, !.ok = TRUE]
    <3>1. m \in run[e].todo /\ run[e].todo \subseteq Item
      BY <1>r, <2>2, MinItem DEF RunPlaces
    <3>2. run' = [run EXCEPT ![e] = p] /\ run[e].pc = "pick"
      BY <1>3, <2>2 DEF Pick
    <3> HIDE DEF m
    <3>3. p.pc = "check" /\ p.cur = m /\ p.todo = run[e].todo \ {m} /\ p.end = run[e].end
      BY <1>r DEF RunPlaces
    <3> HIDE DEF p
    <3>4. run'[e] = p /\ \A f \in Runners \ {e} : run'[f] = run[f]
      BY <1>j, <3>2 DEF TypeInv, RunTyped
    <3>5. OneFault => RunSettles(e)'
      BY <1>r, <2>w, <3>1, <3>2, <3>3, <3>4 DEF RunSettles
    <3> QED
      BY <1>j, <1>r, <2>w, <3>2, <3>3, <3>4, <3>5, RunKeepsSettled
  <2> QED
    BY <2>1, <2>2
<1>4. CASE Check(e)
  BY <1>4, <1>r, <1>j, <1>k, GotoFields DEF Check, RunStatus, Works, Locals, RowsTyped
<1>5. CASE LockDirs(e)
  BY <1>5, <1>r, <1>j, <1>k, GotoFields DEF LockDirs, RunStatus, Works, Locals, RowsTyped
<1>6. CASE Recheck(e)
  BY <1>6, <1>r, <1>j, <1>k, GotoFields DEF Recheck, RunStatus, Works, Locals, RowsTyped
<1>7. CASE Move(e) \/ Copied(e) \/ WriteRows(e)
  BY <1>7, <1>r, <1>j, <1>k, GotoFields DEF Move, Copied, WriteRows, RunStatus, Works, Locals
<1>8. CASE UndoRows(e)
  BY <1>8, <1>r, <1>j, <1>k, GotoFields DEF UndoRows, RunStatus, Works, Locals
<1>9. CASE MoveAssets(e) \/ UndoAssets(e) \/ UndoVideo(e)
  <2>1. /\ run'[e].pc \in {"rows", "undo_video", "undone"} /\ (run'[e].pc = "rows" <=> run[e].pc = "assets")
        /\ run'[e].cur = i /\ run'[e].todo = run[e].todo /\ run'[e].end = run[e].end
        /\ \A f \in Runners \ {e} : run'[f] = run[f]
    BY <1>9, <1>j DEF MoveAssets, UndoAssets, UndoVideo, Goto, TypeInv, RunTyped, RunPlaces
  <2>2. UNCHANGED <<job, item>> /\ run[e].pc \in {"assets", "undo_assets", "undo_video"}
    BY <1>9 DEF MoveAssets, UndoAssets, UndoVideo
  <2> QED
    BY <1>k, <1>r, <2>1, <2>2 DEF Works, RunStatus
<1>10. CASE WriteDone(e)
  BY <1>10, <1>r, <1>j, <1>k, GotoFields DEF WriteDone, RunStatus, Works, Locals, RowsTyped
<1>11. CASE Undone(e)
  <2>1. PICK s \in {"failed", "manual_intervention"} : item' = [item EXCEPT ![i] = s]
    BY <1>11 DEF Undone
  <2>2. Goto(e, "extend") /\ run[e].pc = "undone" /\ UNCHANGED job /\ i \in Item
    BY <1>11, <1>r DEF Undone
  <2> QED
    BY <2>1, <2>2, <1>r, <1>j, <1>k, GotoFields DEF Works, Locals, RowsTyped
<1>12. CASE Extend(e) \/ Finish(e) \/ LogFinish(e) \/ Decide(e)
  <2>1. /\ UNCHANGED <<job, item>> /\ Works(e) /\ run[e].pc \notin ItemSteps
    BY <1>12 DEF Extend, Finish, LogFinish, Decide, Works
  <2>2. /\ run'[e].cur = i /\ run'[e].todo = run[e].todo
        /\ \A f \in Runners \ {e} : run'[f] = run[f]
        /\ \/ run'[e].pc = "pick" /\ run'[e].end = run[e].end
           \/ run'[e].pc = "end" /\ run'[e].end \in {"interrupted", "cancelled"}
           \/ run'[e].pc = "end" /\ run'[e].end = "completed" /\ run[e].pc = "decide" /\ job \notin Cancelling
           \/ /\ run'[e].pc \in {"log_finish", "decide"} /\ run'[e].end = run[e].end
              /\ run[e].pc \in {"finish", "log_finish"}
    <3> DEFINE status == IF job \in Cancelling THEN "cancelled" ELSE "completed"
    <3>s. status = "cancelled" \/ (status = "completed" /\ job \notin Cancelling)
      OBVIOUS
    <3>d. Decide(e) => run' = [run EXCEPT ![e].pc = "end", ![e].end = status]
      BY DEF Decide
    <3> HIDE DEF status
    <3>1. CASE Extend(e)
      BY <3>1, <1>j DEF Extend, Goto, TypeInv, RunTyped, RunPlaces
    <3>2. CASE Finish(e)
      <4> DEFINE stay == {a \in Asset : asset[a] = "old"}
      <4>1. Goto(e, "decide") \/ run' = [run EXCEPT ![e].pc = "log_finish", ![e].moved = stay]
        BY <3>2 DEF Finish
      <4>2. run[e].pc = "finish"
        BY <3>2 DEF Finish
      <4> HIDE DEF stay
      <4> QED
        BY <1>j, <4>1, <4>2 DEF Goto, TypeInv, RunTyped, RunPlaces
    <3>3. CASE LogFinish(e)
      BY <3>3, <1>j DEF LogFinish, Goto, TypeInv, RunTyped, RunPlaces
    <3>4. CASE Decide(e)
      <4>1. run[e].pc = "decide"
        BY <3>4 DEF Decide
      <4> QED
        BY <1>j, <3>4, <3>d, <3>s, <4>1 DEF TypeInv, RunTyped, RunPlaces
    <3> QED
      BY <1>12, <3>1, <3>2, <3>3, <3>4
  <2>3. OneFault => RunSettles(e)'
    BY <1>r, <2>1, <2>2 DEF RunSettles, Works
  <2> QED
    BY <1>j, <1>r, <2>1, <2>2, <2>3, RunKeepsSettled DEF Ends
<1>13. CASE End(e) \/ JobFails(e)
  <2>1. /\ run'[e] = IdleRun /\ UNCHANGED item /\ Works(e)
        /\ \A f \in Runners \ {e} : run'[f] = run[f]
    BY <1>13, <1>j DEF End, JobFails, EndJob, TypeInv, RunTyped, Works
  <2>2. job' \in Ends /\ (job' = "completed" => run[e].pc = "end" /\ run[e].end = "completed")
    BY <1>13, <1>r DEF End, JobFails, EndJob, Ends
  <2>3. EndsInv'
    BY <2>1 DEF SettledInv, EndsInv, IdleRun, Ends
  <2>4. \A f \in Runners \ {e} : ~ Works(f)
    BY <1>j, <2>1, Alone
  <2>5. RunsSettle'
    BY <2>1, <2>4 DEF RunsSettle, RunSettles, Works, IdleRun
  <2>6. OneFault => \A j \in Item : item[j] # "running"
    <3>1. OneFault => ~ AtItem(e, i)
      <4>1. OneFault /\ run[e].pc = "undone" => ~ Fault
        BY <1>r DEF RunRows, Fault
      <4> QED
        BY <1>13, <4>1 DEF AtItem, End, JobFails
    <3>2. ASSUME OneFault, NEW j \in Item, item[j] = "running"
          PROVE  FALSE
      <4>1. ~ Abandoned
        BY <2>1 DEF Abandoned, Works
      <4>2. PICK f \in Runners : AtItem(f, j)
        BY <3>2, <4>1 DEF SettledInv, RunningItems
      <4>3. f = e
        BY <2>4, <4>2 DEF AtItem, Works
      <4> QED
        BY <3>1, <3>2, <4>2, <4>3 DEF AtItem
    <3> QED
      BY <3>2
  <2>7. OneFault => CompletedMeansSettled'
    <3>1. OneFault /\ job' = "completed" => \A j \in Item : item[j] # "planned"
      BY <1>r, <2>1, <2>2 DEF RunSettles
    <3> QED
      BY <2>1, <2>6, <3>1 DEF CompletedMeansSettled
  <2> QED
    BY <2>1, <2>3, <2>5, <2>6, <2>7 DEF SettledInv, RunningItems
<1> QED
  BY <1>1, <1>2, <1>3, <1>4, <1>5, <1>6, <1>7, <1>8, <1>9, <1>10, <1>11, <1>12, <1>13 DEF RunStep

LEMMA SettledRollback ==
  ASSUME JournalInv, SettledInv, RollbackAsk \/ RollbackStep
  PROVE  SettledInv'
<1>j. TypeInv /\ LockInv /\ StatusInv
  BY DEF JournalInv
<1> USE DEF BackUnchanged, BackAt, rows
<1>r. /\ back.pc \in BackItemSteps => back.cur \in Item /\ item[back.cur] = "done"
      /\ UNCHANGED run /\ RowsTyped
  BY <1>j DEF TypeInv, BackTyped, StatusInv, BackStatus, RollbackAsk, RollbackStep, RollbackLock,
              RollbackNext, RollbackAssets, RollbackVideo, RollbackMove, RollbackRows, RollbackStatus,
              RollbackEnd
\* The items a rollback touches are done, and it ends the job under its own status.
<1>1. \A i \in Item : item'[i] \in {"planned", "running"} => item'[i] = item[i]
  <2>1. CASE UNCHANGED item
    BY <2>1
  <2>2. CASE ~ UNCHANGED item
    <3>1. PICK s \in {"rolled_back", "manual_intervention"} : item' = [item EXCEPT ![back.cur] = s]
      BY <2>2 DEF RollbackAsk, RollbackStep, RollbackLock, RollbackNext, RollbackAssets, RollbackVideo,
                  RollbackMove, RollbackRows, RollbackStatus, RollbackEnd
    <3> QED
      BY <1>r, <3>1 DEF RowsTyped
  <2> QED
    BY <2>1, <2>2
<1>2. job' = job \/ (job' = "rolled_back" /\ back.pc = "end")
  BY DEF RollbackAsk, RollbackStep, RollbackLock, RollbackNext, RollbackAssets, RollbackVideo,
         RollbackMove, RollbackRows, RollbackStatus, RollbackEnd
<1>3. EndsInv'
  BY <1>r DEF SettledInv, EndsInv
<1>4. CompletedMeansSettled => CompletedMeansSettled'
  BY <1>1, <1>2 DEF CompletedMeansSettled
<1>5. RunningItems => RunningItems'
  BY <1>r, <1>1, <1>2 DEF RunningItems, Abandoned, AtItem
<1>6. RunsSettle => RunsSettle'
  <2>1. CASE UNCHANGED job
    BY <1>r, <1>1, <2>1 DEF RunsSettle, RunSettles, Works
  <2>2. CASE back.pc = "end"
    <3>1. \A e \in Runners : ~ Works(e)
      BY <1>j, <2>2, BackAlone DEF RollsBack
    <3> QED
      BY <1>r, <3>1 DEF RunsSettle, RunSettles, Works
  <2> QED
    BY <1>2, <2>1, <2>2
<1> QED
  BY <1>3, <1>4, <1>5, <1>6 DEF SettledInv

LEMMA SettledStep == JournalInv /\ RowsInv /\ SettledInv /\ [Next]_vars => SettledInv'
<1> SUFFICES ASSUME JournalInv, RowsInv, SettledInv, [Next]_vars PROVE SettledInv'
  OBVIOUS
<1>j. TypeInv /\ LockInv /\ StatusInv
  BY DEF JournalInv
<1> USE DEF rows, library, locks, threads
<1>1. CASE UNCHANGED vars \/ TransferSteps \/ LeasesEnd \/ CancelRead
  <2>1. UNCHANGED <<run, job, item>>
    BY <1>1 DEF vars, TransferSteps, TransferStart, TransferCheck, TransferWrite, LeasesEnd, CancelRead
  <2> QED
    BY <2>1 DEF SettledInv, EndsInv, RunsSettle, RunSettles, RunningItems, CompletedMeansSettled,
                Abandoned, AtItem, Works
<1>2. CASE CancelWrite
  <2>1. UNCHANGED <<run, item>> /\ job' \in Cancelling
    BY <1>2 DEF CancelWrite, Cancelling
  <2> QED
    BY <2>1 DEF SettledInv, EndsInv, RunsSettle, RunSettles, RunningItems, CompletedMeansSettled,
                Abandoned, AtItem, Works, Cancelling
<1>3. CASE Crash
  <2>1. run' = [e \in Runners |-> IdleRun] /\ UNCHANGED <<job, item>>
    BY <1>3 DEF Crash
  <2>2. EndsInv' /\ RunsSettle'
    BY <2>1 DEF EndsInv, Ends, RunsSettle, RunSettles, Works, IdleRun
  <2>3. RunningItems => RunningItems'
    <3>1. ASSUME NEW e \in Runners, NEW i \in Item, AtItem(e, i)
          PROVE  job # "planned"
      BY <1>j, <3>1, Alone DEF AtItem, Works, MoveSteps, UndoSteps, Cancelling
    <3> QED
      BY <2>1, <3>1 DEF RunningItems, Abandoned, IdleRun
  <2> QED
    BY <2>1, <2>2, <2>3 DEF SettledInv, CompletedMeansSettled
<1>4. CASE Restart
  <2>1. CASE UNCHANGED <<job, item>>
    BY <1>4, <2>1 DEF Restart, SettledInv, EndsInv, RunsSettle, RunSettles, RunningItems,
                      CompletedMeansSettled, Abandoned, AtItem, Works
  <2>2. CASE ~ UNCHANGED <<job, item>>
    <3>1. /\ jobLock = None /\ job' = "interrupted" /\ UNCHANGED run
          /\ item' = [i \in Item |-> IF item[i] = "running" THEN Recovered(i) ELSE item[i]]
      BY <1>4, <2>2 DEF Restart
    <3>2. \A e \in Runners : ~ Works(e)
      BY <1>j, <3>1, RenameAssumption DEF LockInv, RunnersLock
    <3>3. \A i \in Item : item'[i] # "running"
      BY <3>1 DEF Recovered
    <3> QED
      BY <3>1, <3>2, <3>3 DEF SettledInv, EndsInv, RunsSettle, RunSettles, RunningItems,
                              CompletedMeansSettled, Works
  <2> QED
    BY <2>1, <2>2
<1> QED
  BY <1>1, <1>2, <1>3, <1>4, SettledRun, SettledRollback DEF Next, TransferSteps

LEMMA SettledInvariant == Spec => [](JournalInv /\ RowsInv /\ SettledInv)
  BY SettledInit, SettledStep, RowsInvariant, PTL DEF Spec

\* With at most one failed operation, a job that says "completed" has no item planned or
\* under way, whatever the second submissions, cancels and crashes before it.  With a second
\* fault run_job() may leave an item running, and the other submission completes the job.
THEOREM CompletedSettled ==
  ASSUME MaxFaults <= 1
  PROVE  Spec => []CompletedMeansSettled
<1>1. SettledInv => CompletedMeansSettled
  BY DEF SettledInv, OneFault
<1> QED
  BY <1>1, SettledInvariant, PTL

-----------------------------------------------------------------------------
(* A rollback finds everything that moved *)

NoMishap == left.faults = MaxFaults /\ left.crashes = MaxCrashes

\* Where asset a is not at its old place, the journal of a done item that the rollback has
\* not yet come to names it, or a runner is about to write that it moved it.
Named(a, i) ==
    /\ item[i] = "done" /\ a \in journal[i]
    /\ ~ (back.pc \in {"video", "move", "copying", "rows", "status"} /\ back.cur = i)
Carried(a, e) == a \in run[e].moved /\ run[e].pc \in {"rows", "done", "log_finish"}
Found(a) == asset[a] = "old" \/ (\E i \in Item : Named(a, i)) \/ \E e \in Runners : Carried(a, e)

AllRestored == (\A i \in Item : item[i] # "done") /\ \A a \in Asset : asset[a] = "old"
RunSmooth(e) ==
    /\ run[e].pc \notin UndoSteps
    /\ run[e].pc = "log_finish" => \A i \in Item : item[i] = "done"

RestoreInv ==
    NoMishap => /\ up
                /\ \A e \in Runners : RunSmooth(e)
                /\ \A a \in Asset : Found(a)
                /\ job = "rolled_back" => AllRestored

LEMMA RestoreInit == Init => RestoreInv
  BY DEF Init, RestoreInv, RunSmooth, Found, IdleRun, UndoSteps

\* Mishaps do not go away.
LEMMA MishapsStay ==
  ASSUME TypeInv, [Next]_vars
  PROVE  /\ NoMishap' => NoMishap /\ left'.faults = left.faults /\ left'.crashes = left.crashes
         /\ Fault \/ Crash => ~ NoMishap'
<1>1. /\ left.faults \in 0..MaxFaults /\ left.crashes \in 0..MaxCrashes
      /\ MaxFaults \in Nat /\ MaxCrashes \in Nat
  BY RenameAssumption DEF TypeInv, LeftTyped
<1>2. left' = left => left'.faults = left.faults /\ left'.crashes = left.crashes
  OBVIOUS
<1>3. Fault => left'.faults = left.faults - 1 /\ left'.crashes = left.crashes
  BY DEF Fault, TypeInv, LeftTyped
<1>4. Crash => left'.faults = left.faults /\ left'.crashes = left.crashes - 1
  BY DEF Crash, TypeInv, LeftTyped
<1>5. RollbackAsk => left'.faults = left.faults /\ left'.crashes = left.crashes
  BY DEF RollbackAsk, TypeInv, LeftTyped
<1>6. ASSUME NEW i \in Item, NEW side \in Side, TransferStart(i, side)
      PROVE  left'.faults = left.faults /\ left'.crashes = left.crashes
  BY <1>6 DEF TransferStart, TypeInv, LeftTyped
<1>7. ASSUME NEW e \in Runners, Submit(e) \/ RunStep(e)
      PROVE  left' = left \/ Fault
  BY <1>7 DEF Submit, RunStep, ReadJob, TakeJob, Pick, Check, LockDirs, Recheck, Move, Copied, MoveAssets,
              WriteRows, WriteDone, UndoRows, UndoAssets, UndoVideo, Undone, Extend, Finish, LogFinish,
              Decide, End, JobFails, NoFault
<1>8. RollbackStep => left' = left \/ Fault
  BY DEF RollbackStep, RollbackLock, RollbackNext, RollbackAssets, RollbackVideo, RollbackMove,
         RollbackRows, RollbackStatus, RollbackEnd, NoFault
<1>9. UNCHANGED vars \/ CancelRead \/ CancelWrite \/ TransferCheck \/ TransferWrite \/ LeasesEnd \/ Restart
          => left' = left
  BY DEF vars, CancelRead, CancelWrite, TransferCheck, TransferWrite, LeasesEnd, Restart
<1>10. /\ left'.faults \in {left.faults, left.faults - 1}
       /\ left'.crashes \in {left.crashes, left.crashes - 1}
  BY <1>2, <1>3, <1>4, <1>5, <1>6, <1>7, <1>8, <1>9 DEF Next
<1> QED
  BY <1>1, <1>3, <1>4, <1>10 DEF NoMishap

\* Steps that leave the assets, the journal and the done items alone.
LEMMA FoundStays ==
  ASSUME NEW a \in Asset, Found(a), UNCHANGED <<asset, journal>>,
         \A i \in Item : item[i] = "done" => item'[i] = "done",
         \A i \in Item : item[i] = "done" /\ back'.cur = i
                             /\ back'.pc \in {"video", "move", "copying", "rows", "status"} =>
                         back.pc \in {"video", "move", "copying", "rows", "status"} /\ back.cur = i,
         \A e \in Runners : Carried(a, e) => Carried(a, e)'
  PROVE  Found(a)'
  BY DEF Found, Named

LEMMA RestoreRun ==
  ASSUME JournalInv, SettledInv, RestoreInv, NEW e \in Runners, Submit(e) \/ RunStep(e)
  PROVE  RestoreInv'
<1>0. PICK i : i = run[e].cur
  OBVIOUS
<1> USE <1>0
<1> SUFFICES ASSUME NoMishap' PROVE RestoreInv'
  BY DEF RestoreInv
<1>j. TypeInv /\ LockInv /\ StatusInv
  BY DEF JournalInv
<1>n. NoMishap /\ ~ Fault
  BY <1>j, MishapsStay DEF Next
<1>r. /\ run[e] \in RunPlaces /\ (run[e].pc \in ItemSteps => i \in Item) /\ RunSmooth(e)
      /\ RowsTyped /\ RunStatus(e) /\ run[e].end \in Ends /\ journal \in [Item -> SUBSET Asset]
      /\ up /\ (\A f \in Runners : RunSmooth(f)) /\ (\A a \in Asset : Found(a))
      /\ job = "rolled_back" => AllRestored
  BY <1>j, <1>n DEF TypeInv, RunTyped, RowsTyped, StatusInv, RunsStatus, SettledInv, EndsInv, RestoreInv
<1> USE DEF RunSteps, ItemSteps, MoveSteps, UndoSteps, At, rows, locks, threads, library
\* Steps that leave the assets and the journal alone, of a runner that has moved none.
<1>k. ASSUME UNCHANGED <<up, asset, journal, back>>, \A j \in Item : item[j] = "done" => item'[j] = "done",
             job' = job \/ job' # "rolled_back", UNCHANGED item \/ Works(e),
             \A f \in Runners \ {e} : run'[f] = run[f], RunSmooth(e)',
             \A a \in Asset : Carried(a, e) => Carried(a, e)'
      PROVE  RestoreInv'
  <2>1. \A a \in Asset, f \in Runners : Carried(a, f) => Carried(a, f)'
    BY <1>k DEF Carried
  <2>2. \A a \in Asset : Found(a)'
    BY <1>k, <1>r, <2>1, FoundStays
  <2>3. \A f \in Runners : RunSmooth(f)'
    BY <1>k, <1>r DEF RunSmooth
  <2>4. job' = "rolled_back" => AllRestored'
    <3>1. job' = "rolled_back" => UNCHANGED item
      BY <1>j, <1>k, Alone DEF Cancelling
    <3> QED
      BY <1>k, <1>r, <3>1 DEF AllRestored
  <2> QED
    BY <1>k, <1>r, <2>2, <2>3, <2>4 DEF RestoreInv
<1>p. ASSUME NEW s \in ItemStatuses, item' = [item EXCEPT ![i] = s], i \in Item, item[i] # "done"
      PROVE  \A j \in Item : item[j] = "done" => item'[j] = "done"
  BY <1>p, <1>r DEF RowsTyped
<1>1. CASE Submit(e) \/ ReadJob(e) \/ Decide(e)
  <2>1. run'[e].pc \in {"read", "lock", "idle", "end"} /\ \A f \in Runners \ {e} : run'[f] = run[f]
    BY <1>1, <1>j DEF Submit, ReadJob, Decide, Goto, TypeInv, RunTyped, RunPlaces
  <2>2. run[e].pc \in {"idle", "read", "decide"} /\ UNCHANGED <<up, asset, rows, back>>
    BY <1>1 DEF Submit, ReadJob, Decide
  <2> QED
    BY <1>k, <2>1, <2>2 DEF RunSmooth, Carried
<1>2. CASE TakeJob(e)
  <2>1. run'[e].pc \in {"pick", "idle"} /\ \A f \in Runners \ {e} : run'[f] = run[f]
    <3>1. CASE Goto(e, "idle")
      BY <1>j, <3>1, GotoFields
    <3>2. CASE ~ Goto(e, "idle")
      <4> DEFINE p == [IdleRun EXCEPT !.pc = "pick", !.todo = {j \in Item : item[j] = "planned"}]
      <4>1. run' = [run EXCEPT ![e] = p] /\ p.pc = "pick"
        BY <1>2, <3>2 DEF TakeJob, IdleRun
      <4> HIDE DEF p
      <4> QED
        BY <1>j, <4>1 DEF TypeInv, RunTyped
    <3> QED
      BY <3>1, <3>2
  <2>2. /\ run[e].pc = "lock" /\ UNCHANGED <<up, asset, item, journal, back>>
        /\ job' = job \/ job' = "running"
    BY <1>2 DEF TakeJob
  <2> QED
    BY <1>k, <2>1, <2>2 DEF RunSmooth, Carried
<1>3. CASE Pick(e)
  <2>1. run'[e].pc \in {"finish", "check"} /\ \A f \in Runners \ {e} : run'[f] = run[f]
    BY <1>3, <1>j DEF Pick, TypeInv, RunTyped, RunPlaces
  <2>2. run[e].pc = "pick" /\ UNCHANGED <<up, asset, rows, back>>
    BY <1>3 DEF Pick
  <2> QED
    BY <1>k, <2>1, <2>2 DEF RunSmooth, Carried
<1>4. CASE Check(e) \/ LockDirs(e)
  <2>1. /\ run[e].pc \in {"check", "dirs"} /\ item[i] = "planned" /\ i \in Item /\ Works(e)
        /\ UNCHANGED <<up, asset, job, journal, back>>
        /\ UNCHANGED item \/ item' = [item EXCEPT ![i] = "failed"]
    BY <1>4, <1>r DEF Check, LockDirs, RunStatus, Works
  <2>2. run'[e].pc \in {"dirs", "recheck", "extend"} /\ \A f \in Runners \ {e} : run'[f] = run[f]
    BY <1>4, <1>j, GotoFields DEF Check, LockDirs
  <2>3. \A j \in Item : item[j] = "done" => item'[j] = "done"
    BY <1>p, <2>1 DEF ItemStatuses
  <2> QED
    BY <1>k, <2>1, <2>2, <2>3 DEF RunSmooth, Carried
<1>5. CASE Recheck(e)
  <2>1. /\ run[e].pc = "recheck" /\ item[i] = "planned" /\ i \in Item /\ Works(e)
        /\ UNCHANGED <<up, asset, job, journal, back>>
        /\ item' = [item EXCEPT ![i] = "failed"] \/ item' = [item EXCEPT ![i] = "running"]
    BY <1>5, <1>r, <1>n DEF Recheck, RunStatus, Works
  <2>2. run'[e].pc \in {"move", "extend"} /\ \A f \in Runners \ {e} : run'[f] = run[f]
    BY <1>5, <1>n, <1>j, GotoFields DEF Recheck
  <2>3. \A j \in Item : item[j] = "done" => item'[j] = "done"
    BY <1>p, <2>1 DEF ItemStatuses
  <2> QED
    BY <1>k, <2>1, <2>2, <2>3 DEF RunSmooth, Carried
<1>6. CASE Move(e) \/ Copied(e) \/ Extend(e)
  <2>1. /\ run[e].pc \in {"move", "copying", "extend"} /\ Works(e) /\ UNCHANGED <<up, asset, rows, back>>
    BY <1>6 DEF Move, Copied, Extend, Works
  <2>2. run'[e].pc \in {"assets", "copying", "pick"} /\ \A f \in Runners \ {e} : run'[f] = run[f]
    BY <1>6, <1>n, <1>j, GotoFields DEF Move, Copied, Extend
  <2> QED
    BY <1>k, <2>1, <2>2 DEF RunSmooth, Carried
<1>7. CASE MoveAssets(e)
  <2>1. /\ i \in Item /\ run[e].pc = "assets" /\ Works(e) /\ UNCHANGED <<up, rows, back>>
        /\ asset' = [asset EXCEPT ![i] = "new"]
        /\ run' = [run EXCEPT ![e].pc = "rows", ![e].moved = {i}]
    BY <1>7, <1>r, <1>n DEF MoveAssets, Works
  <2>2. /\ run'[e].pc = "rows" /\ run'[e].moved = {i}
        /\ \A f \in Runners \ {e} : run'[f] = run[f]
    BY <1>j, <2>1 DEF TypeInv, RunTyped, RunPlaces
  <2>3. ASSUME NEW a \in Asset PROVE Found(a)'
    <3>1. CASE a = i
      BY <2>2, <3>1 DEF Found, Carried
    <3>2. CASE a # i
      <4>1. asset'[a] = asset[a]
        BY <1>j, <2>1, <3>2 DEF TypeInv, AssetTyped
      <4>2. \A f \in Runners : Carried(a, f) => Carried(a, f)'
        BY <2>1, <2>2 DEF Carried
      <4> QED
        BY <1>r, <2>1, <4>1, <4>2 DEF Found, Named
    <3> QED
      BY <3>1, <3>2
  <2>4. \A f \in Runners : RunSmooth(f)'
    BY <1>r, <2>1, <2>2 DEF RunSmooth
  <2>5. job' # "rolled_back"
    BY <1>j, <2>1, Alone DEF Cancelling
  <2> QED
    BY <1>r, <2>1, <2>3, <2>4, <2>5 DEF RestoreInv
<1>8. CASE WriteRows(e)
  <2>1. /\ run[e].pc = "rows" /\ Works(e) /\ UNCHANGED <<up, asset, rows, back>> /\ Goto(e, "done")
    BY <1>8, <1>n DEF WriteRows, Works
  <2> QED
    BY <1>k, <1>j, <2>1, GotoFields DEF RunSmooth, Carried, Locals
<1>9. CASE WriteDone(e)
  <2>1. /\ i \in Item /\ item[i] = "running" /\ run[e].pc = "done" /\ Works(e)
        /\ UNCHANGED <<up, job, asset, back>> /\ Goto(e, "extend")
        /\ item' = [item EXCEPT ![i] = "done"] /\ journal' = [journal EXCEPT ![i] = run[e].moved]
    BY <1>9, <1>r, <1>n DEF WriteDone, RunStatus, Works
  <2>2. /\ item'[i] = "done" /\ journal'[i] = run[e].moved
        /\ \A j \in Item \ {i} : item'[j] = item[j] /\ journal'[j] = journal[j]
    BY <1>r, <2>1 DEF RowsTyped
  <2>3. run'[e].pc = "extend" /\ \A f \in Runners \ {e} : run'[f] = run[f]
    BY <1>j, <2>1, GotoFields
  <2>4. ~ RollsBack /\ job' # "rolled_back"
    BY <1>j, <2>1, Alone DEF Cancelling
  <2>5. ASSUME NEW a \in Asset PROVE Found(a)'
    <3>1. CASE Carried(a, e)
      <4>1. Named(a, i)'
        BY <2>1, <2>2, <2>4, <3>1 DEF Named, Carried, RollsBack
      <4> QED
        BY <2>1, <4>1 DEF Found
    <3>2. CASE \E j \in Item : Named(a, j)
      <4>1. PICK j \in Item : Named(a, j)
        BY <3>2
      <4>2. j # i
        BY <2>1, <4>1 DEF Named
      <4>3. Named(a, j)'
        BY <2>1, <2>2, <4>1, <4>2 DEF Named
      <4> QED
        BY <4>3 DEF Found
    <3>3. CASE \E f \in Runners \ {e} : Carried(a, f)
      BY <2>3, <3>3 DEF Found, Carried
    <3>4. CASE asset[a] = "old"
      BY <2>1, <3>4 DEF Found
    <3> QED
      BY <1>r, <3>1, <3>2, <3>3, <3>4 DEF Found
  <2>6. \A f \in Runners : RunSmooth(f)'
    <3>1. \A j \in Item : item[j] = "done" => item'[j] = "done"
      BY <2>2
    <3> QED
      BY <1>r, <2>3, <3>1 DEF RunSmooth
  <2> QED
    BY <1>r, <2>1, <2>4, <2>5, <2>6 DEF RestoreInv
<1>10. CASE UndoRows(e) \/ UndoAssets(e) \/ UndoVideo(e) \/ Undone(e)
  BY <1>10, <1>r DEF UndoRows, UndoAssets, UndoVideo, Undone, RunSmooth
<1>11. CASE Finish(e)
  <2> DEFINE stay == {a \in Asset : asset[a] = "old"}
  <2>1. run[e].pc = "finish" /\ Works(e) /\ UNCHANGED <<up, rows, back>>
    BY <1>11 DEF Finish, Works
  <2>2. CASE Goto(e, "decide")
    <3>1. UNCHANGED asset
      <4>1. UNCHANGED asset \/ run' = [run EXCEPT ![e].pc = "log_finish", ![e].moved = stay]
        BY <1>11 DEF Finish
      <4> HIDE DEF stay
      <4>2. ~ run' = [run EXCEPT ![e].pc = "log_finish", ![e].moved = stay]
        BY <1>j, <2>2, GotoFields DEF TypeInv, RunTyped, RunPlaces
      <4> QED
        BY <4>1, <4>2
    <3> QED
      BY <1>k, <1>j, <2>1, <2>2, <3>1, GotoFields DEF RunSmooth, Carried
  <2>3. CASE ~ Goto(e, "decide")
    <3>1. /\ \A j \in Item : item[j] = "done"
          /\ run' = [run EXCEPT ![e].pc = "log_finish", ![e].moved = stay]
          /\ asset' = [a \in Asset |-> IF asset[a] = "old" THEN "stray" ELSE asset[a]]
      BY <1>11, <2>3 DEF Finish
    <3>s. \A a \in Asset : asset[a] = "old" => a \in stay
      OBVIOUS
    <3> HIDE DEF stay
    <3>2. /\ run'[e].pc = "log_finish" /\ run'[e].moved = stay
          /\ \A f \in Runners \ {e} : run'[f] = run[f]
      BY <1>j, <3>1 DEF TypeInv, RunTyped, RunPlaces
    <3>3. ASSUME NEW a \in Asset PROVE Found(a)'
      <4>1. CASE asset[a] = "old"
        BY <3>2, <3>s, <4>1 DEF Found, Carried
      <4>2. CASE asset[a] # "old"
        <5>1. \A f \in Runners : Carried(a, f) => Carried(a, f)'
          BY <2>1, <3>2 DEF Carried
        <5> QED
          BY <1>r, <2>1, <4>2, <5>1 DEF Found, Named
      <4> QED
        BY <4>1, <4>2
    <3>4. \A f \in Runners : RunSmooth(f)'
      BY <1>r, <2>1, <3>1, <3>2 DEF RunSmooth
    <3>5. job' # "rolled_back"
      BY <1>j, <2>1, Alone DEF Cancelling
    <3> QED
      BY <1>r, <2>1, <3>3, <3>4, <3>5 DEF RestoreInv
  <2> QED
    BY <2>2, <2>3
<1>12. CASE LogFinish(e)
  <2>1. /\ run[e].pc = "log_finish" /\ Works(e) /\ UNCHANGED <<up, job, item, asset, back>>
        /\ journal' = [journal EXCEPT ![1] = @ \cup run[e].moved] /\ Goto(e, "decide")
    BY <1>12, <1>n DEF LogFinish, Works
  <2>2. 1 \in Item /\ item[1] = "done"
    BY <1>r, <2>1, RenameAssumption DEF RunSmooth, Item
  <2>3. /\ journal'[1] = journal[1] \cup run[e].moved
        /\ \A j \in Item : journal[j] \subseteq journal'[j]
    BY <1>r, <2>1, <2>2
  <2>4. run'[e].pc = "decide" /\ \A f \in Runners \ {e} : run'[f] = run[f]
    BY <1>j, <2>1, GotoFields
  <2>5. ~ RollsBack /\ job' # "rolled_back"
    BY <1>j, <2>1, Alone DEF Cancelling
  <2>6. ASSUME NEW a \in Asset PROVE Found(a)'
    <3>1. CASE Carried(a, e)
      <4>1. Named(a, 1)'
        BY <2>1, <2>2, <2>3, <2>5, <3>1 DEF Named, Carried, RollsBack
      <4> QED
        BY <2>2, <4>1 DEF Found
    <3>2. CASE \E j \in Item : Named(a, j)
      BY <2>1, <2>3, <3>2 DEF Found, Named
    <3>3. CASE \E f \in Runners \ {e} : Carried(a, f)
      BY <2>4, <3>3 DEF Found, Carried
    <3>4. CASE asset[a] = "old"
      BY <2>1, <3>4 DEF Found
    <3> QED
      BY <1>r, <3>1, <3>2, <3>3, <3>4 DEF Found
  <2>7. \A f \in Runners : RunSmooth(f)'
    BY <1>r, <2>1, <2>4 DEF RunSmooth
  <2> QED
    BY <1>r, <2>1, <2>5, <2>6, <2>7 DEF RestoreInv
<1>13. CASE End(e) \/ JobFails(e)
  <2>1. /\ run'[e] = IdleRun /\ Works(e) /\ UNCHANGED <<up, asset, item, journal, back>>
        /\ run[e].pc = "end" /\ job' \in Ends
        /\ \A f \in Runners \ {e} : run'[f] = run[f]
    BY <1>13, <1>j, <1>n, <1>r DEF End, JobFails, EndJob, TypeInv, RunTyped, Works
  <2> QED
    BY <1>k, <2>1 DEF RunSmooth, Carried, IdleRun, Ends
<1> QED
  BY <1>1, <1>2, <1>3, <1>4, <1>5, <1>6, <1>7, <1>8, <1>9, <1>10, <1>11, <1>12, <1>13 DEF RunStep

LEMMA RestoreRollback ==
  ASSUME JournalInv, RestoreInv, RollbackAsk \/ RollbackStep
  PROVE  RestoreInv'
<1>0. PICK i : i = back.cur
  OBVIOUS
<1> USE <1>0
<1> SUFFICES ASSUME NoMishap' PROVE RestoreInv'
  BY DEF RestoreInv
<1>j. TypeInv /\ LockInv /\ StatusInv
  BY DEF JournalInv
<1>n. NoMishap /\ ~ Fault
  BY <1>j, MishapsStay DEF Next
<1>r. /\ back \in BackPlaces /\ (back.pc \in BackItemSteps => i \in Item)
      /\ RowsTyped /\ up /\ (\A f \in Runners : RunSmooth(f)) /\ (\A a \in Asset : Found(a))
      /\ job = "rolled_back" => AllRestored
      /\ BackStatus
  BY <1>j, <1>n DEF TypeInv, BackTyped, StatusInv, RestoreInv
<1>w. RollsBack => \A e \in Runners : ~ Works(e)
  BY <1>j, BackAlone
<1> USE DEF BackItemSteps, BackAt, BackUnchanged, rows, library
\* Steps that move the rollback's place only.
<1>k. ASSUME UNCHANGED <<up, run, asset, rows>>,
             back'.pc \in {"video", "move", "copying", "rows", "status"} =>
                 back.pc \in {"video", "move", "copying", "rows", "status"} /\ back'.cur = back.cur
      PROVE  RestoreInv'
  <2>1. \A a \in Asset, e \in Runners : Carried(a, e) => Carried(a, e)'
    BY <1>k DEF Carried
  <2>2. \A a \in Asset : Found(a)'
    BY <1>k, <1>r, <2>1, FoundStays
  <2> QED
    BY <1>k, <1>r, <2>2 DEF RestoreInv, RunSmooth, AllRestored
<1>1. CASE RollbackAsk \/ RollbackLock
  <2>1. back'.pc \in {"lock", "list", "idle"}
    <3> DEFINE p(S) == [IdleBack EXCEPT !.pc = "list", !.todo = S]
    <3>1. \A S : p(S).pc = "list"
      BY DEF IdleBack
    <3>2. RollbackLock => back' \in {IdleBack, p({j \in Item : item[j] = "done"})}
      BY DEF RollbackLock
    <3> HIDE DEF p
    <3>3. back \in BackPlaces
      BY <1>r
    <3> QED
      BY <1>1, <3>1, <3>2, <3>3 DEF RollbackAsk, IdleBack, BackPlaces
  <2>2. UNCHANGED <<up, run, asset, rows>>
    BY <1>1 DEF RollbackAsk, RollbackLock
  <2> QED
    BY <1>k, <2>1, <2>2
<1>2. CASE RollbackNext
  <2>1. back'.pc \in {"assets", "end"} /\ UNCHANGED <<up, run, asset, rows>>
    BY <1>2, <1>r DEF RollbackNext, BackPlaces
  <2> QED
    BY <1>k, <2>1
<1>3. CASE RollbackAssets
  <2>1. /\ i \in Item /\ back.pc = "assets" /\ asset' = Restored(journal[i])
        /\ back' = [back EXCEPT !.pc = "video"] /\ UNCHANGED <<up, run, rows>> /\ RollsBack
    BY <1>3, <1>n, <1>r DEF RollbackAssets, RollsBack
  <2>2. back'.pc = "video" /\ back'.cur = i
    BY <1>r, <2>1 DEF BackPlaces
  <2>3. ASSUME NEW a \in Asset PROVE Found(a)'
    <3>1. CASE a \in journal[i]
      BY <2>1, <3>1 DEF Found, Restored
    <3>2. CASE a \notin journal[i]
      <4>1. asset'[a] = asset[a]
        BY <2>1, <3>2 DEF Restored
      <4>2. \A j \in Item : Named(a, j) => Named(a, j)'
        BY <2>1, <2>2, <3>2 DEF Named
      <4>3. \A e \in Runners : Carried(a, e) => Carried(a, e)'
        BY <2>1 DEF Carried
      <4> QED
        BY <1>r, <4>1, <4>2, <4>3 DEF Found
    <3> QED
      BY <3>1, <3>2
  <2>4. \A f \in Runners : RunSmooth(f)'
    BY <1>r, <2>1 DEF RunSmooth
  <2>5. job' = "rolled_back" => AllRestored'
    BY <1>r, <2>1 DEF AllRestored, Restored
  <2> QED
    BY <1>r, <2>1, <2>3, <2>4, <2>5 DEF RestoreInv
<1>4. CASE RollbackVideo
  <2>1. \/ back' = [back EXCEPT !.pc = "move"]
        \/ back' = [back EXCEPT !.pc = "status", !.ok = FALSE]
        \/ back' = [back EXCEPT !.pc = "rows"]
        \/ back' = [back EXCEPT !.pc = "status"]
    BY <1>4 DEF RollbackVideo
  <2>2. back.pc = "video" /\ UNCHANGED <<up, run, asset, rows>>
    BY <1>4 DEF RollbackVideo
  <2> QED
    BY <1>r, <1>k, <2>1, <2>2 DEF BackPlaces
<1>5. CASE RollbackMove
  <2>1. \/ back' = [back EXCEPT !.pc = "copying"]
        \/ back' = [back EXCEPT !.pc = "status", !.ok = FALSE]
        \/ back' = [back EXCEPT !.pc = "rows"]
        \/ back' = [back EXCEPT !.pc = "status"]
    BY <1>5 DEF RollbackMove
  <2>2. back.pc \in {"move", "copying"} /\ UNCHANGED <<up, run, asset, rows>>
    BY <1>5 DEF RollbackMove
  <2> QED
    BY <1>r, <1>k, <2>1, <2>2 DEF BackPlaces
<1>6. CASE RollbackRows
  <2>1. back' = [back EXCEPT !.pc = "status"]
    BY <1>6, <1>n DEF RollbackRows
  <2>2. back.pc = "rows" /\ UNCHANGED <<up, run, asset, rows>>
    BY <1>6 DEF RollbackRows
  <2> QED
    BY <1>r, <1>k, <2>1, <2>2 DEF BackPlaces
<1>7. CASE RollbackStatus
  <2>1. PICK s \in {"rolled_back", "manual_intervention"} : item' = [item EXCEPT ![i] = s]
    BY <1>7 DEF RollbackStatus
  <2>2. /\ UNCHANGED <<up, run, asset, job, journal>> /\ back' = [back EXCEPT !.pc = "list"]
        /\ back.pc = "status" /\ i \in Item /\ RollsBack
    BY <1>7, <1>r DEF RollbackStatus, RollsBack
  <2>3. back'.pc = "list"
    BY <1>r, <2>2 DEF BackPlaces
  <2>4. item'[i] = s /\ \A j \in Item \ {i} : item'[j] = item[j]
    BY <1>r, <2>1, <2>2 DEF RowsTyped
  <2>5. ASSUME NEW a \in Asset PROVE Found(a)'
    <3>1. \A j \in Item : Named(a, j) => Named(a, j)'
      BY <2>2, <2>3, <2>4 DEF Named
    <3>2. \A e \in Runners : Carried(a, e) => Carried(a, e)'
      BY <2>2 DEF Carried
    <3> QED
      BY <1>r, <2>2, <3>1, <3>2 DEF Found
  <2>6. \A f \in Runners : RunSmooth(f)'
    BY <1>w, <2>2 DEF RunSmooth, Works, UndoSteps
  <2>7. job' = "rolled_back" => AllRestored'
    BY <1>r, <2>2, <2>4 DEF AllRestored
  <2> QED
    BY <1>r, <2>2, <2>5, <2>6, <2>7 DEF RestoreInv
<1>8. CASE RollbackEnd
  <2>1. /\ back.pc = "end" /\ RollsBack /\ back' = IdleBack
        /\ UNCHANGED <<up, run, asset, item, journal>>
    BY <1>8 DEF RollbackEnd, RollsBack
  <2>2. \A j \in Item : item[j] # "done"
    BY <1>r, <2>1 DEF BackStatus, RollsBack
  <2>3. \A a \in Asset : asset[a] = "old"
    BY <1>r, <1>w, <2>1, <2>2 DEF Found, Named, Carried, Works
  <2>4. AllRestored' /\ \A a \in Asset : Found(a)'
    BY <2>1, <2>2, <2>3 DEF AllRestored, Found
  <2>5. \A f \in Runners : RunSmooth(f)'
    BY <1>r, <2>1 DEF RunSmooth
  <2> QED
    BY <1>r, <2>1, <2>4, <2>5 DEF RestoreInv
<1> QED
  BY <1>1, <1>2, <1>3, <1>4, <1>5, <1>6, <1>7, <1>8 DEF RollbackStep

LEMMA RestoreStep == JournalInv /\ SettledInv /\ RestoreInv /\ [Next]_vars => RestoreInv'
<1> SUFFICES ASSUME JournalInv, SettledInv, RestoreInv, [Next]_vars, NoMishap' PROVE RestoreInv'
  BY DEF RestoreInv
<1>n. NoMishap /\ ~ Crash
  BY MishapsStay DEF JournalInv
<1> USE DEF rows, library, locks, threads
<1>1. CASE UNCHANGED vars \/ TransferSteps \/ LeasesEnd \/ CancelRead \/ CancelWrite
  <2>1. /\ UNCHANGED <<up, run, back, asset, item, journal>>
        /\ job' = job \/ job' \in Cancelling
    BY <1>1 DEF vars, TransferSteps, TransferStart, TransferCheck, TransferWrite, LeasesEnd, CancelRead,
                CancelWrite, Cancelling
  <2> QED
    BY <1>n, <2>1 DEF RestoreInv, RunSmooth, Found, Named, Carried, AllRestored, Cancelling
<1>2. CASE Restart
  BY <1>n, <1>2 DEF Restart, RestoreInv
<1> QED
  BY <1>n, <1>1, <1>2, RestoreRun, RestoreRollback DEF Next, TransferSteps

\* Where nothing failed or crashed, a rollback that ends leaves no item done and every asset
\* at its old place, the poster and what the end of the job took along included: whatever
\* moved is in the journal of an item that the rollback goes through.
THEOREM RestoredByRollback == Spec => []RollbackRestores
<1>1. RestoreInv => RollbackRestores
  BY DEF RestoreInv, NoMishap, AllRestored, RollbackRestores
<1> QED
  BY <1>1, RestoreInit, RestoreStep, SettledInvariant, PTL DEF Spec
=============================================================================
