---------------------- MODULE SubscriptionProgressProofs ----------------------
(***************************************************************************)
(* Theorems about SubscriptionProgress for any number of episodes and of   *)
(* scrape workers, either kind of library answer, and any mishaps.         *)
(***************************************************************************)
EXTENDS SubscriptionProgress, FiniteSetTheorems, TLAPS

\* A set of numbers that is not empty has a least element, and Min() is it.
LEMMA MinIsLeast ==
  ASSUME NEW S \in SUBSET Nat, S # {}
  PROVE  Min(S) \in S /\ \A n \in S : Min(S) <= n
<1> DEFINE R == OpToRel(<, Nat)
<1>1. ASSUME NEW x \in Nat, NEW y \in Nat, y < x
      PROVE  <<y, x>> \in R
  BY <1>1 DEF OpToRel
<1>2. IsWellFoundedOn(R, Nat)
  BY NatLessThanWellFounded
<1> HIDE DEF R
<1>3. PICK x \in S : \A y \in S : ~ (<<y, x>> \in R)
  BY <1>2, WFMin
<1>4. \A y \in S : ~ (y < x)
  BY <1>1, <1>3
<1>5. \A y \in S : x <= y
  BY <1>4
<1> QED
  BY <1>5 DEF Min

-----------------------------------------------------------------------------
(* The helpers *)

Rows == [there : BOOLEAN, state : States, current : Episode]

\* A list that has every episode of W on it moves CURRENT_EP past none of them.
LEMMA ListedRow ==
  ASSUME NEW r \in Rows, NEW missing \in SUBSET Episode
  PROVE  /\ Listed(r, missing) \in Rows
         /\ \A W \in SUBSET missing :
               W \subseteq r.current..Total => W \subseteq Listed(r, missing).current..Total
<1>1. CASE r.there /\ missing # {}
  <2> missing \in SUBSET Nat
    BY SubscriptionAssumption DEF Episode
  <2>1. Min(missing) \in missing /\ \A n \in missing : Min(missing) <= n
    BY <1>1, MinIsLeast
  <2>2. Listed(r, missing) = [r EXCEPT !.current = Min(missing)]
    BY <1>1 DEF Listed
  <2>3. Listed(r, missing).current = Min(missing)
    BY <2>2 DEF Rows
  <2>4. Listed(r, missing) \in Rows
    BY <2>1, <2>2 DEF Rows
  <2>5. \A n \in missing : n \in Min(missing)..Total
    BY <2>1, SubscriptionAssumption DEF Episode
  <2> QED
    BY <2>3, <2>4, <2>5
<1>2. CASE ~ (r.there /\ missing # {})
  BY <1>2 DEF Listed
<1> QED
  BY <1>1, <1>2

LEMMA MarkedRow ==
  ASSUME NEW r \in Rows, NEW state \in States
  PROVE  Marked(r, state) \in Rows /\ Marked(r, state).current = r.current
  BY DEF Marked, Rows

\* Workers are none of the other threads.
LEMMA ThreadsDiffer ==
  /\ \A w \in Workers : w \notin {"search", "rss", "tidy", "mend", "manual", "dead", None}
  /\ Workers \subseteq Thread /\ Strategy \subseteq Thread
  /\ {"tidy", "mend", "manual"} \subseteq Thread
  /\ \A e \in Episode : Scrape[e] \in Workers
  BY SubscriptionAssumption DEF Workers, Episode, Thread, Strategy

EpTyped == ep \in [Episode -> {"wanted", "active", "failed", "library"}]

LEMMA LibraryWanted ==
  Library \subseteq Episode /\ Wanted \subseteq Episode /\ Library \cap Wanted = {}
  BY DEF Library, Wanted

\* A download takes no episode out of the library and makes none wanted again.
LEMMA FetchedMoves ==
  ASSUME EpTyped, NEW got, ep' = Fetched(got)
  PROVE  /\ EpTyped' /\ Library' = Library /\ Wanted' = Wanted \ got
  BY DEF EpTyped, Fetched, Library, Wanted

\* So does every other step that concerns one episode.
LEMMA EpisodeMoves ==
  ASSUME EpTyped, NEW e \in Episode, NEW s \in {"active", "failed", "library"},
         ep[e] # "library", ep' = [ep EXCEPT ![e] = s]
  PROVE  /\ EpTyped' /\ Library \subseteq Library' /\ Wanted' = Wanted \ {e}
         /\ s = "library" => e \in Library'
  BY DEF EpTyped, Library, Wanted

-----------------------------------------------------------------------------
(* Types *)

Steps == {"idle", "check", "grab", "recheck", "write", "receipt", "event", "state", "list",
          "reopen", "history", "delete"}

RowTyped == sub \in Rows /\ (lack = None \/ lack \subseteq Episode) /\ history \in BOOLEAN
QueueTyped == tasks \subseteq Library /\ receipts \subseteq Library
LockTyped ==
    /\ lock \in [Lock -> Thread \cup {None, "dead"}]
    /\ lock["coordinator"] \in Strategy \cup {None, "dead"}
    /\ lock["progress"] \in Workers \cup {None, "dead"}
    /\ lock["finalize"] \in Workers \cup {"tidy", None, "dead"}
\* The places of a thread.
Threads == [pc : Steps, e : 0..Total, need : SUBSET Episode, got : SUBSET Episode]
ThreadsTyped == at \in [Thread -> Threads]

\* A worker is at work for an episode that is in the library, the handler of a failed
\* transfer for one of the season's.
BusyThreads ==
    /\ \A w \in Workers : at[w].pc # "idle" => at[w].e \in Library
    /\ at["mend"].pc # "idle" => at["mend"].e \in Episode

TypeInv == RowTyped /\ EpTyped /\ QueueTyped /\ LockTyped /\ ThreadsTyped /\ BusyThreads

LEMMA TypeInit == Init => TypeInv
<1> SUFFICES ASSUME Init PROVE TypeInv
  OBVIOUS
<1>1. RowTyped
  <2>1. 1 \in Episode
    BY SubscriptionAssumption DEF Episode
  <2> QED
    BY <2>1 DEF Init, RowTyped, Rows, States
<1>2. EpTyped /\ QueueTyped /\ LockTyped
  BY DEF Init, EpTyped, QueueTyped, LockTyped, Lock
<1>3. ThreadsTyped /\ BusyThreads
  BY SubscriptionAssumption, ThreadsDiffer DEF Init, ThreadsTyped, Threads, BusyThreads, Idle, Steps
<1> QED
  BY <1>1, <1>2, <1>3 DEF TypeInv

LEMMA IdleThread == Idle \in Threads /\ Idle.pc = "idle"
  BY SubscriptionAssumption DEF Idle, Threads, Steps

\* A thread moves: the others stay where they are.
LEMMA MoveTyped ==
  ASSUME TypeInv, NEW t \in Thread, NEW p \in Threads, at' = [at EXCEPT ![t] = p],
         Library \subseteq Library',
         t \in Workers => p.pc = "idle" \/ p.e \in Library',
         t = "mend" => p.pc = "idle" \/ p.e \in Episode
  PROVE  ThreadsTyped' /\ BusyThreads'
  BY ThreadsDiffer DEF TypeInv, ThreadsTyped, BusyThreads, Threads

LEMMA EndTyped ==
  ASSUME TypeInv, NEW t \in Thread, End(t), UNCHANGED <<ep, receipts>>
  PROVE  EpTyped' /\ QueueTyped' /\ LockTyped' /\ ThreadsTyped' /\ BusyThreads'
<1>1. Library' = Library
  BY DEF Library
<1>2. ThreadsTyped' /\ BusyThreads'
  BY <1>1, IdleThread, MoveTyped DEF End
<1>3. tasks' \subseteq tasks
  BY DEF End
<1>4. LockTyped'
  BY DEF TypeInv, LockTyped, End, Lock
<1> QED
  BY <1>1, <1>2, <1>3, <1>4 DEF TypeInv, EpTyped, QueueTyped

\* The tables and locks are left alone.
LEMMA StayTyped ==
  ASSUME TypeInv
  PROVE  /\ UNCHANGED row => RowTyped'
         /\ UNCHANGED ep => EpTyped' /\ Library' = Library
         /\ UNCHANGED <<ep, queue>> => QueueTyped'
         /\ UNCHANGED lock => LockTyped'
  BY DEF TypeInv, row, queue, RowTyped, EpTyped, QueueTyped, LockTyped, Library

\* The lists a thread reads.
LEMMA ListsTyped ==
  ASSUME TypeInv
  PROVE  /\ Missing \in SUBSET Episode /\ ListOrEmpty \in SUBSET Episode
         /\ EventMissing \in SUBSET Episode
         /\ \A need \in SUBSET Episode : Asked(need) \in SUBSET Episode
         /\ \A t \in Strategy : Remaining(t) \in SUBSET Episode
<1>1. Current..Total \subseteq Episode
  BY SubscriptionAssumption DEF TypeInv, RowTyped, Rows, Current, Episode
<1>2. \A need \in SUBSET Episode : Asked(need) \in SUBSET Episode
  BY DEF Asked
<1>3. \A t \in Strategy : Remaining(t) \in SUBSET Episode
  BY <1>2, ThreadsDiffer DEF Remaining, TypeInv, ThreadsTyped, Threads
<1> QED
  BY <1>1, <1>2, <1>3 DEF TypeInv, RowTyped, Missing, ListOrEmpty, EventMissing

LEMMA TypeFinish ==
  ASSUME TypeInv, NEW t \in Workers \cup Strategy \cup {"tidy"}, Finish(t)
  PROVE  TypeInv'
<1> t \in Thread
  BY ThreadsDiffer
<1>1. CASE FinishHistory(t)
  <2>1. RowTyped'
    BY <1>1 DEF FinishHistory, TypeInv, RowTyped
  <2>2. CASE End(t)
    BY <1>1, <2>1, <2>2, EndTyped DEF FinishHistory, TypeInv
  <2>3. CASE ~ End(t)
    <3>1. at' = [at EXCEPT ![t] = [at[t] EXCEPT !.pc = "delete"]] /\ UNCHANGED tasks
      BY <1>1, <2>3 DEF FinishHistory, Goto
    <3>2. UNCHANGED <<ep, queue>>
      BY <1>1, <3>1 DEF FinishHistory, queue
    <3>3. ThreadsTyped' /\ BusyThreads'
      <4>1. [at[t] EXCEPT !.pc = "delete"] \in Threads /\ [at[t] EXCEPT !.pc = "delete"].e = at[t].e
        BY DEF TypeInv, ThreadsTyped, Threads, Steps
      <4>2. at[t].pc # "idle"
        BY <1>1 DEF FinishHistory, At
      <4> QED
        BY <3>1, <3>2, <4>1, <4>2, MoveTyped, StayTyped, ThreadsDiffer DEF TypeInv, BusyThreads
    <3>4. LockTyped'
      BY <1>1, <2>3, ThreadsDiffer DEF FinishHistory, TypeInv, LockTyped, Locks, Lock
    <3> QED
      BY <2>1, <3>2, <3>3, <3>4, StayTyped DEF TypeInv
  <2> QED
    BY <2>2, <2>3
<1>2. CASE FinishDelete(t)
  <2>1. RowTyped'
    BY <1>2 DEF FinishDelete, TypeInv, RowTyped, Rows
  <2> QED
    BY <1>2, <2>1, EndTyped DEF FinishDelete, TypeInv
<1> QED
  BY <1>1, <1>2 DEF Finish

LEMMA TypeSearch ==
  ASSUME TypeInv,
         SearchRead \/ SearchYields \/ SearchCheck \/ SearchGrab \/ SearchWrite \/ SearchFails
         \/ Watchdog
  PROVE  TypeInv'
<1> DEFINE t == "search"
<1> t \in Thread /\ t \notin Workers /\ t # "mend" /\ at[t] \in Threads
  BY ThreadsDiffer DEF TypeInv, ThreadsTyped, Threads, Strategy
<1> HIDE DEF t
<1>r. sub \in Rows /\ (lack = None \/ lack \subseteq Episode) /\ history \in BOOLEAN
      /\ {"PENDING", "RUNNING", "SEARCHING", "COMPLETED", "ERROR"} \subseteq States
  BY DEF TypeInv, RowTyped, States
<1>1. CASE SearchRead
  <2>1. PICK p \in Threads : at' = [at EXCEPT ![t] = p]
    <3>1. [at[t] EXCEPT !.pc = "check", !.need = Missing] \in Threads
      BY ListsTyped DEF Threads, Steps
    <3> QED
      BY <1>1, <3>1 DEF SearchRead, t
  <2> QED
    BY <1>1, <2>1, MoveTyped, StayTyped DEF SearchRead, TypeInv
<1>2. CASE SearchYields
  <2>1. RowTyped'
    BY <1>2, <1>r, MarkedRow DEF SearchYields, RowTyped
  <2> QED
    BY <1>2, <2>1, EndTyped DEF SearchYields, TypeInv, t
<1>3. CASE SearchCheck
  <2> DEFINE found == IF Keyed THEN at[t].need \ Library ELSE at[t].need
  <2>1. found \in SUBSET Episode
    BY DEF Threads
  <2>2. RowTyped'
    <3>1. Marked(Listed(sub, found), "SEARCHING") \in Rows
      BY <1>r, <2>1, ListedRow, MarkedRow
    <3>2. sub' \in {sub, Marked(Listed(sub, found), "SEARCHING")} /\ lack' \in {lack, found}
          /\ history' = history
      BY <1>3 DEF SearchCheck, t
    <3> QED
      BY <1>r, <2>1, <3>1, <3>2 DEF RowTyped
  <2>3. PICK p \in Threads : at' = [at EXCEPT ![t] = p]
    <3>1. [Idle EXCEPT !.pc = "history"] \in Threads
      BY IdleThread DEF Threads, Steps
    <3>2. [at[t] EXCEPT !.pc = "grab", !.need = found] \in Threads
      BY <2>1 DEF Threads, Steps
    <3> QED
      BY <1>3, <3>1, <3>2 DEF SearchCheck, t
  <2>4. LockTyped'
    BY <1>3 DEF SearchCheck, TypeInv, LockTyped, Lock, Thread, Strategy
  <2> QED
    BY <1>3, <2>2, <2>3, <2>4, MoveTyped, StayTyped DEF SearchCheck, TypeInv
<1>4. CASE SearchGrab
  <2>1. PICK got \in SUBSET (Asked(at[t].need) \cap Wanted) :
           ep' = Fetched(got) /\ at' = [at EXCEPT ![t] = [@ EXCEPT !.pc = "recheck", !.got = got]]
    BY <1>4 DEF SearchGrab, t
  <2>2. [at[t] EXCEPT !.pc = "recheck", !.got = got] \in Threads
    BY LibraryWanted DEF Threads, Steps
  <2>3. EpTyped' /\ Library' = Library
    BY <2>1, FetchedMoves DEF TypeInv
  <2>4. QueueTyped'
    BY <1>4, <2>3 DEF SearchGrab, TypeInv, QueueTyped, queue
  <2> QED
    BY <1>4, <2>1, <2>2, <2>3, <2>4, MoveTyped, StayTyped DEF SearchGrab, TypeInv
<1>5. CASE SearchWrite
  <2>1. RowTyped'
    <3> DEFINE rest == Remaining("search")
    <3>1. rest \in SUBSET Episode
      BY ListsTyped DEF Strategy
    <3>2. sub' \in {sub, Marked(Listed(sub, rest), "RUNNING")} /\ lack' \in {lack, rest}
          /\ history' = history
      BY <1>5 DEF SearchWrite
    <3> HIDE DEF rest
    <3> QED
      BY <1>r, <3>1, <3>2, ListedRow, MarkedRow DEF RowTyped
  <2>2. CASE End(t)
    BY <1>5, <2>1, <2>2, EndTyped DEF SearchWrite, TypeInv
  <2>3. CASE ~ End(t)
    <3>1. [Idle EXCEPT !.pc = "history"] \in Threads
      BY IdleThread DEF Threads, Steps
    <3> QED
      BY <1>5, <2>1, <2>3, <3>1, MoveTyped, StayTyped DEF SearchWrite, TypeInv, t, queue
  <2> QED
    BY <2>2, <2>3
<1>6. CASE SearchFails
  <2>1. RowTyped'
    BY <1>6, <1>r, MarkedRow DEF SearchFails, RowTyped
  <2> QED
    BY <1>6, <2>1, EndTyped DEF SearchFails, TypeInv, t
<1>7. CASE Watchdog
  <2>1. RowTyped'
    BY <1>7, <1>r, MarkedRow DEF Watchdog, RowTyped
  <2> QED
    BY <1>7, <2>1, StayTyped DEF Watchdog, TypeInv, ThreadsTyped, BusyThreads
<1> QED
  BY <1>1, <1>2, <1>3, <1>4, <1>5, <1>6, <1>7

LEMMA TypeRss ==
  ASSUME TypeInv, RssRead \/ RssYields \/ RssGrab \/ RssWrite
  PROVE  TypeInv'
<1> DEFINE t == "rss"
<1> t \in Thread /\ t \notin Workers /\ t # "mend" /\ at[t] \in Threads
  BY ThreadsDiffer DEF TypeInv, ThreadsTyped, Threads, Strategy
<1> HIDE DEF t
<1>1. CASE RssRead
  <2>1. PICK p \in Threads : at' = [at EXCEPT ![t] = p]
    <3>1. [at[t] EXCEPT !.pc = "history"] \in Threads
      BY DEF Threads, Steps
    <3>2. ASSUME NEW need \in SUBSET Episode
          PROVE  [at[t] EXCEPT !.pc = "grab", !.need = need] \in Threads
      BY DEF Threads, Steps
    <3>3. Missing \in SUBSET Episode /\ Missing \ Library \in SUBSET Episode
      BY ListsTyped
    <3> QED
      BY <1>1, <3>1, <3>2, <3>3 DEF RssRead, t
  <2> QED
    BY <1>1, <2>1, MoveTyped, StayTyped DEF RssRead, TypeInv
<1>2. CASE RssYields
  BY <1>2, EndTyped, StayTyped DEF RssYields, TypeInv, t
<1>3. CASE RssGrab
  <2>1. PICK got \in SUBSET Asked(at[t].need) :
           /\ ep' = Fetched(got)
           /\ IF got = {} THEN End(t)
              ELSE /\ at' = [at EXCEPT ![t] = [@ EXCEPT !.pc = "write", !.got = got]]
                   /\ lock' = [lock EXCEPT !["coordinator"] = "rss"]
                   /\ UNCHANGED tasks
    BY <1>3 DEF RssGrab, t
  <2>2. EpTyped' /\ Library' = Library
    BY <2>1, FetchedMoves DEF TypeInv
  <2>3. got \in SUBSET Episode
    BY ListsTyped DEF Threads
  <2>4. PICK p \in Threads : at' = [at EXCEPT ![t] = p]
    <3>1. [at[t] EXCEPT !.pc = "write", !.got = got] \in Threads
      BY <2>3 DEF Threads, Steps
    <3> QED
      BY <2>1, <3>1, IdleThread DEF End
  <2>5. QueueTyped'
    BY <1>3, <2>1, <2>2 DEF RssGrab, TypeInv, QueueTyped, End
  <2>6. LockTyped'
    BY <2>1 DEF TypeInv, LockTyped, Lock, Thread, Strategy, End
  <2> QED
    BY <1>3, <2>2, <2>4, <2>5, <2>6, MoveTyped, StayTyped DEF RssGrab, TypeInv
<1>4. CASE RssWrite
  <2> DEFINE rest == Remaining("rss")
  <2>1. rest \in SUBSET Episode
    BY ListsTyped DEF Strategy
  <2>2. /\ sub' \in {Marked(Listed(sub, rest), "COMPLETED"), Marked(Listed(sub, rest), "RUNNING")}
        /\ lack' = rest /\ history' = history
    BY <1>4 DEF RssWrite
  <2> HIDE DEF rest
  <2>3. RowTyped'
    BY <2>1, <2>2, ListedRow, MarkedRow DEF TypeInv, RowTyped, States
  <2> QED
    BY <1>4, <2>3, EndTyped DEF RssWrite, TypeInv, t
<1> QED
  BY <1>1, <1>2, <1>3, <1>4

LEMMA TypeWorker ==
  ASSUME TypeInv, NEW w \in Workers,
         \/ ClaimReceipt(w) \/ EventDropped(w) \/ EventRead(w) \/ EventState(w)
         \/ EventWrite(w) \/ EventFails(w)
  PROVE  TypeInv'
<1> w \in Thread /\ w # "mend" /\ at[w] \in Threads
  BY ThreadsDiffer DEF TypeInv, ThreadsTyped, Threads
<1>e. at[w].pc # "idle" => at[w].e \in Library
  BY DEF TypeInv, BusyThreads
<1>p. \A pc \in Steps : /\ [at[w] EXCEPT !.pc = pc] \in Threads
                        /\ [at[w] EXCEPT !.pc = pc].e = at[w].e
  BY DEF Threads
<1>1. CASE ClaimReceipt(w)
  <2>1. at[w].e \in Library /\ Library' = Library
    BY <1>1, <1>e, StayTyped DEF ClaimReceipt, At
  <2>2. QueueTyped'
    BY <1>1, <2>1 DEF ClaimReceipt, End, TypeInv, QueueTyped
  <2>3. PICK p \in Threads : at' = [at EXCEPT ![w] = p] /\ (p.pc = "idle" \/ p.e = at[w].e)
    BY <1>1, <1>p, IdleThread DEF ClaimReceipt, End, Goto, Steps
  <2>4. LockTyped'
    BY <1>1 DEF ClaimReceipt, End, TypeInv, LockTyped, Lock
  <2> QED
    BY <1>1, <2>1, <2>2, <2>3, <2>4, MoveTyped, StayTyped DEF ClaimReceipt, TypeInv
<1>2. CASE EventDropped(w)
  BY <1>2, EndTyped, StayTyped DEF EventDropped, TypeInv
<1>3. CASE EventRead(w)
  <2> DEFINE rest == EventMissing \ {at[w].e}
  <2>1. rest \in SUBSET Episode
    BY ListsTyped
  <2>2. PICK p \in Threads : at' = [at EXCEPT ![w] = p] /\ p.e = at[w].e
    <3>1. \A pc \in Steps : [at[w] EXCEPT !.pc = pc, !.need = rest] \in Threads
      BY <2>1 DEF Threads
    <3>2. \A pc \in Steps : [at[w] EXCEPT !.pc = pc, !.need = rest].e = at[w].e
      BY DEF Threads
    <3> QED
      BY <1>3, <3>1, <3>2 DEF EventRead, Steps
  <2>3. at[w].e \in Library
    BY <1>3, <1>e DEF EventRead, At
  <2>4. LockTyped'
    BY <1>3 DEF EventRead, TypeInv, LockTyped, Lock
  <2> QED
    BY <1>3, <2>2, <2>3, <2>4, MoveTyped, StayTyped DEF EventRead, TypeInv
<1>4. CASE EventState(w)
  <2>1. RowTyped'
    BY <1>4, MarkedRow DEF EventState, TypeInv, RowTyped, States
  <2>2. at' = [at EXCEPT ![w] = [at[w] EXCEPT !.pc = "write"]] /\ at[w].e \in Library
    BY <1>4, <1>e DEF EventState, Goto, At
  <2> QED
    BY <1>4, <1>p, <2>1, <2>2, MoveTyped, StayTyped DEF EventState, TypeInv, Steps
<1>5. CASE EventWrite(w)
  <2>1. RowTyped'
    BY <1>5, ListedRow DEF EventWrite, TypeInv, RowTyped, Threads
  <2> QED
    BY <1>5, <2>1, EndTyped DEF EventWrite, TypeInv
<1>6. CASE EventFails(w)
  BY <1>6, EndTyped, StayTyped DEF EventFails, TypeInv
<1> QED
  BY <1>1, <1>2, <1>3, <1>4, <1>5, <1>6

LEMMA TypeTidy ==
  ASSUME TypeInv, TidyCheck
  PROVE  TypeInv'
<1> "tidy" \in Thread /\ "tidy" \notin Workers /\ at["tidy"] \in Threads
  BY ThreadsDiffer DEF TypeInv, ThreadsTyped, Threads
<1>1. RowTyped'
  BY MarkedRow DEF TidyCheck, TypeInv, RowTyped, States
<1>2. CASE End("tidy")
  BY <1>1, <1>2, EndTyped DEF TidyCheck, TypeInv
<1>3. CASE ~ End("tidy")
  <2>1. [at["tidy"] EXCEPT !.pc = "history"] \in Threads
    BY DEF Threads, Steps
  <2> QED
    BY <1>1, <1>3, <2>1, MoveTyped, StayTyped DEF TidyCheck, TypeInv, Goto, queue
<1> QED
  BY <1>2, <1>3

LEMMA TypeMend ==
  ASSUME TypeInv, Reopen \/ MendRead \/ MendWrite
  PROVE  TypeInv'
<1> DEFINE t == "mend"
<1> t \in Thread /\ t \notin Workers /\ at[t] \in Threads
  BY ThreadsDiffer DEF TypeInv, ThreadsTyped, Threads
<1>e. at[t].pc # "idle" => at[t].e \in Episode
  BY DEF TypeInv, BusyThreads
<1> HIDE DEF t
<1>1. CASE Reopen
  <2>1. RowTyped'
    BY <1>1, MarkedRow DEF Reopen, TypeInv, RowTyped, States
  <2>2. CASE End(t)
    BY <1>1, <2>1, <2>2, EndTyped DEF Reopen, TypeInv
  <2>3. CASE ~ End(t)
    <3>1. [at[t] EXCEPT !.pc = "list"] \in Threads /\ [at[t] EXCEPT !.pc = "list"].e = at[t].e
      BY DEF Threads, Steps
    <3>2. at[t].e \in Episode
      BY <1>1, <1>e DEF Reopen, At, t
    <3> QED
      BY <1>1, <2>1, <2>3, <3>1, <3>2, MoveTyped, StayTyped DEF Reopen, TypeInv, Goto, t, queue
  <2> QED
    BY <2>2, <2>3
<1>2. CASE MendRead
  <2> DEFINE rest == ListOrEmpty \cup {at[t].e}
  <2>1. rest \in SUBSET Episode /\ at[t].e \in Episode
    BY <1>2, <1>e, ListsTyped DEF MendRead, At, t
  <2>2. PICK p \in Threads : at' = [at EXCEPT ![t] = p] /\ p.e = at[t].e
    <3>1. at' = [at EXCEPT ![t] = [at[t] EXCEPT !.pc = "write", !.need = rest]]
      BY <1>2 DEF MendRead, TypeInv, ThreadsTyped, t
    <3> HIDE DEF rest
    <3>2. /\ [at[t] EXCEPT !.pc = "write", !.need = rest] \in Threads
          /\ [at[t] EXCEPT !.pc = "write", !.need = rest].e = at[t].e
      BY <2>1 DEF Threads, Steps
    <3> QED
      BY <3>1, <3>2
  <2> QED
    BY <1>2, <2>1, <2>2, MoveTyped, StayTyped DEF MendRead, TypeInv
<1>3. CASE MendWrite
  <2>1. RowTyped'
    BY <1>3, ListedRow DEF MendWrite, TypeInv, RowTyped, Threads, t
  <2> QED
    BY <1>3, <2>1, EndTyped DEF MendWrite, TypeInv, t
<1> QED
  BY <1>1, <1>2, <1>3

LEMMA TypeManual ==
  ASSUME TypeInv, ManualRead \/ ManualWrite
  PROVE  TypeInv'
<1> DEFINE t == "manual"
<1> t \in Thread /\ t \notin Workers /\ t # "mend" /\ at[t] \in Threads
  BY ThreadsDiffer DEF TypeInv, ThreadsTyped, Threads
<1> HIDE DEF t
<1>1. CASE ManualRead
  <2> DEFINE rest == ListOrEmpty \ {at[t].e}
  <2>1. rest \in SUBSET Episode
    BY ListsTyped
  <2>2. PICK p \in Threads : at' = [at EXCEPT ![t] = p]
    <3>1. at' = [at EXCEPT ![t] = [at[t] EXCEPT !.pc = "write", !.need = rest]]
      BY <1>1 DEF ManualRead, TypeInv, ThreadsTyped, t
    <3> HIDE DEF rest
    <3>2. [at[t] EXCEPT !.pc = "write", !.need = rest] \in Threads
      BY <2>1 DEF Threads, Steps
    <3> QED
      BY <3>1, <3>2
  <2> QED
    BY <1>1, <2>2, MoveTyped, StayTyped DEF ManualRead, TypeInv
<1>2. CASE ManualWrite
  <2> DEFINE rest == at["manual"].need
  <2>1. rest \in SUBSET Episode
    BY DEF Threads, t
  <2>2. /\ sub' \in {Marked(Listed(sub, rest), "COMPLETED"), Marked(Listed(sub, rest), "RUNNING")}
        /\ lack' \in {lack, rest} /\ history' = history
    BY <1>2 DEF ManualWrite
  <2> HIDE DEF rest
  <2>3. RowTyped'
    BY <2>1, <2>2, ListedRow, MarkedRow DEF TypeInv, RowTyped, States
  <2> QED
    BY <1>2, <2>3, EndTyped DEF ManualWrite, TypeInv, t
<1> QED
  BY <1>1, <1>2

LEMMA TypeEpisode ==
  ASSUME TypeInv, NEW e \in Episode,
         Transfer(e) \/ ScrapeTake(e) \/ TransferFails(e) \/ ManualDownload(e)
  PROVE  TypeInv'
<1>0. e \in 0..Total
  BY SubscriptionAssumption DEF Episode
<1> \A pc \in Steps : [Idle EXCEPT !.pc = pc, !.e = e] \in Threads
  BY <1>0, IdleThread DEF Threads
<1>p. \A pc \in Steps : [Idle EXCEPT !.pc = pc, !.e = e].e = e
  BY DEF Idle
<1>1. CASE Transfer(e)
  <2>1. EpTyped' /\ Library \subseteq Library' /\ e \in Library'
    BY <1>1, EpisodeMoves DEF Transfer, TypeInv
  <2>2. QueueTyped'
    BY <1>1, <2>1 DEF Transfer, TypeInv, QueueTyped
  <2>3. ThreadsTyped' /\ BusyThreads'
    BY <1>1, <2>1 DEF Transfer, TypeInv, ThreadsTyped, BusyThreads
  <2> QED
    BY <1>1, <2>1, <2>2, <2>3, StayTyped DEF Transfer, TypeInv
<1>2. CASE ScrapeTake(e)
  <2>1. e \in Library
    BY <1>2 DEF ScrapeTake, TypeInv, QueueTyped
  <2>2. Scrape[e] \in Thread /\ Scrape[e] # "mend"
    BY ThreadsDiffer
  <2> QED
    BY <1>2, <1>p, <2>1, <2>2, MoveTyped, StayTyped DEF ScrapeTake, TypeInv, Steps
<1>3. CASE TransferFails(e)
  <2>1. EpTyped' /\ Library \subseteq Library'
    BY <1>3, EpisodeMoves DEF TransferFails, TypeInv
  <2>2. QueueTyped'
    BY <1>3, <2>1 DEF TransferFails, TypeInv, QueueTyped, queue
  <2> QED
    BY <1>3, <1>p, <2>1, <2>2, ThreadsDiffer, MoveTyped, StayTyped
    DEF TransferFails, TypeInv, Steps
<1>4. CASE ManualDownload(e)
  <2>1. EpTyped' /\ Library \subseteq Library'
    BY <1>4, EpisodeMoves DEF ManualDownload, TypeInv
  <2>2. QueueTyped'
    BY <1>4, <2>1 DEF ManualDownload, TypeInv, QueueTyped, queue
  <2> QED
    BY <1>4, <1>p, <2>1, <2>2, ThreadsDiffer, MoveTyped, StayTyped
    DEF ManualDownload, TypeInv, Steps
<1> QED
  BY <1>1, <1>2, <1>3, <1>4

LEMMA TypeCrash ==
  ASSUME TypeInv, Crash \/ LeasesEnd
  PROVE  TypeInv'
<1>1. RowTyped' /\ EpTyped' /\ QueueTyped' /\ Library' = Library
  BY StayTyped DEF Crash, LeasesEnd, TypeInv
<1>2. LockTyped'
  BY DEF Crash, LeasesEnd, TypeInv, LockTyped, Lock
<1>3. ThreadsTyped' /\ BusyThreads'
  BY <1>1, IdleThread, ThreadsDiffer
  DEF Crash, LeasesEnd, TypeInv, ThreadsTyped, BusyThreads, Threads
<1> QED
  BY <1>1, <1>2, <1>3 DEF TypeInv

LEMMA TypeStep == TypeInv /\ [Next]_vars => TypeInv'
<1> SUFFICES ASSUME TypeInv, [Next]_vars PROVE TypeInv'
  OBVIOUS
<1>1. CASE UNCHANGED vars
  BY <1>1, StayTyped DEF vars, row, queue, TypeInv, ThreadsTyped, BusyThreads
<1>2. CASE SearchStep \/ SearchFails \/ Watchdog
  BY <1>2, TypeSearch, TypeFinish DEF SearchStep, Strategy
<1>3. CASE RssRead \/ RssStep
  BY <1>3, TypeRss, TypeFinish DEF RssStep, Strategy
<1>4. CASE \E w \in Workers : WorkerStep(w) \/ EventFails(w)
  BY <1>4, TypeWorker, TypeFinish DEF WorkerStep
<1>5. CASE TidyStep
  BY <1>5, TypeTidy, TypeFinish DEF TidyStep
<1> QED
  BY <1>1, <1>2, <1>3, <1>4, <1>5, TypeMend, TypeManual, TypeEpisode, TypeCrash DEF Next

\* Type correctness: a task is pending, and a receipt claimed, only for an episode that is
\* in the library, and no thread holds a lock that is not one of its own.
THEOREM TypeCorrect == Spec => []TypeOK
<1>1. TypeInv => TypeOK
  BY DEF TypeInv, TypeOK, RowTyped, Rows, EpTyped, QueueTyped, LockTyped, ThreadsTyped, Threads
<1> QED
  BY <1>1, TypeInit, TypeStep, PTL DEF Spec

-----------------------------------------------------------------------------
(* The list of missing episodes *)

\* What place p of thread t owes to a set W of episodes nobody has fetched: the list it has
\* read, and will write, has all of them on it; if it is about to finish the subscription,
\* there are none.
Owes(t, p, W) ==
    /\ p.pc \in {"history", "delete"} => W = {}
    /\ t \in Strategy /\ p.pc \in {"check", "grab"} => W \subseteq p.need
    /\ t \in Strategy /\ p.pc \in {"recheck", "write"} => W \subseteq Asked(p.need) \ p.got
    /\ t \in Strategy /\ p.pc = "write" => p.got # {}
    /\ t \in Workers /\ p.pc \in {"state", "write"} => W \subseteq p.need
    /\ t = "manual" /\ p.pc \in {"list", "write"} => p.e \notin W
    /\ t = "manual" /\ p.pc = "write" => p.need = {} \/ W \subseteq p.need
    /\ t = "mend" => p.pc = "idle"

ListComplete == lack = None \/ Wanted \subseteq lack
CurrentBehind == Wanted \subseteq sub.current..Total
ThreadsOwe == \A t \in Thread : Owes(t, at[t], Wanted)
HistoryLast == history => Wanted = {}

\* Every copy of the list that is still to be written, and CURRENT_EP, from which a lost
\* list is made again, cover what nobody has fetched yet.
Complete == ListComplete /\ CurrentBehind /\ ThreadsOwe /\ HistoryLast
ListInv == Undisturbed => Complete

LEMMA ListInit == Init => ListInv
<1> SUFFICES ASSUME Init PROVE Complete
  BY DEF ListInv
<1>1. ListComplete /\ HistoryLast
  BY DEF Init, ListComplete, HistoryLast
<1>2. CurrentBehind
  BY DEF Init, CurrentBehind, Wanted, Episode
<1>3. ThreadsOwe
  BY DEF Init, ThreadsOwe, Owes, Idle
<1> QED
  BY <1>1, <1>2, <1>3 DEF Complete

\* A step that fetches episodes, or writes nothing, owes no more than before.
LEMMA OwesLess ==
  ASSUME NEW t, NEW p, NEW W, NEW V \in SUBSET W, Owes(t, p, W)
  PROVE  Owes(t, p, V)
  BY DEF Owes

LEMMA IdleOwes == \A t, W : Owes(t, Idle, W)
  BY DEF Owes, Idle

LEMMA MoveOwes ==
  ASSUME TypeInv, Complete, NEW t \in Thread, NEW p, at' = [at EXCEPT ![t] = p],
         Wanted' \subseteq Wanted, Owes(t, p, Wanted')
  PROVE  ThreadsOwe'
<1>1. ASSUME NEW s \in Thread PROVE Owes(s, at'[s], Wanted')
  <2>1. Owes(s, at[s], Wanted')
    BY OwesLess DEF Complete, ThreadsOwe
  <2>2. CASE s = t
    BY <2>2 DEF TypeInv, ThreadsTyped
  <2>3. CASE s # t
    BY <2>1, <2>3 DEF TypeInv, ThreadsTyped
  <2> QED
    BY <2>2, <2>3
<1>2. ThreadsOwe' <=> \A s \in Thread : Owes(s, at'[s], Wanted')
  BY DEF ThreadsOwe, Owes, Asked, Strategy, Workers, Episode
<1> QED
  BY <1>1, <1>2

LEMMA EndOwes ==
  ASSUME TypeInv, Complete, NEW t \in Thread, End(t), Wanted' \subseteq Wanted
  PROVE  ThreadsOwe'
  BY IdleOwes, MoveOwes DEF End

\* Nothing is forgotten by a step that leaves the tables alone.
LEMMA StayComplete ==
  ASSUME TypeInv, Complete, Wanted' \subseteq Wanted
  PROVE  /\ UNCHANGED lack => ListComplete'
         /\ UNCHANGED sub => CurrentBehind'
         /\ UNCHANGED history => HistoryLast'
         /\ UNCHANGED at => ThreadsOwe'
<1>1. UNCHANGED at => ThreadsOwe'
  BY OwesLess DEF Complete, ThreadsOwe, Owes
<1> QED
  BY <1>1 DEF Complete, ListComplete, CurrentBehind, HistoryLast

\* What a thread reads has every wanted episode.
LEMMA ListsComplete ==
  ASSUME TypeInv, Complete
  PROVE  /\ Wanted \subseteq Missing /\ Wanted \subseteq EventMissing
         /\ ListOrEmpty = {} \/ Wanted \subseteq ListOrEmpty
         /\ \A need \in SUBSET Episode : Wanted \subseteq need => Wanted \subseteq Asked(need)
<1>1. Wanted \subseteq Current..Total
  BY LibraryWanted DEF Complete, CurrentBehind, Current, Episode
<1> QED
  BY <1>1, LibraryWanted DEF Complete, ListComplete, Missing, EventMissing, ListOrEmpty, Asked

\* A list that is written with every wanted episode on it.
LEMMA WrittenBehind ==
  ASSUME TypeInv, Complete, UNCHANGED ep, NEW missing \in SUBSET Episode, Wanted \subseteq missing,
         NEW state \in States,
         sub' \in {Listed(sub, missing), Marked(Listed(sub, missing), state)}
  PROVE  CurrentBehind' /\ Wanted' = Wanted
<1>1. Wanted' = Wanted
  BY DEF Wanted
<1>2. Listed(sub, missing) \in Rows /\ Wanted \subseteq Listed(sub, missing).current..Total
  BY ListedRow DEF TypeInv, RowTyped, Complete, CurrentBehind
<1>3. sub'.current = Listed(sub, missing).current
  BY <1>2, MarkedRow
<1> QED
  BY <1>1, <1>2, <1>3 DEF CurrentBehind

LEMMA MarkedBehind ==
  ASSUME TypeInv, Complete, UNCHANGED ep, NEW state \in States, sub' \in {sub, Marked(sub, state)}
  PROVE  CurrentBehind' /\ Wanted' = Wanted
<1>1. Wanted' = Wanted
  BY DEF Wanted
<1>2. sub'.current = sub.current
  BY MarkedRow DEF TypeInv, RowTyped
<1> QED
  BY <1>1, <1>2 DEF Complete, CurrentBehind

LEMMA CompleteFinish ==
  ASSUME TypeInv, Complete, NEW t \in Workers \cup Strategy \cup {"tidy"}, Finish(t)
  PROVE  Complete'
<1> t \in Thread
  BY ThreadsDiffer
<1>1. Owes(t, at[t], Wanted)
  BY DEF Complete, ThreadsOwe
<1>2. Wanted' = Wanted
  BY DEF Finish, FinishHistory, FinishDelete, Wanted
<1>3. Wanted = {}
  BY <1>1 DEF Finish, FinishHistory, FinishDelete, At, Owes
<1>4. ThreadsOwe'
  <2>1. CASE End(t)
    BY <1>2, <2>1, EndOwes
  <2>2. CASE ~ End(t)
    <3>1. at' = [at EXCEPT ![t] = [at[t] EXCEPT !.pc = "delete"]]
      BY <2>2 DEF Finish, FinishHistory, FinishDelete, Goto
    <3>2. [at[t] EXCEPT !.pc = "delete"].pc = "delete" /\ at[t].pc = "history"
      BY <2>2 DEF Finish, FinishHistory, FinishDelete, At, TypeInv, ThreadsTyped
    <3>3. t # "mend" /\ t # "manual"
      BY ThreadsDiffer DEF Strategy
    <3> QED
      BY <1>2, <1>3, <3>1, <3>2, <3>3, MoveOwes DEF Owes
  <2> QED
    BY <2>1, <2>2
<1> QED
  BY <1>2, <1>3, <1>4 DEF Complete, ListComplete, CurrentBehind, HistoryLast

LEMMA CompleteSearch ==
  ASSUME TypeInv, Complete,
         SearchRead \/ SearchYields \/ SearchCheck \/ SearchGrab \/ SearchWrite \/ SearchFails
         \/ Watchdog
  PROVE  Complete'
<1> DEFINE t == "search"
<1> t \in Thread /\ t \in Strategy /\ t \notin Workers /\ t # "mend" /\ t # "manual"
    /\ at[t] \in Threads
  BY ThreadsDiffer DEF TypeInv, ThreadsTyped, Threads, Strategy
<1>0. Owes(t, at[t], Wanted)
  BY DEF Complete, ThreadsOwe
<1> HIDE DEF t
<1>1. CASE SearchRead
  <2>1. Wanted' = Wanted
    BY <1>1 DEF SearchRead, Wanted
  <2> DEFINE p == [at[t] EXCEPT !.pc = "check", !.need = Missing]
  <2>2. at' = [at EXCEPT ![t] = p] /\ p.pc = "check" /\ p.need = Missing
    BY <1>1 DEF SearchRead, t, Threads
  <2> HIDE DEF p
  <2>3. ThreadsOwe'
    BY <2>1, <2>2, ListsComplete, MoveOwes DEF Owes
  <2> QED
    BY <1>1, <2>1, <2>3, StayComplete DEF SearchRead, row, Complete
<1>2. CASE SearchYields
  <2>1. CurrentBehind' /\ Wanted' = Wanted
    BY <1>2, MarkedBehind DEF SearchYields, States
  <2> QED
    BY <1>2, <2>1, StayComplete, EndOwes DEF SearchYields, Complete, t
<1>3. CASE SearchCheck
  <2> DEFINE found == IF Keyed THEN at[t].need \ Library ELSE at[t].need
  <2>0. Wanted \subseteq at[t].need
    BY <1>0, <1>3 DEF SearchCheck, At, Owes, t
  <2>1. found \in SUBSET Episode /\ Wanted \subseteq found
    BY <2>0, LibraryWanted DEF Threads
  <2>2. Wanted' = Wanted
    BY <1>3 DEF SearchCheck, Wanted
  <2>3. CASE Library = Episode
    <3>1. Wanted = {}
      BY <2>3, LibraryWanted
    <3>2. ThreadsOwe'
      BY <1>3, <2>2, <2>3, <3>1, MoveOwes DEF SearchCheck, Owes, Idle, t
    <3> QED
      BY <1>3, <2>2, <3>1, <3>2 DEF SearchCheck, Complete, ListComplete, CurrentBehind, HistoryLast
  <2>4. CASE Library # Episode
    <3> DEFINE p == [at[t] EXCEPT !.pc = "grab", !.need = found]
    <3>1. /\ at' = [at EXCEPT ![t] = p] /\ lack' \in {lack, found} /\ history' = history
          /\ sub' = Marked(Listed(sub, found), "SEARCHING") /\ UNCHANGED ep
      BY <1>3, <2>4 DEF SearchCheck, t
    <3> HIDE DEF found
    <3>2. p.pc = "grab" /\ p.need = found
      BY DEF Threads
    <3> HIDE DEF p
    <3>3. ThreadsOwe'
      BY <2>1, <2>2, <3>1, <3>2, MoveOwes DEF Owes
    <3>4. CurrentBehind'
      BY <2>1, <3>1, WrittenBehind DEF States
    <3> QED
      BY <2>1, <2>2, <3>1, <3>3, <3>4 DEF Complete, ListComplete, HistoryLast
  <2> QED
    BY <2>3, <2>4
<1>4. CASE SearchGrab
  <2>1. PICK got \in SUBSET (Asked(at[t].need) \cap Wanted) :
           ep' = Fetched(got) /\ at' = [at EXCEPT ![t] = [@ EXCEPT !.pc = "recheck", !.got = got]]
    BY <1>4 DEF SearchGrab, t
  <2> DEFINE p == [at[t] EXCEPT !.pc = "recheck", !.got = got]
  <2>2. p.pc = "recheck" /\ p.got = got /\ p.need = at[t].need
    BY DEF Threads
  <2>3. at' = [at EXCEPT ![t] = p]
    BY <2>1
  <2> HIDE DEF p
  <2>4. Wanted' = Wanted \ got
    BY <2>1, FetchedMoves DEF TypeInv
  <2>5. Wanted \subseteq Asked(at[t].need)
    BY <1>0, <1>4, ListsComplete DEF SearchGrab, At, Owes, Threads, t
  <2>6. ThreadsOwe'
    BY <2>2, <2>3, <2>4, <2>5, MoveOwes DEF Owes
  <2> QED
    BY <1>4, <2>4, <2>6, StayComplete DEF SearchGrab, row, Complete
<1>5. CASE SearchWrite
  <2> DEFINE rest == Remaining(t)
  <2>1. rest \in SUBSET Episode
    BY ListsTyped
  <2>2. Wanted \subseteq Asked(at[t].need) \ at[t].got
    BY <1>0, <1>5 DEF SearchWrite, At, Owes, t
  <2>3. Wanted' = Wanted
    BY <1>5 DEF SearchWrite, Wanted
  <2>4. CASE Library = Episode
    <3>1. Wanted = {}
      BY <2>4, LibraryWanted
    <3>2. ThreadsOwe'
      BY <1>5, <2>3, <2>4, <3>1, MoveOwes DEF SearchWrite, Owes, Idle, t
    <3> QED
      BY <1>5, <2>3, <3>1, <3>2 DEF SearchWrite, Complete, ListComplete, CurrentBehind, HistoryLast
  <2>5. CASE Library # Episode /\ at[t].need = {} /\ at[t].got = {}
    <3>1. sub' = Marked(sub, "RUNNING") /\ lack' = lack
      BY <1>5, <2>5 DEF SearchWrite, Remaining, Listed, t
    <3> QED
      BY <1>5, <2>3, <2>5, <3>1, MarkedBehind, EndOwes, StayComplete
      DEF SearchWrite, Complete, States, t
  <2>6. CASE Library # Episode /\ ~ (at[t].need = {} /\ at[t].got = {})
    <3>1. Wanted \subseteq rest
      BY <2>2, <2>6 DEF Remaining
    <3>2. sub' = Marked(Listed(sub, rest), "RUNNING") /\ lack' = rest /\ End(t)
          /\ UNCHANGED <<history, ep>>
      BY <1>5, <2>6 DEF SearchWrite, t
    <3> HIDE DEF rest
    <3>3. CurrentBehind'
      BY <2>1, <3>1, <3>2, WrittenBehind DEF States
    <3> QED
      BY <2>3, <3>1, <3>2, <3>3, EndOwes, StayComplete DEF Complete, ListComplete
  <2> QED
    BY <2>4, <2>5, <2>6
<1>6. CASE SearchFails
  <2>1. CurrentBehind' /\ Wanted' = Wanted
    BY <1>6, MarkedBehind DEF SearchFails, States
  <2> QED
    BY <1>6, <2>1, StayComplete, EndOwes DEF SearchFails, Complete, t
<1>7. CASE Watchdog
  <2>1. CurrentBehind' /\ Wanted' = Wanted
    BY <1>7, MarkedBehind DEF Watchdog, States
  <2> QED
    BY <1>7, <2>1, StayComplete DEF Watchdog, Complete
<1> QED
  BY <1>1, <1>2, <1>3, <1>4, <1>5, <1>6, <1>7

LEMMA CompleteRss ==
  ASSUME TypeInv, Complete, RssRead \/ RssYields \/ RssGrab \/ RssWrite
  PROVE  Complete'
<1> DEFINE t == "rss"
<1> t \in Thread /\ t \in Strategy /\ t \notin Workers /\ t # "mend" /\ t # "manual"
    /\ at[t] \in Threads
  BY ThreadsDiffer DEF TypeInv, ThreadsTyped, Threads, Strategy
<1>0. Owes(t, at[t], Wanted)
  BY DEF Complete, ThreadsOwe
<1> HIDE DEF t
<1>1. CASE RssRead
  <2>1. Wanted' = Wanted
    BY <1>1 DEF RssRead, Wanted
  <2>2. CASE Library = Episode
    <3>1. Wanted = {}
      BY <2>2, LibraryWanted
    <3>2. at' = [at EXCEPT ![t] = [at[t] EXCEPT !.pc = "history"]]
          /\ [at[t] EXCEPT !.pc = "history"].pc = "history"
      BY <1>1, <2>2 DEF RssRead, Threads, t
    <3>3. ThreadsOwe'
      BY <2>1, <3>1, <3>2, MoveOwes DEF Owes
    <3> QED
      BY <1>1, <2>1, <3>3, StayComplete DEF RssRead, row, Complete
  <2>3. CASE Library # Episode
    <3> DEFINE need == IF Keyed THEN Missing \ Library ELSE Missing
               p == [at[t] EXCEPT !.pc = "grab", !.need = need]
    <3>1. at' = [at EXCEPT ![t] = p]
      BY <1>1, <2>3 DEF RssRead, t
    <3>2. Wanted \subseteq need
      BY LibraryWanted, ListsComplete
    <3> HIDE DEF need
    <3>3. p.pc = "grab" /\ p.need = need
      BY DEF Threads
    <3> HIDE DEF p
    <3>4. ThreadsOwe'
      BY <2>1, <3>1, <3>2, <3>3, MoveOwes DEF Owes
    <3> QED
      BY <1>1, <2>1, <3>4, StayComplete DEF RssRead, row, Complete
  <2> QED
    BY <2>2, <2>3
<1>2. CASE RssYields
  <2>1. Wanted' = Wanted
    BY <1>2 DEF RssYields, Wanted
  <2> QED
    BY <1>2, <2>1, EndOwes, StayComplete DEF RssYields, row, Complete, t
<1>3. CASE RssGrab
  <2>1. PICK got \in SUBSET Asked(at[t].need) :
           /\ ep' = Fetched(got)
           /\ \/ End(t)
              \/ got # {} /\ at' = [at EXCEPT ![t] = [@ EXCEPT !.pc = "write", !.got = got]]
    BY <1>3 DEF RssGrab, t
  <2>2. Wanted' = Wanted \ got
    BY <2>1, FetchedMoves DEF TypeInv
  <2>3. CASE End(t)
    BY <1>3, <2>2, <2>3, EndOwes, StayComplete DEF RssGrab, row, Complete
  <2>4. CASE ~ End(t)
    <3> DEFINE p == [at[t] EXCEPT !.pc = "write", !.got = got]
    <3>1. at' = [at EXCEPT ![t] = p] /\ got # {}
      BY <2>1, <2>4
    <3>2. p.pc = "write" /\ p.got = got /\ p.need = at[t].need
      BY DEF Threads
    <3> HIDE DEF p
    <3>3. Wanted \subseteq Asked(at[t].need)
      BY <1>0, <1>3, ListsComplete DEF RssGrab, At, Owes, Threads, t
    <3>4. ThreadsOwe'
      BY <2>2, <3>1, <3>2, <3>3, MoveOwes DEF Owes
    <3> QED
      BY <1>3, <2>2, <3>4, StayComplete DEF RssGrab, row, Complete
  <2> QED
    BY <2>3, <2>4
<1>4. CASE RssWrite
  <2> DEFINE rest == Remaining(t)
  <2>1. rest \in SUBSET Episode
    BY ListsTyped
  <2>2. Wanted \subseteq Asked(at[t].need) \ at[t].got
    BY <1>0, <1>4 DEF RssWrite, At, Owes, t
  <2>3. Wanted \subseteq rest
    BY <1>0, <1>4, <2>2 DEF RssWrite, At, Owes, Remaining, t
  <2>4. PICK state \in {"COMPLETED", "RUNNING"} :
           /\ sub' = Marked(Listed(sub, rest), state) /\ lack' = rest /\ End(t)
           /\ UNCHANGED <<history, ep>>
    BY <1>4 DEF RssWrite, t
  <2> HIDE DEF rest
  <2>5. CurrentBehind' /\ Wanted' = Wanted
    BY <2>1, <2>3, <2>4, WrittenBehind DEF States
  <2> QED
    BY <2>3, <2>4, <2>5, EndOwes, StayComplete DEF Complete, ListComplete
<1> QED
  BY <1>1, <1>2, <1>3, <1>4

LEMMA CompleteWorker ==
  ASSUME TypeInv, Complete, NEW w \in Workers,
         \/ ClaimReceipt(w) \/ EventDropped(w) \/ EventRead(w) \/ EventState(w)
         \/ EventWrite(w) \/ EventFails(w)
  PROVE  Complete'
<1>w. /\ w \in Thread /\ w \notin Strategy /\ w # "mend" /\ w # "manual" /\ at[w] \in Threads
      /\ Owes(w, at[w], Wanted)
  BY ThreadsDiffer DEF TypeInv, ThreadsTyped, Threads, Strategy, Complete, ThreadsOwe
<1>0. UNCHANGED ep /\ Wanted' = Wanted
  BY DEF ClaimReceipt, EventDropped, EventRead, EventState, EventWrite, EventFails, Wanted, End
<1>1. CASE ClaimReceipt(w)
  <2>1. CASE End(w)
    BY <1>w, <1>0, <1>1, <2>1, EndOwes, StayComplete DEF ClaimReceipt, row, Complete
  <2>2. CASE ~ End(w)
    <3>1. at' = [at EXCEPT ![w] = [at[w] EXCEPT !.pc = "event"]]
          /\ [at[w] EXCEPT !.pc = "event"].pc = "event"
      BY <1>w, <1>1, <2>2 DEF ClaimReceipt, Goto, Threads
    <3>2. ThreadsOwe'
      BY <1>w, <1>0, <3>1, MoveOwes DEF Owes
    <3> QED
      BY <1>0, <1>1, <3>2, StayComplete DEF ClaimReceipt, row, Complete
  <2> QED
    BY <2>1, <2>2
<1>2. CASE EventDropped(w)
  BY <1>w, <1>0, <1>2, EndOwes, StayComplete DEF EventDropped, row, Complete
<1>3. CASE EventRead(w)
  <2> DEFINE rest == EventMissing \ {at[w].e}
             pc == IF rest = {} THEN "history" ELSE "state"
             p == [at[w] EXCEPT !.pc = pc, !.need = rest]
  <2>1. Wanted \subseteq rest
    BY <1>3, ListsComplete, LibraryWanted DEF EventRead, At, TypeInv, BusyThreads
  <2>2. at' = [at EXCEPT ![w] = p]
    BY <1>3 DEF EventRead
  <2> HIDE DEF rest
  <2>3. p.pc = pc /\ p.need = rest
    BY <1>w DEF Threads
  <2> HIDE DEF p
  <2>4. ThreadsOwe'
    BY <1>w, <1>0, <2>1, <2>2, <2>3, MoveOwes DEF Owes
  <2> QED
    BY <1>0, <1>3, <2>4, StayComplete DEF EventRead, row, Complete
<1>4. CASE EventState(w)
  <2>1. CurrentBehind'
    BY <1>4, MarkedBehind DEF EventState, States
  <2>2. at' = [at EXCEPT ![w] = [at[w] EXCEPT !.pc = "write"]] /\ at[w].pc = "state"
    BY <1>4 DEF EventState, Goto, At
  <2>3. [at[w] EXCEPT !.pc = "write"].pc = "write" /\ [at[w] EXCEPT !.pc = "write"].need = at[w].need
    BY <1>w DEF Threads
  <2>4. ThreadsOwe'
    BY <1>w, <1>0, <2>2, <2>3, MoveOwes DEF Owes
  <2> QED
    BY <1>0, <1>4, <2>1, <2>4, StayComplete DEF EventState, Complete
<1>5. CASE EventWrite(w)
  <2>1. Wanted \subseteq at[w].need /\ at[w].need \in SUBSET Episode
    BY <1>w, <1>5 DEF EventWrite, At, Owes, Threads
  <2>2. CurrentBehind'
    BY <1>5, <2>1, WrittenBehind DEF EventWrite, States
  <2> QED
    BY <1>w, <1>0, <1>5, <2>1, <2>2, EndOwes, StayComplete DEF EventWrite, Complete, ListComplete
<1>6. CASE EventFails(w)
  BY <1>w, <1>0, <1>6, EndOwes, StayComplete DEF EventFails, row, Complete
<1> QED
  BY <1>1, <1>2, <1>3, <1>4, <1>5, <1>6

LEMMA CompleteManual ==
  ASSUME TypeInv, Complete, ManualRead \/ ManualWrite
  PROVE  Complete'
<1> DEFINE t == "manual"
<1> t \in Thread /\ t \notin Workers /\ t \notin Strategy /\ t # "mend" /\ at[t] \in Threads
  BY ThreadsDiffer DEF TypeInv, ThreadsTyped, Threads, Strategy
<1>0. Owes(t, at[t], Wanted)
  BY DEF Complete, ThreadsOwe
<1> HIDE DEF t
<1>1. CASE ManualRead
  <2> DEFINE rest == ListOrEmpty \ {at[t].e}
             p == [at[t] EXCEPT !.pc = "write", !.need = rest]
  <2>1. Wanted' = Wanted
    BY <1>1 DEF ManualRead, Wanted
  <2>2. at[t].e \notin Wanted
    BY <1>0, <1>1 DEF ManualRead, At, Owes, t
  <2>3. rest = {} \/ Wanted \subseteq rest
    BY <2>2, ListsComplete
  <2>4. at' = [at EXCEPT ![t] = p]
    BY <1>1 DEF ManualRead, TypeInv, ThreadsTyped, t
  <2> HIDE DEF rest
  <2>5. p.pc = "write" /\ p.need = rest /\ p.e = at[t].e
    BY DEF Threads
  <2> HIDE DEF p
  <2>6. ThreadsOwe'
    BY <2>1, <2>2, <2>3, <2>4, <2>5, MoveOwes DEF Owes
  <2> QED
    BY <1>1, <2>1, <2>6, StayComplete DEF ManualRead, row, Complete
<1>2. CASE ManualWrite
  <2> DEFINE rest == at["manual"].need
  <2>1. rest \in SUBSET Episode /\ (rest = {} \/ Wanted \subseteq rest)
    BY <1>0, <1>2 DEF ManualWrite, At, Owes, Threads, t
  <2>2. PICK state \in {"COMPLETED", "RUNNING"} :
           /\ sub' = Marked(Listed(sub, rest), state) /\ End(t)
           /\ lack' = IF rest = {} THEN lack ELSE rest
           /\ UNCHANGED <<history, ep>>
    BY <1>2 DEF ManualWrite, t
  <2> HIDE DEF rest
  <2>3. CurrentBehind' /\ Wanted' = Wanted
    <3>1. CASE rest = {}
      BY <2>2, <3>1, MarkedBehind DEF Listed, States
    <3>2. CASE rest # {}
      BY <2>1, <2>2, <3>2, WrittenBehind DEF States
    <3> QED
      BY <3>1, <3>2
  <2> QED
    BY <2>1, <2>2, <2>3, EndOwes, StayComplete DEF Complete, ListComplete
<1> QED
  BY <1>1, <1>2

LEMMA CompleteTidy ==
  ASSUME TypeInv, Complete, TidyCheck
  PROVE  Complete'
<1>t. "tidy" \in Thread /\ "tidy" \notin Workers /\ "tidy" \notin Strategy /\ at["tidy"] \in Threads
  BY ThreadsDiffer DEF TypeInv, ThreadsTyped, Threads, Strategy
<1>1. CurrentBehind' /\ Wanted' = Wanted
  BY MarkedBehind DEF TidyCheck, States
<1>2. CASE End("tidy")
  BY <1>t, <1>1, <1>2, EndOwes, StayComplete DEF TidyCheck, Complete
<1>3. CASE ~ End("tidy")
  <2>1. Wanted = {}
    BY <1>3, LibraryWanted DEF TidyCheck
  <2>2. at' = [at EXCEPT !["tidy"] = [at["tidy"] EXCEPT !.pc = "history"]]
        /\ [at["tidy"] EXCEPT !.pc = "history"].pc = "history"
    BY <1>t, <1>3 DEF TidyCheck, Goto, Threads
  <2>3. ThreadsOwe'
    BY <1>t, <1>1, <2>1, <2>2, MoveOwes DEF Owes
  <2> QED
    BY <1>1, <2>3, StayComplete DEF TidyCheck, Complete
<1> QED
  BY <1>2, <1>3

LEMMA CompleteEpisode ==
  ASSUME TypeInv, Complete, NEW e \in Episode, Transfer(e) \/ ScrapeTake(e) \/ ManualDownload(e)
  PROVE  Complete'
<1>1. CASE Transfer(e)
  <2>1. Wanted' \subseteq Wanted
    BY <1>1, EpisodeMoves DEF Transfer, TypeInv
  <2> QED
    BY <1>1, <2>1, StayComplete DEF Transfer, row, Complete
<1>2. CASE ScrapeTake(e)
  <2>1. Wanted' = Wanted
    BY <1>2 DEF ScrapeTake, Wanted
  <2>2. ThreadsOwe'
    <3>1. [Idle EXCEPT !.pc = "receipt", !.e = e].pc = "receipt"
      BY DEF Idle
    <3>2. Scrape[e] \in Thread /\ Scrape[e] # "mend" /\ Scrape[e] # "manual"
      BY ThreadsDiffer
    <3> QED
      BY <1>2, <2>1, <3>1, <3>2, MoveOwes DEF ScrapeTake, Owes
  <2> QED
    BY <1>2, <2>1, <2>2, StayComplete DEF ScrapeTake, row, Complete
<1>3. CASE ManualDownload(e)
  <2>1. Wanted' = Wanted \ {e}
    BY <1>3, EpisodeMoves DEF ManualDownload, TypeInv
  <2>2. ThreadsOwe'
    <3> DEFINE p == [Idle EXCEPT !.pc = "list", !.e = e]
    <3>1. p.pc = "list" /\ p.e = e
      BY DEF Idle
    <3>2. at' = [at EXCEPT !["manual"] = p]
      BY <1>3 DEF ManualDownload
    <3> HIDE DEF p
    <3>3. "manual" \in Thread /\ "manual" \notin Strategy /\ "manual" \notin Workers
      BY ThreadsDiffer DEF Strategy
    <3> QED
      BY <2>1, <3>1, <3>2, <3>3, MoveOwes DEF Owes
  <2> QED
    BY <1>3, <2>1, <2>2, StayComplete DEF ManualDownload, row, Complete
<1> QED
  BY <1>1, <1>2, <1>3

LEMMA CompleteCrash ==
  ASSUME TypeInv, Complete, Crash \/ LeasesEnd
  PROVE  Complete'
<1>1. Wanted' = Wanted
  BY DEF Crash, LeasesEnd, Wanted
<1>2. CASE Crash
  <2>1. ThreadsOwe'
    <3>1. \A t \in Thread : Owes(t, at'[t], Wanted')
      BY <1>2, IdleOwes DEF Crash
    <3>2. ThreadsOwe' <=> \A t \in Thread : Owes(t, at'[t], Wanted')
      BY DEF ThreadsOwe, Owes, Asked, Strategy, Workers, Episode
    <3> QED
      BY <3>1, <3>2
  <2> QED
    BY <1>1, <1>2, <2>1, StayComplete DEF Crash, row, Complete
<1>3. CASE LeasesEnd
  BY <1>1, <1>3, StayComplete DEF LeasesEnd, row, Complete
<1> QED
  BY <1>2, <1>3

\* What has happened stays happened.
LEMMA MishapsStay == [Next]_vars => mishaps \subseteq mishaps'
<1> SUFFICES ASSUME [Next]_vars PROVE mishaps \subseteq mishaps'
  OBVIOUS
<1> USE DEF Spend
<1>1. ASSUME NEW t, Finish(t) PROVE mishaps \subseteq mishaps'
  BY <1>1 DEF Finish, FinishHistory, FinishDelete
<1>2. CASE SearchStep \/ SearchFails \/ Watchdog
  BY <1>1, <1>2 DEF SearchStep, SearchRead, SearchYields, SearchCheck, SearchGrab, SearchWrite,
                    SearchFails, Watchdog
<1>3. CASE RssRead \/ RssStep
  BY <1>1, <1>3 DEF RssStep, RssRead, RssYields, RssGrab, RssWrite
<1>4. CASE \E w \in Workers : WorkerStep(w) \/ EventFails(w)
  BY <1>1, <1>4 DEF WorkerStep, ClaimReceipt, EventDropped, EventRead, EventState, EventWrite,
                    EventFails
<1>5. CASE \E e \in Episode : Transfer(e) \/ ScrapeTake(e) \/ TransferFails(e) \/ ManualDownload(e)
  BY <1>5 DEF Transfer, ScrapeTake, TransferFails, ManualDownload
<1>6. CASE Reopen \/ MendRead \/ MendWrite \/ ManualRead \/ ManualWrite \/ TidyStep
  BY <1>1, <1>6 DEF Reopen, MendRead, MendWrite, ManualRead, ManualWrite, TidyStep, TidyCheck
<1>7. CASE Crash \/ LeasesEnd \/ UNCHANGED vars
  BY <1>7 DEF Crash, LeasesEnd, vars
<1> QED
  BY <1>2, <1>3, <1>4, <1>5, <1>6, <1>7 DEF Next

LEMMA ListStep == TypeInv /\ ListInv /\ [Next]_vars => ListInv'
<1> SUFFICES ASSUME TypeInv, ListInv, [Next]_vars, Undisturbed' PROVE Complete'
  BY DEF ListInv
<1>0. Complete
  BY MishapsStay DEF ListInv, Undisturbed
<1>1. CASE UNCHANGED vars
  <2>1. Wanted' = Wanted
    BY <1>1 DEF vars, Wanted
  <2> QED
    BY <1>0, <1>1, <2>1, StayComplete DEF vars, Complete
<1>2. CASE SearchStep \/ SearchFails \/ Watchdog
  BY <1>0, <1>2, CompleteSearch, CompleteFinish DEF SearchStep, Strategy
<1>3. CASE RssRead \/ RssStep
  BY <1>0, <1>3, CompleteRss, CompleteFinish DEF RssStep, Strategy
<1>4. CASE \E w \in Workers : WorkerStep(w) \/ EventFails(w)
  BY <1>0, <1>4, CompleteWorker, CompleteFinish DEF WorkerStep
<1>5. CASE TidyStep
  BY <1>0, <1>5, CompleteTidy, CompleteFinish DEF TidyStep
<1>6. CASE \E e \in Episode : Transfer(e) \/ ScrapeTake(e) \/ TransferFails(e) \/ ManualDownload(e)
  <2>1. ASSUME NEW e \in Episode PROVE ~ TransferFails(e)
    BY DEF TransferFails, Spend, Undisturbed
  <2> QED
    BY <1>0, <1>6, <2>1, CompleteEpisode
<1>7. CASE Reopen \/ MendRead \/ MendWrite
  <2>1. at["mend"].pc = "idle"
    BY <1>0, ThreadsDiffer DEF Complete, ThreadsOwe, Owes
  <2> QED
    BY <1>7, <2>1 DEF Reopen, MendRead, MendWrite, At
<1>8. CASE ManualRead \/ ManualWrite
  BY <1>0, <1>8, CompleteManual
<1>9. CASE Crash \/ LeasesEnd
  BY <1>0, <1>9, CompleteCrash
<1> QED
  BY <1>1, <1>2, <1>3, <1>4, <1>5, <1>6, <1>7, <1>8, <1>9 DEF Next

LEMMA AlwaysComplete == Spec => [](TypeInv /\ ListInv)
  BY TypeInit, TypeStep, ListInit, ListStep, PTL DEF Spec

\* As long as no transfer failed, an episode nobody has fetched is on the list of missing
\* episodes, if there is one: no read-modify-write of the five kinds of thread, none that
\* is interrupted by a crash, takes off an episode another one does not know of.
THEOREM NothingIsForgotten == Spec => []NothingForgotten
<1>1. ListInv => NothingForgotten
  BY DEF ListInv, Complete, ListComplete, NothingForgotten
<1> QED
  BY <1>1, AlwaysComplete, PTL

\* Under the same condition a subscription is finished only once every episode was fetched.
THEOREM FinishedIsFetched == Spec => []FinishedMeansFetched
<1>1. ListInv => FinishedMeansFetched
  BY DEF ListInv, Complete, HistoryLast, FinishedMeansFetched
<1> QED
  BY <1>1, AlwaysComplete, PTL
=============================================================================
