------------------------- MODULE SubscriptionProgress -------------------------
(***************************************************************************)
(* The progress of one TV subscription: its row, its list of missing       *)
(* episodes, and everything that reads the list, changes it and writes it  *)
(* back.  That is the active search and the RSS round (which exclude each  *)
(* other by the coordinator's lock), the scrape workers, which claim a     *)
(* receipt and then deliver MEDIA_EPISODE_TRANSFERRED in their own thread, *)
(* the handlers of a failed transfer and of a manual download, and the     *)
(* clean-up of subscriptions that wait for their transfers.                *)
(*                                                                         *)
(* One season, one user, no release upgrade, a known and constant number   *)
(* of episodes.  Downloading and transferring are the environment's.  A    *)
(* lock's lease outlasts a live holder; a dead one's runs out.             *)
(***************************************************************************)
EXTENDS Naturals, FiniteSets, FiniteSetsExt

CONSTANTS Total,        \* episodes of the season
          Scrape,       \* Scrape[e] is whichever scrape worker has the task of episode e
          None,         \* no holder, no list
          Keyed,        \* the library's answer is found under the subscription's key
          Mishaps,      \* what may disturb the flow: see Spend
          MaxMishaps    \* how often, all of them together

ASSUME SubscriptionAssumption ==
    /\ Total \in Nat \ {0} /\ Keyed \in BOOLEAN
    /\ Mishaps \subseteq {"failure", "manual", "error", "crash"} /\ MaxMishaps \in Nat
    /\ \A e \in 1..Total : Scrape[e] \notin {"search", "rss", "tidy", "mend", "manual", "dead", None}
    /\ \A S \in SUBSET (1..Total) : S # None

Episode == 1..Total
Strategy == {"search", "rss"}
Workers == {Scrape[e] : e \in Episode}
Thread == Workers \cup Strategy \cup {"tidy", "mend", "manual"}
Lock == {"coordinator", "progress", "finalize"}

VARIABLES
    sub,       \* the row of RSS_TVS: is it there, STATE, CURRENT_EP
    lack,      \* the row of RSS_TV_EPISODES: the missing episodes; None: no row
    history,   \* the subscription's history was written
    ep,        \* what became of each episode
    tasks,     \* scrape tasks, one per transferred episode
    receipts,  \* finalize receipts
    lock,      \* who holds which lock
    at,        \* the threads
    mishaps    \* which mishaps have happened; each happens at most once

vars == <<sub, lack, history, ep, tasks, receipts, lock, at, mishaps>>
row == <<sub, lack, history>>
queue == <<tasks, receipts>>

States == {"PENDING", "RUNNING", "SEARCHING", "COMPLETED", "ERROR"}
Idle == [pc |-> "idle", e |-> 0, need |-> {}, got |-> {}]

Init ==
    /\ sub = [there |-> TRUE, state |-> "PENDING", current |-> 1]
    /\ lack = None
    /\ history = FALSE
    /\ ep = [e \in Episode |-> "wanted"]
    /\ tasks = {} /\ receipts = {}
    /\ lock = [k \in Lock |-> None]
    /\ at = [t \in Thread |-> Idle]
    /\ mishaps = {}

Library == {e \in Episode : ep[e] = "library"}
Wanted == {e \in Episode : ep[e] = "wanted"}

\* An UPDATE finds no row once the subscription is deleted.
Marked(r, state) == IF r.there THEN [r EXCEPT !.state = state] ELSE r

\* update_rss_tv_lack(): CURRENT_EP follows the first missing episode, unless there is none.
Listed(r, missing) ==
    IF r.there /\ missing # {} THEN [r EXCEPT !.current = Min(missing)] ELSE r

Current == IF sub.there THEN sub.current ELSE 1
Missing == IF lack = None THEN Current..Total ELSE lack
ListOrEmpty == IF lack = None THEN {} ELSE lack

\* A failed transfer, a manual download, an exception in a thread, a dead process.
Spend(what) ==
    /\ what \in Mishaps \ mishaps /\ Cardinality(mishaps) < MaxMishaps
    /\ mishaps' = mishaps \cup {what}

At(t, pc) == at[t].pc = pc
Goto(t, pc) == at' = [at EXCEPT ![t].pc = pc]

\* A thread is done: it gives its locks back, a worker acknowledges its task.
End(t) ==
    /\ at' = [at EXCEPT ![t] = Idle]
    /\ lock' = [k \in Lock |-> IF lock[k] = t THEN None ELSE lock[k]]
    /\ tasks' = IF t \in Workers THEN tasks \ {at[t].e} ELSE tasks

-----------------------------------------------------------------------------
(* finish_rss_subscribe() and, with a lock of its own, finalize_tv_by_rssid() *)

Locks(t) == t \notin Strategy

\* A lock service that fails lets the thread go on without the lock.
FinishHistory(t) ==
    /\ At(t, "history")
    /\ \/ /\ sub.there /\ (Locks(t) => lock["finalize"] = None)
          /\ history' = TRUE
          /\ lock' = IF Locks(t) THEN [lock EXCEPT !["finalize"] = t] ELSE lock
          /\ Goto(t, "delete") /\ UNCHANGED <<tasks, mishaps>>
       \/ /\ sub.there /\ Locks(t) /\ Spend("error")
          /\ history' = TRUE
          /\ Goto(t, "delete") /\ UNCHANGED <<tasks, lock>>
       \/ /\ ~ sub.there \/ (Locks(t) /\ lock["finalize"] # None)
          /\ End(t) /\ UNCHANGED <<history, mishaps>>
    /\ UNCHANGED <<sub, lack, ep, receipts>>

FinishDelete(t) ==
    /\ At(t, "delete")
    /\ sub' = [sub EXCEPT !.there = FALSE]
    /\ lack' = None
    /\ End(t)
    /\ UNCHANGED <<history, ep, receipts, mishaps>>

-----------------------------------------------------------------------------
(* _search_tvs() for one subscription *)

\* The queue search takes PENDING rows, the active search RUNNING ones, the retry ERROR.
\* The list is read before the coordinator's lock is asked for.
SearchRead ==
    /\ At("search", "idle") /\ sub.there /\ sub.state \in {"PENDING", "RUNNING", "ERROR"}
    /\ at' = [at EXCEPT !["search"] = [@ EXCEPT !.pc = "check", !.need = Missing]]
    /\ UNCHANGED <<row, ep, queue, lock, mishaps>>

\* Another strategy holds the lock: the search gives up.
SearchYields ==
    /\ At("search", "check") /\ lock["coordinator"] # None
    /\ sub' = Marked(sub, "RUNNING")
    /\ End("search")
    /\ UNCHANGED <<lack, history, ep, receipts, mishaps>>

\* Under the lock: the library has everything, or what it has is taken off the list, which
\* is written; an empty list stays empty.
SearchCheck ==
    LET found == IF Keyed THEN at["search"].need \ Library ELSE at["search"].need IN
    /\ At("search", "check") /\ lock["coordinator"] = None
    /\ lock' = [lock EXCEPT !["coordinator"] = "search"]
    /\ \/ /\ Library = Episode
          /\ at' = [at EXCEPT !["search"] = [Idle EXCEPT !.pc = "history"]]
          /\ UNCHANGED <<sub, lack>>
       \/ /\ Library # Episode
          /\ at' = [at EXCEPT !["search"] = [@ EXCEPT !.pc = "grab", !.need = found]]
          /\ lack' = IF found = {} THEN lack ELSE found
          /\ sub' = Marked(Listed(sub, found), "SEARCHING")
    /\ UNCHANGED <<history, ep, queue, mishaps>>

\* To the download strategies an empty list is the whole season.
Asked(need) == IF need = {} THEN Episode ELSE need
Fetched(got) == [e \in Episode |-> IF e \in got /\ ep[e] # "library" THEN "active" ELSE ep[e]]

\* search_one_media(): SubscriptionDownloadGuard and filter_downloaded() take out every
\* episode that is or was in flight.
SearchGrab ==
    /\ At("search", "grab")
    /\ \E got \in SUBSET (Asked(at["search"].need) \cap Wanted) :
          /\ ep' = Fetched(got)
          /\ at' = [at EXCEPT !["search"] = [@ EXCEPT !.pc = "recheck", !.got = got]]
    /\ UNCHANGED <<row, queue, lock, mishaps>>

\* What is left of a list after a download: an episode that was found turns an empty list
\* into a list of the others.
Remaining(t) == IF at[t].need = {} /\ at[t].got = {} THEN {} ELSE Asked(at[t].need) \ at[t].got

\* The library is asked again; otherwise the list is written as the download left it.
SearchWrite ==
    /\ At("search", "recheck")
    /\ \/ /\ Library = Episode
          /\ at' = [at EXCEPT !["search"] = [Idle EXCEPT !.pc = "history"]]
          /\ UNCHANGED <<sub, lack, lock, tasks>>
       \/ /\ Library # Episode
          /\ lack' = IF at["search"].need = {} /\ at["search"].got = {} THEN lack
                     ELSE Remaining("search")
          /\ sub' = Marked(Listed(sub, Remaining("search")), "RUNNING")
          /\ End("search")
    /\ UNCHANGED <<history, ep, receipts, mishaps>>

\* An exception ends the search: of a known kind RUNNING, of any other ERROR.
SearchFails ==
    /\ at["search"].pc \in {"check", "grab", "recheck"}
    /\ \E state \in {"RUNNING", "ERROR"} : sub' = Marked(sub, state)
    /\ End("search") /\ Spend("error")
    /\ UNCHANGED <<lack, history, ep, receipts>>

\* reset_stale_searching(): far longer than a search takes.
Watchdog ==
    /\ sub.there /\ sub.state = "SEARCHING" /\ At("search", "idle")
    /\ sub' = Marked(sub, "ERROR")
    /\ UNCHANGED <<lack, history, ep, queue, lock, at, mishaps>>

-----------------------------------------------------------------------------
(* One RSS round *)

\* List and library are read while the feed is matched, before any lock.
RssRead ==
    /\ At("rss", "idle") /\ sub.there /\ sub.state = "RUNNING"
    /\ at' = [at EXCEPT !["rss"] =
                 IF Library = Episode THEN [@ EXCEPT !.pc = "history"]
                 ELSE [@ EXCEPT !.pc = "grab",
                                !.need = IF Keyed THEN Missing \ Library ELSE Missing]]
    /\ UNCHANGED <<row, ep, queue, lock, mishaps>>

RssYields ==
    /\ At("rss", "grab") /\ lock["coordinator"] # None
    /\ End("rss")
    /\ UNCHANGED <<row, ep, receipts, mishaps>>

\* No guard here: an episode in flight is taken again.
RssGrab ==
    /\ At("rss", "grab") /\ lock["coordinator"] = None
    /\ \E got \in SUBSET Asked(at["rss"].need) :
          /\ ep' = Fetched(got)
          /\ IF got = {} THEN End("rss")
             ELSE /\ at' = [at EXCEPT !["rss"] = [@ EXCEPT !.pc = "write", !.got = got]]
                  /\ lock' = [lock EXCEPT !["coordinator"] = "rss"]
                  /\ UNCHANGED tasks
    /\ UNCHANGED <<row, receipts, mishaps>>

\* Mutation: whatever was fetched, the list is cleared.
RssWriteAll ==
    /\ At("rss", "write")
    /\ lack' = {}
    /\ sub' = Marked(sub, "COMPLETED")
    /\ End("rss")
    /\ UNCHANGED <<history, ep, receipts, mishaps>>

\* __mark_downloaded() or __update_tv_rss().
RssWrite ==
    /\ At("rss", "write")
    /\ lack' = Remaining("rss")
    /\ sub' = Marked(Listed(sub, Remaining("rss")),
                     IF Remaining("rss") = {} THEN "COMPLETED" ELSE "RUNNING")
    /\ End("rss")
    /\ UNCHANGED <<history, ep, receipts, mishaps>>

-----------------------------------------------------------------------------
(* A transfer, its scrape task, its event *)

Transfer(e) ==
    /\ ep[e] = "active"
    /\ ep' = [ep EXCEPT ![e] = "library"]
    /\ tasks' = tasks \cup {e}
    /\ UNCHANGED <<row, receipts, lock, at, mishaps>>

\* A task has one worker at a time, and a worker keeps nothing between two tasks.
ScrapeTake(e) ==
    /\ At(Scrape[e], "idle") /\ e \in tasks
    /\ at' = [at EXCEPT ![Scrape[e]] = [Idle EXCEPT !.pc = "receipt", !.e = e]]
    /\ UNCHANGED <<row, ep, queue, lock, mishaps>>

\* _finalize() claims the receipt before it publishes.
ClaimReceipt(w) ==
    LET e == at[w].e IN
    /\ At(w, "receipt")
    /\ receipts' = receipts \cup {e}
    /\ IF e \in receipts THEN End(w) ELSE Goto(w, "event") /\ UNCHANGED <<lock, tasks>>
    /\ UNCHANGED <<row, ep, mishaps>>

\* Mutation: an empty list, and none, mean that every episode was transferred.
EventMissingUnset == ListOrEmpty

\* Mutation: the range runs one past the last episode.
EventMissingPast == IF lack \in {None, {}} THEN Current..(Total + 1) ELSE lack

\* No list and an empty one are both derived from CURRENT_EP.
EventMissing == IF lack \in {None, {}} THEN Current..Total ELSE lack

\* The event of a deleted subscription, or one that meets a busy lock, is dropped.
EventDropped(w) ==
    /\ At(w, "event")
    /\ ~ sub.there \/ lock["progress"] # None
    /\ End(w)
    /\ UNCHANGED <<row, ep, receipts, mishaps>>

\* The list is read under the progress lock, or without it when the lock service fails.
EventRead(w) ==
    LET rest == EventMissing \ {at[w].e} IN
    /\ At(w, "event") /\ sub.there
    /\ \/ /\ lock["progress"] = None
          /\ lock' = [lock EXCEPT !["progress"] = w] /\ UNCHANGED mishaps
       \/ Spend("error") /\ UNCHANGED lock
    /\ at' = [at EXCEPT ![w] = [@ EXCEPT !.pc = IF rest = {} THEN "history" ELSE "state",
                                         !.need = rest]]
    /\ UNCHANGED <<row, ep, queue>>

\* A subscription that waits for its transfers stays COMPLETED.
EventState(w) ==
    /\ At(w, "state")
    /\ sub' = IF sub.state = "COMPLETED" THEN sub ELSE Marked(sub, "RUNNING")
    /\ Goto(w, "write")
    /\ UNCHANGED <<lack, history, ep, queue, lock, mishaps>>

EventWrite(w) ==
    /\ At(w, "write")
    /\ lack' = at[w].need
    /\ sub' = Listed(sub, at[w].need)
    /\ End(w)
    /\ UNCHANGED <<history, ep, receipts, mishaps>>

\* An exception is logged; the task is acknowledged all the same.
EventFails(w) ==
    /\ at[w].pc \in {"event", "state", "write", "history", "delete"}
    /\ End(w) /\ Spend("error")
    /\ UNCHANGED <<row, ep, receipts>>

-----------------------------------------------------------------------------
(* A failed transfer reopens the subscription, without the progress lock *)

TransferFails(e) ==
    /\ ep[e] = "active" /\ At("mend", "idle") /\ Spend("failure")
    /\ ep' = [ep EXCEPT ![e] = "failed"]
    /\ at' = [at EXCEPT !["mend"] = [Idle EXCEPT !.pc = "reopen", !.e = e]]
    /\ UNCHANGED <<row, queue, lock>>

Reopen ==
    /\ At("mend", "reopen")
    /\ sub' = Marked(sub, "RUNNING")
    /\ IF sub.there THEN Goto("mend", "list") /\ UNCHANGED <<lock, tasks>> ELSE End("mend")
    /\ UNCHANGED <<lack, history, ep, receipts, mishaps>>

\* No list counts as an empty one.
MendRead ==
    /\ At("mend", "list")
    /\ at' = [at EXCEPT !["mend"].pc = "write",
                       !["mend"].need = ListOrEmpty \cup {at["mend"].e}]
    /\ UNCHANGED <<row, ep, queue, lock, mishaps>>

MendWrite ==
    /\ At("mend", "write")
    /\ lack' = at["mend"].need
    /\ sub' = Listed(sub, at["mend"].need)
    /\ End("mend")
    /\ UNCHANGED <<history, ep, receipts, mishaps>>

-----------------------------------------------------------------------------
(* A manual download and its event *)

ManualDownload(e) ==
    /\ ep[e] = "wanted" /\ sub.there /\ At("manual", "idle") /\ Spend("manual")
    /\ ep' = [ep EXCEPT ![e] = "active"]
    /\ at' = [at EXCEPT !["manual"] = [Idle EXCEPT !.pc = "list", !.e = e]]
    /\ UNCHANGED <<row, queue, lock>>

\* update_subscribe_tv_lack_by_episodes(): here too no list counts as an empty one.
ManualRead ==
    /\ At("manual", "list")
    /\ at' = [at EXCEPT !["manual"].pc = "write",
                       !["manual"].need = ListOrEmpty \ {at["manual"].e}]
    /\ UNCHANGED <<row, ep, queue, lock, mishaps>>

\* Nothing left: COMPLETED, and the list stays as it is.
ManualWrite ==
    LET rest == at["manual"].need IN
    /\ At("manual", "write")
    /\ lack' = IF rest = {} THEN lack ELSE rest
    /\ sub' = Marked(Listed(sub, rest), IF rest = {} THEN "COMPLETED" ELSE "RUNNING")
    /\ End("manual")
    /\ UNCHANGED <<history, ep, receipts, mishaps>>

-----------------------------------------------------------------------------
(* reconcile_pending_transfers() *)

\* Mutation: a whole season in the library only ends the round.
TidyCheckOnly ==
    /\ At("tidy", "idle") /\ sub.there /\ sub.state = "COMPLETED"
    /\ \/ End("tidy") /\ UNCHANGED sub
       \/ Library # Episode /\ sub' = Marked(sub, "RUNNING") /\ End("tidy")
    /\ UNCHANGED <<lack, history, ep, receipts, mishaps>>

\* In the library: finalised.  Waiting for too long: reopened.
TidyCheck ==
    /\ At("tidy", "idle") /\ sub.there /\ sub.state = "COMPLETED"
    /\ \/ /\ Library = Episode
          /\ Goto("tidy", "history") /\ UNCHANGED <<sub, lock, tasks>>
       \/ /\ Library # Episode
          /\ sub' \in {sub, Marked(sub, "RUNNING")}
          /\ End("tidy")
    /\ UNCHANGED <<lack, history, ep, receipts, mishaps>>

-----------------------------------------------------------------------------
(* The process dies: threads and in-memory events are gone, tasks and rows are not *)

Crash ==
    /\ Spend("crash")
    /\ at' = [t \in Thread |-> Idle]
    /\ lock' = [k \in Lock |-> IF lock[k] = None THEN None ELSE "dead"]
    /\ UNCHANGED <<row, ep, queue>>

LeasesEnd ==
    /\ \E k \in Lock : lock[k] = "dead"
    /\ lock' = [k \in Lock |-> IF lock[k] = "dead" THEN None ELSE lock[k]]
    /\ UNCHANGED <<row, ep, queue, at, mishaps>>

Finish(t) == FinishHistory(t) \/ FinishDelete(t)
SearchStep == SearchRead \/ SearchYields \/ SearchCheck \/ SearchGrab \/ SearchWrite
              \/ Finish("search")
RssStep == RssYields \/ RssGrab \/ RssWrite \/ Finish("rss")
WorkerStep(w) == ClaimReceipt(w) \/ EventDropped(w) \/ EventRead(w) \/ EventState(w)
                 \/ EventWrite(w) \/ Finish(w)
TidyStep == TidyCheck \/ Finish("tidy")

Next ==
    \/ SearchStep \/ SearchFails \/ Watchdog
    \/ RssRead \/ RssStep
    \/ \E e \in Episode : Transfer(e) \/ ScrapeTake(e) \/ TransferFails(e) \/ ManualDownload(e)
    \/ \E w \in Workers : WorkerStep(w) \/ EventFails(w)
    \/ Reopen \/ MendRead \/ MendWrite
    \/ ManualRead \/ ManualWrite
    \/ TidyStep
    \/ Crash \/ LeasesEnd

\* The monitor starts searches and clean-ups again and again, and a started thread runs on;
\* neither RSS rounds nor events need to come.
Fairness ==
    /\ WF_vars(SearchStep) /\ WF_vars(Watchdog) /\ WF_vars(TidyStep)
    /\ WF_vars(RssStep) /\ WF_vars(LeasesEnd)
    /\ \A w \in Workers : WF_vars(WorkerStep(w))

Spec == Init /\ [][Next]_vars /\ Fairness

-----------------------------------------------------------------------------
(* Properties *)

\* Types, and which thread may hold which lock.
TypeOK ==
    /\ sub \in [there : BOOLEAN, state : States, current : Episode]
    /\ lack = None \/ lack \subseteq Episode
    /\ history \in BOOLEAN
    /\ ep \in [Episode -> {"wanted", "active", "failed", "library"}]
    /\ tasks \subseteq Library /\ receipts \subseteq Library
    /\ lock["coordinator"] \in Strategy \cup {None, "dead"}
    /\ lock["progress"] \in Workers \cup {None, "dead"}
    /\ lock["finalize"] \in Workers \cup {"tidy", None, "dead"}
    /\ \A t \in Thread : at[t].e \in 0..Total /\ at[t].need \cup at[t].got \subseteq Episode

Undisturbed == "failure" \notin mishaps

\* However the readers and writers of the list interleave, lose updates and die: as long as
\* no transfer failed, an episode nobody has fetched yet is still on it.
NothingForgotten ==
    Undisturbed /\ sub.there /\ lack # None => Wanted \subseteq lack

\* A subscription is not finished before every episode was at least fetched, although
\* the list it is finished by is written by five threads.
FinishedMeansFetched == Undisturbed /\ history => Wanted = {}

\* A subscription is finished only when all its episodes were transferred.
FinishedIsTransferred == history => Library = Episode

\* Once the library has the whole season the subscription is finished, whichever events
\* were dropped, lost with a crash between receipt and event, or suppressed.
EventuallyFinished == (Library = Episode) ~> (history /\ ~ sub.there)
=============================================================================
