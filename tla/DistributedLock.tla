--------------------------- MODULE DistributedLock ---------------------------
(***************************************************************************)
(* One lock key of infrastructure/distributed_lock: RedisDistributedLock,  *)
(* its database fallback DbDistributedLock, the LockManager that picks one *)
(* of them for every create_lock(), and the lock_heartbeat thread that     *)
(* renews a lease while its holder works.                                  *)
(*                                                                         *)
(* A session is one use of the lock, from create_lock() to release(), with *)
(* a token of its own (a fresh uuid4).  Redis keeps its own time; the      *)
(* database fallback compares expiry times with the clock of the instance  *)
(* that asks, and those clocks differ by up to MaxSkew.  Any command may   *)
(* fail, with or without having taken effect, Redis may answer one ping    *)
(* and not the next, any process may die or be suspended at any time.      *)
(***************************************************************************)
EXTENDS Naturals, FiniteSets

CONSTANTS Sessions,
          Heartbeats,  \* the sessions that run under lock_heartbeat()
          TTL,         \* ttl_seconds
          Interval,    \* seconds between two beats
          MaxSkew,     \* how far two instances' clocks may differ
          Tolerated,   \* consecutive beats that may fail
          Offered,     \* what pings find: {"redis"}, {"db"}, or both at times
          MaxNow,      \* bound on time for TLC
          None

\* With an interval of ttl // 3, one beat may fail when clocks agree to within a third
\* of the TTL.
ASSUME LeaseAssumption ==
    /\ Heartbeats \subseteq Sessions
    /\ TTL \in Nat /\ Interval \in Nat \ {0}
    /\ MaxSkew \in Nat /\ Tolerated \in Nat /\ MaxNow \in Nat
    /\ (Tolerated + 1) * Interval + MaxSkew < TTL
    /\ Offered \subseteq {"redis", "db"}
    /\ None \notin Sessions

VARIABLES
    now,       \* time
    rec,       \* per backend, the lock's record: whose token, and when it expires
    skew,      \* how far the clock of the session's instance is ahead
    step,      \* the session's next step
    backend,   \* the kind of lock create_lock() returned
    clock,     \* "now" as acquire() read it for the database
    beat,      \* the heartbeat thread
    until,     \* expiry time the beat in flight will write
    due,       \* when the next beat, or the end of the work, is due
    missed,    \* beats that failed since the last one that renewed the lease
    late       \* the session was suspended past its due time

session == <<step, backend, clock>>
heart == <<beat, until, due, missed>>
vars == <<now, rec, skew, session, heart, late>>

Backends == {"redis", "db"}
Steps == {"idle", "acquire", "update", "insert", "work", "release", "ended"}

NoRecord == [token |-> None, expires |-> 0]
Lease(s, t) == [token |-> s, expires |-> t]
Record == [token : Sessions \cup {None}, expires : Nat]

\* Redis drops a key when its time is over; a database row stays.
Absent(b) == rec[b].token = None \/ (b = "redis" /\ rec[b].expires <= now)
Owns(s) == ~ Absent(backend[s]) /\ rec[backend[s]].token = s

Init ==
    /\ now = 0
    /\ rec = [b \in Backends |-> NoRecord]
    /\ skew \in [Sessions -> 0..MaxSkew]
    /\ step = [s \in Sessions |-> "idle"]
    /\ backend = [s \in Sessions |-> "redis"]
    /\ clock = [s \in Sessions |-> 0]
    /\ beat = [s \in Sessions |-> "off"]
    /\ until = [s \in Sessions |-> 0]
    /\ due = [s \in Sessions |-> 0]
    /\ missed = [s \in Sessions |-> 0]
    /\ late = [s \in Sessions |-> FALSE]

-----------------------------------------------------------------------------
(* create_lock() and acquire() *)

Goto(s, p) == step' = [step EXCEPT ![s] = p]
Put(b, r) == rec' = [rec EXCEPT ![b] = r]
Drop(var, s) == [var EXCEPT ![s] = 0]

\* LockManager.create_lock: Redis when it answers the ping, otherwise the database.
CreateLock(s) ==
    /\ step[s] = "idle"
    /\ Goto(s, "acquire")
    /\ \E b \in Offered : backend' = [backend EXCEPT ![s] = b]
    /\ UNCHANGED <<now, rec, skew, clock, heart, late>>

\* The caller goes to work, and its heartbeat thread, if it has one, waits.  Without a
\* heartbeat the work has to be over before the lease is.
StartWork(s) ==
    /\ Goto(s, "work")
    /\ beat' = [beat EXCEPT ![s] = IF s \in Heartbeats THEN "waiting" ELSE "off"]
    /\ due' = [due EXCEPT ![s] = now + (IF s \in Heartbeats THEN Interval ELSE TTL - MaxSkew - 1)]
    /\ UNCHANGED <<missed, late>>

\* The session is over, and its locals with it.
Over(s) ==
    /\ Goto(s, "ended")
    /\ due' = Drop(due, s) /\ missed' = Drop(missed, s)
    /\ late' = [late EXCEPT ![s] = FALSE]

\* acquire() returns False: the lock is taken, or its backend did not answer.
Refused(s) == Over(s) /\ UNCHANGED beat

\* SET key token NX EX ttl; an error counts as a refusal, whether or not the key was set.
RedisAcquire(s) ==
    /\ step[s] = "acquire" /\ backend[s] = "redis"
    /\ \/ /\ Absent("redis")
          /\ Put("redis", Lease(s, now + TTL))
          /\ StartWork(s) \/ Refused(s)
       \/ Refused(s) /\ UNCHANGED rec
    /\ UNCHANGED <<now, skew, backend, clock, until>>

\* DistributedLockRepository.acquire reads its clock before it waits for a connection.
DbReadClock(s) ==
    /\ step[s] = "acquire" /\ backend[s] = "db"
    /\ clock' = [clock EXCEPT ![s] = now + skew[s]]
    /\ Goto(s, "update")
    /\ UNCHANGED <<now, rec, skew, backend, heart, late>>

\* A slip: the TTL is counted twice.
DbExpiredEarly(s) == rec["db"].token # None /\ rec["db"].expires < clock[s] + TTL

DbExpired(s) == rec["db"].token # None /\ rec["db"].expires < clock[s]

\* UPDATE ... WHERE EXPIRES_AT < now
DbTakeExpired(s) ==
    /\ step[s] = "update"
    /\ \/ /\ DbExpired(s)
          /\ Put("db", Lease(s, clock[s] + TTL))
          /\ StartWork(s) \/ Refused(s)
          /\ clock' = Drop(clock, s)
       \/ /\ ~ DbExpired(s)
          /\ Goto(s, "insert")
          /\ UNCHANGED <<rec, clock, beat, due, missed, late>>
       \/ /\ Refused(s)
          /\ clock' = Drop(clock, s)
          /\ UNCHANGED rec
    /\ UNCHANGED <<now, skew, backend, until>>

\* INSERT; every exception, a duplicate key or another, reads as "taken".
DbInsert(s) ==
    /\ step[s] = "insert"
    /\ \/ /\ Absent("db")
          /\ Put("db", Lease(s, clock[s] + TTL))
          /\ StartWork(s) \/ Refused(s)
       \/ Refused(s) /\ UNCHANGED rec
    /\ clock' = Drop(clock, s)
    /\ UNCHANGED <<now, skew, backend, until>>

-----------------------------------------------------------------------------
(* lock_heartbeat() and extend() *)

\* The timer has run and the lock still counts as owned; extend() reads its clock.
BeatStarts(s) ==
    /\ beat[s] = "waiting"
    /\ now >= due[s]
    /\ beat' = [beat EXCEPT ![s] = "extending"]
    /\ until' = [until EXCEPT ![s] = IF backend[s] = "db" THEN now + skew[s] + TTL ELSE 0]
    /\ UNCHANGED <<now, rec, skew, session, due, missed, late>>

\* A slip: seconds are added to the current expiry time.
ExtendedByAdding(s) == Lease(s, rec[backend[s]].expires + TTL)

\* EXPIRE counts from Redis' own now, the UPDATE from the instance's.
Extended(s) == Lease(s, IF backend[s] = "redis" THEN now + TTL ELSE until[s])

CountMiss(s) == missed' = [missed EXCEPT ![s] = IF @ > Tolerated THEN @ ELSE @ + 1]

\* extend() is compare-and-expire; a failure, before or after its effect, is logged and
\* the work goes on.  A thread that was stopped meanwhile ends.
BeatEnds(s) ==
    /\ beat[s] = "extending"
    /\ \/ Owns(s) /\ Put(backend[s], Extended(s))
       \/ UNCHANGED rec
    /\ IF step[s] = "ended"
       THEN /\ beat' = [beat EXCEPT ![s] = "off"]
            /\ UNCHANGED <<due, missed>>
       ELSE /\ beat' = [beat EXCEPT ![s] = "waiting"]
            /\ due' = [due EXCEPT ![s] = now + Interval]
            /\ \/ CountMiss(s)
               \/ Owns(s) /\ rec'[backend[s]] = Extended(s) /\ missed' = Drop(missed, s)
    /\ until' = Drop(until, s)
    /\ UNCHANGED <<now, skew, session, late>>

-----------------------------------------------------------------------------
(* The work ends, release(), and the process may die *)

\* A slip: nobody sets stop_event.
StopBeatNever(s) == UNCHANGED beat

\* stop_event is set: a waiting thread ends, a beat in flight goes on.
StopBeat(s) == beat' = [beat EXCEPT ![s] = IF @ = "waiting" THEN "off" ELSE @]

\* stop_event is set before or after release(), depending on the caller.
WorkEnds(s) ==
    /\ step[s] = "work"
    /\ Goto(s, "release")
    /\ StopBeat(s) \/ UNCHANGED beat
    /\ UNCHANGED <<now, rec, skew, backend, clock, until, due, missed, late>>

\* A slip: delete without comparing the token.
DeletesAny(s) == ~ Absent(backend[s])

\* The script, and the DELETE, compare the token.
Deletes(s) == Owns(s)

\* Owned is cleared whatever happens, so that no new beat starts; one may be in flight.
Release(s) ==
    /\ step[s] = "release"
    /\ \/ Deletes(s) /\ Put(backend[s], NoRecord)
       \/ UNCHANGED rec
    /\ Over(s)
    /\ StopBeat(s)
    /\ UNCHANGED <<now, skew, backend, clock, until>>

Crash(s) ==
    /\ step[s] # "ended" \/ beat[s] # "off"
    /\ Over(s)
    /\ beat' = [beat EXCEPT ![s] = "off"]
    /\ clock' = Drop(clock, s) /\ until' = Drop(until, s)
    /\ UNCHANGED <<now, rec, skew, backend>>

-----------------------------------------------------------------------------
(* Time *)

\* Waiting past its due time, or in the middle of acquire(), makes a session late: its
\* process was suspended, a call took too long, or work without a heartbeat went on.
Overdue(s) ==
    \/ step[s] \in {"update", "insert"}
    \/ step[s] = "work" /\ due[s] <= now

Tick ==
    /\ now < MaxNow
    /\ now' = now + 1
    /\ late' = [s \in Sessions |-> late[s] \/ Overdue(s)]
    /\ UNCHANGED <<rec, skew, session, heart>>

Acquire(s) == CreateLock(s) \/ RedisAcquire(s) \/ DbReadClock(s) \/ DbTakeExpired(s) \/ DbInsert(s)
Beat(s) == BeatStarts(s) \/ BeatEnds(s)

Next ==
    \/ \E s \in Sessions : Acquire(s) \/ Beat(s) \/ WorkEnds(s) \/ Release(s) \/ Crash(s)
    \/ Tick

Spec == Init /\ [][Next]_vars

-----------------------------------------------------------------------------
(* Properties *)

TypeOK ==
    /\ now \in Nat
    /\ rec \in [Backends -> Record]
    /\ skew \in [Sessions -> 0..MaxSkew]
    /\ step \in [Sessions -> Steps]
    /\ backend \in [Sessions -> Backends]
    /\ beat \in [Sessions -> {"off", "waiting", "extending"}]
    /\ \A s \in Sessions : beat[s] # "off" => s \in Heartbeats /\ step[s] \in {"work", "release", "ended"}
    /\ \A s \in Sessions : beat[s] = "waiting" => step[s] \in {"work", "release"}
    /\ clock \in [Sessions -> Nat] /\ until \in [Sessions -> Nat] /\ due \in [Sessions -> Nat]
    /\ missed \in [Sessions -> 0..(Tolerated + 1)]
    /\ late \in [Sessions -> BOOLEAN]

Working(s) == step[s] = "work"

\* A session that was suspended, or whose renewals failed too often in a row, has no
\* right to its lock any more.
Lapsed(s) == late[s] \/ missed[s] > Tolerated

\* Two sessions on the same backend work at the same time only when one of them has
\* lapsed: losing replies, releasing late, a beat that outlives its session, and clocks
\* that differ do not break mutual exclusion.
OneHolderUnlessLapsed ==
    \A s, u \in Sessions :
        (s # u /\ Working(s) /\ Working(u) /\ backend[s] = backend[u]) => Lapsed(s) \/ Lapsed(u)

\* What the callers of create_lock() rely on: the same, whichever lock they were given.
MutualExclusion ==
    \A s, u \in Sessions :
        (s # u /\ Working(s) /\ Working(u)) => Lapsed(s) \/ Lapsed(u)

\* No clock of any instance says that the lease is over.
Live(b) ==
    /\ rec[b].token # None
    /\ IF b = "redis" THEN now < rec[b].expires ELSE now + MaxSkew <= rec[b].expires

\* A live lease ends only by its holder's release: a session that has lost its own lease
\* never deletes or overwrites the lease of the one that took over.
OnlyHolderEndsLease ==
    [][\A b \in Backends, s \in Sessions :
          (Live(b) /\ rec[b].token = s /\ rec'[b].token # s)
             => (backend[s] = b /\ step[s] = "release")]_vars

\* The lease of a session that ended in whatever way - a crash, a lost reply of
\* acquire(), a failed release(), with or without a last beat - is never renewed and is
\* over within one TTL.
OrphanFreesItself ==
    [][\A b \in Backends, s \in Sessions :
          (rec[b].token = s /\ step[s] = "ended" /\ beat[s] = "off")
             => /\ rec[b].expires <= now + TTL + MaxSkew
                /\ rec'[b].token = s => rec'[b] = rec[b]]_vars
=============================================================================
