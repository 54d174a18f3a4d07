------------------------ MODULE DistributedLockProofs ------------------------
(***************************************************************************)
(* Proofs about DistributedLock, for any number of sessions and any TTL,   *)
(* beat interval and clock skew that satisfy LeaseAssumption.              *)
(*                                                                         *)
(* The argument: clocks never run ahead of time by more than their skew    *)
(* (ClockInv), so that a lease is never longer than one TTL; and a session *)
(* that works and has not lapsed still owns a record whose expiry no clock *)
(* can see before the session's next due time (SecureInv).                 *)
(***************************************************************************)
EXTENDS DistributedLock, TLAPS

USE LeaseAssumption

-----------------------------------------------------------------------------
(* Type correctness *)

LEMMA TypeInit == Init => TypeOK
  BY DEF Init, TypeOK, Backends, Steps, Record, NoRecord

LEMMA Leeway == TTL - MaxSkew - 1 \in Nat /\ Interval < TTL
  <1>1. (Tolerated + 1) * Interval \in Nat /\ (Tolerated + 1) * Interval >= Interval
    OBVIOUS
  <1> QED
    BY <1>1

\* The session of a step ends, starts to work, or writes a record.
LEMMA TypeStart ==
  ASSUME TypeOK, NEW s \in Sessions, StartWork(s) \/ Refused(s),
         step[s] \in {"acquire", "update", "insert"}
  PROVE  /\ step' \in [Sessions -> Steps]
         /\ beat' \in [Sessions -> {"off", "waiting", "extending"}]
         /\ \A u \in Sessions : beat'[u] # "off" =>
               u \in Heartbeats /\ step'[u] \in {"work", "release", "ended"}
         /\ \A u \in Sessions : beat'[u] = "waiting" => step'[u] \in {"work", "release"}
         /\ due' \in [Sessions -> Nat]
         /\ missed' \in [Sessions -> 0..(Tolerated + 1)]
         /\ late' \in [Sessions -> BOOLEAN]
  <1> USE DEF TypeOK, Goto, Steps
  <1>1. CASE StartWork(s)
    BY <1>1, Leeway DEF StartWork
  <1>2. CASE Refused(s)
    BY <1>2 DEF Refused, Over, Drop
  <1> QED
    BY <1>1, <1>2

LEMMA TypePut ==
  ASSUME TypeOK, NEW b \in Backends, NEW s \in Sessions, NEW t \in Nat,
         Put(b, Lease(s, t)) \/ Put(b, NoRecord)
  PROVE  rec' \in [Backends -> Record]
  <1>1. Lease(s, t) \in Record /\ NoRecord \in Record
    BY DEF Lease, NoRecord, Record
  <1>2. rec \in [Backends -> Record]
    BY DEF TypeOK
  <1> QED
    BY <1>1, <1>2 DEF Put

LEMMA TypeAcquire ==
  ASSUME TypeOK, NEW s \in Sessions, Acquire(s)
  PROVE  TypeOK'
  <1> USE DEF heart, session
  <1>b. {"redis", "db"} = Backends
    BY DEF Backends
  <1>t. now + TTL \in Nat /\ clock[s] + TTL \in Nat
    BY DEF TypeOK
  <1>1. CASE CreateLock(s)
    BY <1>1, <1>b DEF CreateLock, Goto, TypeOK, Steps
  <1>2. CASE RedisAcquire(s)
    <2>1. rec' \in [Backends -> Record]
      BY <1>2, <1>b, <1>t, TypePut DEF RedisAcquire, TypeOK
    <2>2. (StartWork(s) \/ Refused(s)) /\ step[s] \in {"acquire", "insert"}
      BY <1>2 DEF RedisAcquire
    <2> QED
      BY <1>2, <2>1, <2>2, TypeStart DEF RedisAcquire, TypeOK
  <1>3. CASE DbReadClock(s)
    BY <1>3 DEF DbReadClock, Goto, TypeOK, Steps
  <1>4. CASE DbTakeExpired(s)
    <2>1. rec' \in [Backends -> Record]
      BY <1>4, <1>b, <1>t, TypePut DEF DbTakeExpired, TypeOK
    <2>c. clock' \in [Sessions -> Nat]
      BY <1>4 DEF DbTakeExpired, Drop, TypeOK
    <2>2. CASE StartWork(s) \/ Refused(s)
      BY <1>4, <2>1, <2>2, <2>c, TypeStart DEF DbTakeExpired, TypeOK
    <2>3. CASE Goto(s, "insert") /\ UNCHANGED <<rec, clock, beat, due, missed, late>>
      BY <1>4, <2>3 DEF DbTakeExpired, TypeOK, Goto, Steps
    <2> QED
      BY <1>4, <2>2, <2>3 DEF DbTakeExpired
  <1>5. CASE DbInsert(s)
    <2>1. rec' \in [Backends -> Record] /\ clock' \in [Sessions -> Nat]
      BY <1>5, <1>b, <1>t, TypePut DEF DbInsert, Drop, TypeOK
    <2>2. (StartWork(s) \/ Refused(s)) /\ step[s] \in {"acquire", "insert"}
      BY <1>5 DEF DbInsert
    <2> QED
      BY <1>5, <2>1, <2>2, TypeStart DEF DbInsert, TypeOK
  <1> QED
    BY <1>1, <1>2, <1>3, <1>4, <1>5 DEF Acquire

LEMMA TypeBeat ==
  ASSUME TypeOK, NEW s \in Sessions, Beat(s)
  PROVE  TypeOK'
  <1> USE DEF session
  <1>1. CASE BeatStarts(s)
    <2>1. until' \in [Sessions -> Nat]
      <3>1. now + skew[s] + TTL \in Nat
        BY DEF TypeOK
      <3> QED
        BY <1>1, <3>1 DEF BeatStarts, TypeOK
    <2>2. \A u \in Sessions :
             /\ beat'[u] # "off" => u \in Heartbeats /\ step'[u] \in {"work", "release", "ended"}
             /\ beat'[u] = "waiting" => step'[u] \in {"work", "release"}
      BY <1>1 DEF BeatStarts, TypeOK
    <2>3. beat' \in [Sessions -> {"off", "waiting", "extending"}]
      BY <1>1 DEF BeatStarts, TypeOK
    <2> QED
      BY <1>1, <2>1, <2>2, <2>3 DEF BeatStarts, TypeOK
  <1>2. CASE BeatEnds(s)
    <2>1. rec' \in [Backends -> Record]
      <3>1. backend[s] \in Backends /\ now + TTL \in Nat /\ until[s] \in Nat
        BY DEF TypeOK
      <3> QED
        BY <1>2, <3>1, TypePut DEF BeatEnds, Extended, TypeOK
    <2>2. missed' \in [Sessions -> 0..(Tolerated + 1)]
      BY <1>2 DEF BeatEnds, CountMiss, Drop, TypeOK
    <2>3. /\ beat' \in [Sessions -> {"off", "waiting", "extending"}]
          /\ \A u \in Sessions :
             /\ beat'[u] # "off" => u \in Heartbeats /\ step'[u] \in {"work", "release", "ended"}
             /\ beat'[u] = "waiting" => step'[u] \in {"work", "release"}
      BY <1>2 DEF BeatEnds, TypeOK
    <2>4. due' \in [Sessions -> Nat] /\ until' \in [Sessions -> Nat]
      BY <1>2 DEF BeatEnds, Drop, TypeOK
    <2> QED
      BY <1>2, <2>1, <2>2, <2>3, <2>4 DEF BeatEnds, TypeOK
  <1> QED
    BY <1>1, <1>2 DEF Beat

LEMMA TypeEnd ==
  ASSUME TypeOK, NEW s \in Sessions, WorkEnds(s) \/ Release(s) \/ Crash(s)
  PROVE  TypeOK'
  <1>1. CASE WorkEnds(s)
    BY <1>1 DEF WorkEnds, StopBeat, Goto, TypeOK, Steps
  <1>2. CASE Release(s)
    <2>1. rec' \in [Backends -> Record]
      BY <1>2, TypePut DEF Release, TypeOK
    <2> QED
      BY <1>2, <2>1 DEF Release, StopBeat, Over, Drop, Goto, TypeOK, Steps
  <1>3. CASE Crash(s)
    BY <1>3 DEF Crash, Over, Drop, Goto, TypeOK, Steps
  <1> QED
    BY <1>1, <1>2, <1>3

\* In every reachable state the variables have their types and a beat only runs, or
\* waits, for a session that has one and still needs it.
THEOREM TypeCorrect == Spec => []TypeOK
  <1>1. TypeOK /\ [Next]_vars => TypeOK'
    <2> SUFFICES ASSUME TypeOK, [Next]_vars PROVE TypeOK'
      OBVIOUS
    <2>1. CASE Tick
      BY <2>1 DEF Tick, TypeOK, session, heart
    <2>2. CASE UNCHANGED vars
      BY <2>2 DEF vars, TypeOK, session, heart
    <2> QED
      BY <2>1, <2>2, TypeAcquire, TypeBeat, TypeEnd DEF Next
  <1> QED
    BY <1>1, TypeInit, PTL DEF Spec

-----------------------------------------------------------------------------
(* Clocks and records *)

\* No clock reading, expiry to be written, or expiry written is ahead of its time.
ClockInv ==
    /\ \A s \in Sessions :
          /\ clock[s] <= now + skew[s]
          /\ until[s] <= now + skew[s] + TTL
          /\ step[s] \in {"update", "insert"} => backend[s] = "db"
    /\ \A b \in Backends : rec[b].expires <= now + TTL + MaxSkew

\* One step of one session.
Acts(s) == Acquire(s) \/ Beat(s) \/ WorkEnds(s) \/ Release(s) \/ Crash(s)

\* What a session's step may write into a record, and when.
Writes(s, b) ==
    /\ backend[s] = b
    /\ \/ /\ step[s] = "acquire" /\ b = "redis"
          /\ Absent(b) /\ rec'[b] = Lease(s, now + TTL)
       \/ /\ step[s] \in {"update", "insert"} /\ b = "db"
          /\ Absent(b) \/ rec[b].expires < clock[s]
          /\ rec'[b] = Lease(s, clock[s] + TTL)
       \/ beat[s] = "extending" /\ Owns(s) /\ rec'[b] = Extended(s)
       \/ step[s] = "release" /\ Owns(s) /\ rec'[b] = NoRecord

LEMMA RecordSteps ==
  ASSUME TypeOK, ClockInv, NEW s \in Sessions, Acts(s), NEW b \in Backends, rec'[b] # rec[b]
  PROVE  Writes(s, b)
  <1> USE DEF Put, Backends, Writes
  <1>r. rec \in [Backends -> Record] /\ backend[s] \in Backends
    BY DEF TypeOK
  <1>1. CASE RedisAcquire(s)
    BY <1>1, <1>r DEF RedisAcquire
  <1>2. CASE DbTakeExpired(s)
    BY <1>2, <1>r DEF DbTakeExpired, DbExpired, ClockInv
  <1>3. CASE DbInsert(s)
    BY <1>3, <1>r DEF DbInsert, ClockInv
  <1>4. CASE BeatEnds(s)
    BY <1>4, <1>r DEF BeatEnds
  <1>5. CASE Release(s)
    BY <1>5, <1>r DEF Release, Deletes
  <1> QED
    BY <1>1, <1>2, <1>3, <1>4, <1>5
    DEF Acts, Acquire, Beat, CreateLock, DbReadClock, BeatStarts, WorkEnds, Crash

LEMMA ClockSteps ==
  ASSUME TypeOK, ClockInv, Next
  PROVE  ClockInv'
  <1>n. /\ now \in Nat /\ TTL \in Nat /\ MaxSkew \in Nat
        /\ \A s \in Sessions : /\ skew[s] \in Nat /\ skew[s] <= MaxSkew
                               /\ clock[s] \in Nat /\ until[s] \in Nat
        /\ \A b \in Backends : rec[b].expires \in Nat
    BY DEF TypeOK, Record
  <1>1. CASE Tick
    BY <1>1, <1>n DEF Tick, ClockInv, session, heart
  <1>2. ASSUME NEW s \in Sessions, Acts(s)
        PROVE  ClockInv'
    <2>0. now' = now /\ skew' = skew
      BY <1>2 DEF Acts, Acquire, CreateLock, RedisAcquire, DbReadClock, DbTakeExpired,
         DbInsert, Beat, BeatStarts, BeatEnds, WorkEnds, Release, Crash
    <2>1. ASSUME NEW b \in Backends
          PROVE  rec'[b].expires <= now + TTL + MaxSkew
      <3>1. CASE rec'[b] = rec[b]
        BY <3>1 DEF ClockInv
      <3>2. CASE rec'[b] # rec[b]
        <4>1. rec'[b].expires \in {now + TTL, clock[s] + TTL, until[s], 0}
          <5>1. Writes(s, b)
            BY <1>2, <3>2, RecordSteps
          <5>2. \A t : Lease(s, t).expires = t
            BY DEF Lease
          <5>3. NoRecord.expires = 0
            BY DEF NoRecord
          <5> QED
            BY <5>1, <5>2, <5>3 DEF Writes, Extended
        <4>2. clock[s] <= now + skew[s] /\ until[s] <= now + skew[s] + TTL
          BY DEF ClockInv
        <4> QED
          BY <1>n, <4>1, <4>2
      <3> QED
        BY <3>1, <3>2
    <2>2. ASSUME NEW u \in Sessions
          PROVE  clock'[u] <= now + skew[u]
      <3>1. clock' \in {clock, Drop(clock, s), [clock EXCEPT ![s] = now + skew[s]]}
        BY <1>2 DEF Acts, Acquire, CreateLock, RedisAcquire, DbReadClock, DbTakeExpired,
           DbInsert, Beat, BeatStarts, BeatEnds, WorkEnds, Release, Crash, session
      <3> QED
        BY <1>n, <3>1 DEF Drop, ClockInv, TypeOK
    <2>3. ASSUME NEW u \in Sessions
          PROVE  until'[u] <= now + skew[u] + TTL
      <3>1. until' \in {until, Drop(until, s), [until EXCEPT ![s] = now + skew[s] + TTL]}
        BY <1>2 DEF Acts, Acquire, CreateLock, RedisAcquire, DbReadClock, DbTakeExpired,
           DbInsert, Beat, BeatStarts, BeatEnds, WorkEnds, Release, Crash, Drop, heart
      <3> QED
        BY <1>n, <3>1 DEF Drop, ClockInv, TypeOK
    <2>4. ASSUME NEW u \in Sessions, step'[u] \in {"update", "insert"}
          PROVE  backend'[u] = "db"
      <3>1. CASE u # s
        BY <1>2, <2>4, <3>1 DEF Acts, Acquire, CreateLock, RedisAcquire, DbReadClock,
           DbTakeExpired, DbInsert, Beat, BeatStarts, BeatEnds, WorkEnds, Release, Crash,
           Goto, StartWork, Refused, Over, session, TypeOK, ClockInv
      <3>2. CASE u = s
        BY <1>2, <2>4, <3>2 DEF Acts, Acquire, CreateLock, RedisAcquire, DbReadClock,
           DbTakeExpired, DbInsert, Beat, BeatStarts, BeatEnds, WorkEnds, Release, Crash,
           Goto, StartWork, Refused, Over, session, TypeOK, ClockInv
      <3> QED
        BY <3>1, <3>2
    <2> QED
      BY <2>0, <2>1, <2>2, <2>3, <2>4 DEF ClockInv
  <1> QED
    BY <1>1, <1>2 DEF Next, Acts

LEMMA ClockInvariant == Spec => []ClockInv
  <1>1. Init => ClockInv
    BY DEF Init, ClockInv, NoRecord, Backends
  <1>2. TypeOK /\ ClockInv /\ [Next]_vars => ClockInv'
    BY ClockSteps DEF vars, ClockInv, session, heart
  <1> QED
    BY <1>1, <1>2, TypeCorrect, PTL DEF Spec

-----------------------------------------------------------------------------
(* Leases end by their holder's release or by time *)

\* A live lease ends only by its holder's release().
THEOREM LeaseEndsByHolder == Spec => OnlyHolderEndsLease
  <1> DEFINE Kept == \A b \in Backends, s \in Sessions :
                       (Live(b) /\ rec[b].token = s /\ rec'[b].token # s)
                          => (backend[s] = b /\ step[s] = "release")
  <1>1. TypeOK /\ ClockInv /\ [Next]_vars => [Kept]_vars
    <2> SUFFICES ASSUME TypeOK, ClockInv, Next, NEW b \in Backends, NEW s \in Sessions,
                        Live(b), rec[b].token = s, rec'[b].token # s
                 PROVE  backend[s] = b /\ step[s] = "release"
      OBVIOUS
    <2>1. PICK u \in Sessions : Acts(u)
      BY DEF Next, Acts, Tick
    <2>2. Writes(u, b)
      BY <2>1, RecordSteps
    <2>3. /\ now \in Nat /\ skew[u] \in Nat /\ skew[u] <= MaxSkew /\ MaxSkew \in Nat
          /\ clock[u] \in Nat /\ rec[b].expires \in Nat
      BY DEF TypeOK, Record
    <2>4. ~ Absent(b) /\ ~ (b = "db" /\ rec[b].expires < clock[u])
      BY <2>3 DEF Live, Absent, ClockInv
    <2> QED
      BY <2>2, <2>4 DEF Writes, Owns, Extended, Lease
  <1> QED
    BY <1>1, TypeCorrect, ClockInvariant, PTL DEF Spec, OnlyHolderEndsLease

\* The lease of a session that ended is never renewed and is over within one TTL.
THEOREM OrphansFreeThemselves == Spec => OrphanFreesItself
  <1> DEFINE Left == \A b \in Backends, s \in Sessions :
                       (rec[b].token = s /\ step[s] = "ended" /\ beat[s] = "off")
                          => /\ rec[b].expires <= now + TTL + MaxSkew
                             /\ rec'[b].token = s => rec'[b] = rec[b]
  <1>1. TypeOK /\ ClockInv /\ [Next]_vars => [Left]_vars
    <2> SUFFICES ASSUME TypeOK, ClockInv, Next, NEW b \in Backends, NEW s \in Sessions,
                        step[s] = "ended", beat[s] = "off", rec'[b].token = s, rec'[b] # rec[b]
                 PROVE  FALSE
      BY DEF ClockInv
    <2>1. PICK u \in Sessions : Acts(u)
      BY DEF Next, Acts, Tick
    <2>2. Writes(u, b)
      BY <2>1, RecordSteps
    <2> QED
      BY <2>2 DEF Writes, Extended, Lease, NoRecord
  <1> QED
    BY <1>1, TypeCorrect, ClockInvariant, PTL DEF Spec, OrphanFreesItself

-----------------------------------------------------------------------------
(* Mutual exclusion *)

\* What the failed beats cost, kept folded: the provers do not multiply.
Slack(m) == (m + 1) * Interval

LEMMA SlackGrows ==
  ASSUME NEW m \in Nat
  PROVE  /\ Slack(m) \in Nat /\ Slack(m + 1) = Slack(m) + Interval
         /\ Slack(m) >= Interval
         /\ m <= Tolerated => Slack(m) + MaxSkew < TTL
  <1>1. Slack(m) \in Nat /\ Slack(m + 1) = Slack(m) + Interval /\ Slack(m) >= Interval
    BY DEF Slack
  <1>2. ASSUME m <= Tolerated
        PROVE  Slack(m) <= (Tolerated + 1) * Interval
    <2>1. PICK k \in Nat : Tolerated = m + k
      <3>1. Tolerated - m \in Nat /\ Tolerated = m + (Tolerated - m)
        BY <1>2
      <3> QED
        BY <3>1
    <2>2. (Tolerated + 1) * Interval = Slack(m) + k * Interval /\ k * Interval >= 0
      BY <2>1 DEF Slack
    <2> QED
      BY <1>1, <2>2
  <1> QED
    BY <1>1, <1>2

\* How far the holder's clock is ahead of the one its expiry is compared with.
Ahead(s) == IF backend[s] = "redis" THEN 0 ELSE skew[s]

\* The session is not past its due time, and a beat in flight asks for a whole TTL.
Punctual(s) ==
    /\ now <= due[s]
    /\ beat[s] = "extending" =>
          now = due[s] /\ (backend[s] = "db" => until[s] = now + skew[s] + TTL)

\* It also owns its record, which outlasts the due time on every clock.
Secured(s) ==
    /\ Punctual(s)
    /\ rec[backend[s]].token = s
    /\ s \in Heartbeats => due[s] + Ahead(s) + TTL <= rec[backend[s]].expires + Slack(missed[s])
    /\ s \notin Heartbeats => due[s] + Ahead(s) + MaxSkew < rec[backend[s]].expires

SecureInv ==
    \A s \in Sessions :
        /\ (Working(s) /\ ~ late[s]) => Punctual(s)
        /\ (Working(s) /\ ~ Lapsed(s)) => Secured(s)
        /\ (step[s] \in {"update", "insert"} /\ ~ late[s]) => clock[s] = now + skew[s]

\* Arithmetic facts about the state, for the steps below.
LEMMA Numbers ==
  ASSUME TypeOK, NEW s \in Sessions
  PROVE  /\ now \in Nat /\ TTL \in Nat /\ MaxSkew \in Nat /\ Interval \in Nat
         /\ skew[s] \in Nat /\ skew[s] <= MaxSkew /\ clock[s] \in Nat /\ until[s] \in Nat
         /\ due[s] \in Nat /\ missed[s] \in Nat /\ missed[s] <= Tolerated + 1
         /\ backend[s] \in Backends /\ rec[backend[s]] \in Record
         /\ rec[backend[s]].expires \in Nat /\ Ahead(s) \in Nat /\ Ahead(s) <= MaxSkew
         /\ Slack(missed[s]) \in Nat
  <1>1. missed[s] \in 0..(Tolerated + 1)
    BY DEF TypeOK
  <1> QED
    BY <1>1, SlackGrows DEF TypeOK, Record, Ahead

\* A session that works and has not lapsed owns a record that no clock sees expired.
LEMMA SecuredIsLive ==
  ASSUME TypeOK, NEW s \in Sessions, Secured(s), missed[s] <= Tolerated
  PROVE  /\ rec[backend[s]].token = s
         /\ now + MaxSkew < rec[backend[s]].expires
         /\ ~ Absent(backend[s]) /\ Owns(s)
  <1>1. Slack(missed[s]) + MaxSkew < TTL
    BY Numbers, SlackGrows
  <1>2. now + MaxSkew < rec[backend[s]].expires
    BY <1>1, Numbers DEF Secured, Punctual
  <1>3. s # None
    OBVIOUS
  <1> QED
    BY <1>2, <1>3, Numbers DEF Secured, Absent, Owns

\* Another session's step leaves the record of a secured session alone.
LEMMA SecuredIsKept ==
  ASSUME TypeOK, ClockInv, NEW s \in Sessions, Secured(s), missed[s] <= Tolerated,
         NEW u \in Sessions, u # s, Acts(u)
  PROVE  rec'[backend[s]] = rec[backend[s]]
  <1> SUFFICES ASSUME rec'[backend[s]] # rec[backend[s]]
               PROVE  FALSE
    OBVIOUS
  <1>1. Writes(u, backend[s])
    BY RecordSteps, Numbers
  <1>2. clock[u] <= now + MaxSkew
    BY Numbers DEF ClockInv
  <1>3. ~ (rec[backend[s]].expires < clock[u])
    BY <1>2, SecuredIsLive, Numbers
  <1> QED
    BY <1>1, <1>3, SecuredIsLive DEF Writes, Owns

\* A session's own step does not touch another session.
LEMMA OthersStay ==
  ASSUME TypeOK, NEW u \in Sessions, Acts(u), NEW s \in Sessions, s # u
  PROVE  /\ step'[s] = step[s] /\ backend'[s] = backend[s] /\ clock'[s] = clock[s]
         /\ beat'[s] = beat[s] /\ until'[s] = until[s] /\ due'[s] = due[s]
         /\ missed'[s] = missed[s] /\ late'[s] = late[s] /\ now' = now /\ skew' = skew
  BY DEF Acts, Acquire, CreateLock, RedisAcquire, DbReadClock, DbTakeExpired, DbInsert,
     Beat, BeatStarts, BeatEnds, WorkEnds, Release, Crash, StopBeat, CountMiss, Drop,
     Goto, StartWork, Refused, Over, session, heart, TypeOK

\* The session itself: acquire() secures it, and every beat keeps it so.
LEMMA AcquireSecures ==
  ASSUME TypeOK, ClockInv, SecureInv, NEW s \in Sessions, Acquire(s),
         step'[s] = "work", ~ late'[s]
  PROVE  Secured(s)'
  <1>1. step[s] \in {"acquire", "update", "insert"} /\ StartWork(s)
    BY DEF Acquire, CreateLock, RedisAcquire, DbReadClock, DbTakeExpired, DbInsert,
       Refused, Over, Goto, TypeOK
  <1>2. now' = now /\ skew' = skew /\ backend' = backend /\ until' = until
    BY <1>1 DEF Acquire, CreateLock, RedisAcquire, DbReadClock, DbTakeExpired, DbInsert,
       StartWork, Goto, TypeOK
  <1>3. /\ due'[s] = now + (IF s \in Heartbeats THEN Interval ELSE TTL - MaxSkew - 1)
        /\ beat'[s] # "extending" /\ missed'[s] = missed[s] /\ late'[s] = late[s]
    BY <1>1 DEF StartWork, TypeOK
  <1>4. rec'[backend[s]] = Lease(s, now + Ahead(s) + TTL)
    <2>1. CASE RedisAcquire(s)
      BY <2>1, Numbers DEF RedisAcquire, Put, Ahead, Refused, Over, Goto, TypeOK
    <2>2. CASE DbTakeExpired(s) \/ DbInsert(s)
      <3>1. rec'[backend[s]] = Lease(s, clock[s] + TTL)
        BY <2>2 DEF DbTakeExpired, DbInsert, Put, ClockInv, Refused, Over, Goto, TypeOK
      <3>2. clock[s] = now + skew[s] /\ backend[s] = "db"
        BY <1>3, <2>2 DEF DbTakeExpired, DbInsert, SecureInv, ClockInv
      <3> QED
        BY <3>1, <3>2 DEF Ahead
    <2> QED
      BY <1>1, <2>1, <2>2 DEF Acquire, CreateLock, DbReadClock, Goto, TypeOK
  <1>5. Ahead(s)' = Ahead(s)
    BY <1>2 DEF Ahead
  <1>6. /\ rec'[backend'[s]].token = s
        /\ rec'[backend'[s]].expires = now + Ahead(s) + TTL
    BY <1>2, <1>4 DEF Lease
  <1>7. Slack(missed'[s]) \in Nat /\ Slack(missed'[s]) >= Interval
    BY <1>3, Numbers, SlackGrows
  <1> QED
    BY <1>2, <1>3, <1>5, <1>6, <1>7, Numbers, Leeway DEF Secured, Punctual

LEMMA BeatSecures ==
  ASSUME TypeOK, ClockInv, SecureInv, NEW s \in Sessions, Beat(s),
         Working(s)', ~ late'[s]
  PROVE  Punctual(s)' /\ (~ Lapsed(s)' => Secured(s)')
  <1>0. /\ Working(s) /\ ~ late[s] /\ now' = now /\ skew' = skew
        /\ backend' = backend /\ Ahead(s)' = Ahead(s)
    BY DEF Beat, BeatStarts, BeatEnds, session, Working, Ahead
  <1>h. s \in Heartbeats /\ Punctual(s)
    BY <1>0 DEF Beat, BeatStarts, BeatEnds, TypeOK, SecureInv
  <1>1. CASE BeatStarts(s)
    <2>1. /\ rec' = rec /\ due' = due /\ missed' = missed /\ due[s] <= now
          /\ backend[s] = "db" => until'[s] = now + skew[s] + TTL
      BY <1>1 DEF BeatStarts, TypeOK
    <2>2. ~ Lapsed(s)' => Secured(s)
      BY <1>0, <2>1 DEF SecureInv, Lapsed
    <2> QED
      BY <1>0, <1>h, <2>1, <2>2, Numbers DEF Secured, Punctual
  <1>2. CASE BeatEnds(s)
    <2>1. /\ due'[s] = now + Interval /\ beat'[s] = "waiting"
          /\ now = due[s] /\ (backend[s] = "db" => until[s] = now + skew[s] + TTL)
      BY <1>0, <1>2, <1>h DEF BeatEnds, Working, Punctual, TypeOK
    <2>2. Punctual(s)'
      BY <1>0, <2>1, Numbers DEF Punctual
    <2>3. CASE Owns(s) /\ rec'[backend[s]] = Extended(s)
      <3>1. /\ rec'[backend[s]].token = s
            /\ rec'[backend[s]].expires = now + Ahead(s) + TTL
        BY <2>1, <2>3, Numbers DEF Extended, Lease, Ahead, Backends
      <3>2. missed'[s] \in Nat
        BY TypeBeat DEF TypeOK
      <3>3. Slack(missed'[s]) \in Nat /\ Slack(missed'[s]) >= Interval
        BY <3>2, SlackGrows
      <3> QED
        BY <1>0, <1>h, <2>1, <2>2, <3>1, <3>3, Numbers DEF Secured
    <2>4. CASE rec' = rec /\ ~ Lapsed(s)' /\ ~ (Owns(s) /\ rec'[backend[s]] = Extended(s))
      <3>1. CountMiss(s)
        BY <1>0, <1>2, <2>4 DEF BeatEnds, Working
      <3>2. missed[s] <= Tolerated /\ missed'[s] = missed[s] + 1
        BY <3>1, <2>4, Numbers DEF CountMiss, Lapsed, TypeOK
      <3>3. Secured(s)
        BY <1>0, <3>2, Numbers DEF SecureInv, Lapsed
      <3>4. Slack(missed'[s]) = Slack(missed[s]) + Interval
        BY <3>2, Numbers, SlackGrows
      <3> QED
        BY <1>0, <1>h, <2>1, <2>2, <2>4, <3>3, <3>4, Numbers DEF Secured
    <2>5. (Owns(s) /\ rec'[backend[s]] = Extended(s)) \/ rec' = rec
      BY <1>2, Numbers DEF BeatEnds, Put, TypeOK
    <2> QED
      BY <2>2, <2>3, <2>4, <2>5
  <1> QED
    BY <1>1, <1>2 DEF Beat

LEMMA SecureTick ==
  ASSUME TypeOK, SecureInv, Tick, NEW s \in Sessions, ~ late'[s]
  PROVE  /\ Working(s)' => Punctual(s)'
         /\ (Working(s)' /\ ~ Lapsed(s)') => Secured(s)'
         /\ step'[s] \in {"update", "insert"} => clock'[s] = now' + skew'[s]
  <1>1. ~ late[s] /\ ~ Overdue(s) /\ now' = now + 1
    BY DEF Tick
  <1>2. UNCHANGED <<rec, skew, session, heart>>
    BY DEF Tick
  <1>3. step'[s] \notin {"update", "insert"}
    BY <1>1, <1>2 DEF Overdue, session
  <1>4. ASSUME Working(s)'
        PROVE  Punctual(s)' /\ (~ Lapsed(s)' => Secured(s)')
    <2>1. now < due[s] /\ Punctual(s) /\ Working(s)
      BY <1>1, <1>2, <1>4, Numbers DEF Overdue, Working, session, SecureInv
    <2>2. Punctual(s)'
      BY <1>1, <1>2, <2>1, Numbers DEF Punctual, heart, session
    <2>3. ~ Lapsed(s)' => Secured(s)
      BY <1>1, <1>2, <2>1 DEF Lapsed, SecureInv, heart
    <2>4. Ahead(s)' = Ahead(s)
      BY <1>2 DEF Ahead, session
    <2> QED
      BY <1>2, <2>2, <2>3, <2>4 DEF Secured, heart, session
  <1> QED
    BY <1>3, <1>4

LEMMA SecureOthers ==
  ASSUME TypeOK, ClockInv, SecureInv, NEW u \in Sessions, Acts(u), NEW s \in Sessions, s # u
  PROVE  /\ (Working(s) /\ ~ late[s])' => Punctual(s)'
         /\ (Working(s) /\ ~ Lapsed(s))' => Secured(s)'
         /\ (step[s] \in {"update", "insert"} /\ ~ late[s])' => (clock[s] = now + skew[s])'
  <1> USE OthersStay
  <1>1. (Working(s) /\ ~ late[s])' => Punctual(s)'
    BY DEF Working, Punctual, SecureInv
  <1>2. ASSUME (Working(s) /\ ~ Lapsed(s))'
        PROVE  Secured(s)'
    <2>1. Secured(s) /\ missed[s] <= Tolerated
      BY <1>2, Numbers DEF Working, Lapsed, SecureInv
    <2>2. rec'[backend[s]] = rec[backend[s]]
      BY <2>1, SecuredIsKept
    <2>3. Ahead(s)' = Ahead(s)
      BY DEF Ahead
    <2> QED
      BY <1>1, <1>2, <2>1, <2>2, <2>3 DEF Secured, Lapsed
  <1>3. (step[s] \in {"update", "insert"} /\ ~ late[s])' => (clock[s] = now + skew[s])'
    BY DEF SecureInv
  <1> QED
    BY <1>1, <1>2, <1>3

LEMMA SecureOwn ==
  ASSUME TypeOK, ClockInv, SecureInv, NEW s \in Sessions, Acts(s)
  PROVE  /\ (Working(s) /\ ~ late[s])' => Punctual(s)'
         /\ (Working(s) /\ ~ Lapsed(s))' => Secured(s)'
         /\ (step[s] \in {"update", "insert"} /\ ~ late[s])' => (clock[s] = now + skew[s])'
  <1>1. CASE Acquire(s)
    <2>1. (Working(s) /\ ~ late[s])' => Secured(s)'
      BY <1>1, AcquireSecures DEF Working
    <2>2. (step[s] \in {"update", "insert"} /\ ~ late[s])' => (clock[s] = now + skew[s])'
      BY <1>1 DEF Acquire, CreateLock, RedisAcquire, DbReadClock, DbTakeExpired, DbInsert,
         StartWork, Refused, Over, Goto, TypeOK, SecureInv
    <2> QED
      BY <2>1, <2>2 DEF Secured, Lapsed
  <1>2. CASE Beat(s)
    <2>1. (step[s] \in {"update", "insert"})' => FALSE
      BY <1>2 DEF Beat, BeatStarts, BeatEnds, session, TypeOK
    <2> QED
      BY <1>2, <2>1, BeatSecures DEF Lapsed
  <1>3. CASE WorkEnds(s) \/ Release(s) \/ Crash(s)
    BY <1>3 DEF WorkEnds, Release, Crash, Over, Goto, Working, TypeOK
  <1> QED
    BY <1>1, <1>2, <1>3 DEF Acts

LEMMA SecureInvariant == Spec => []SecureInv
  <1>1. Init => SecureInv
    BY DEF Init, SecureInv, Working
  <1>2. TypeOK /\ ClockInv /\ SecureInv /\ [Next]_vars => SecureInv'
    <2> SUFFICES ASSUME TypeOK, ClockInv, SecureInv, [Next]_vars, NEW s \in Sessions
                 PROVE  /\ (Working(s) /\ ~ late[s])' => Punctual(s)'
                        /\ (Working(s) /\ ~ Lapsed(s))' => Secured(s)'
                        /\ (step[s] \in {"update", "insert"} /\ ~ late[s])'
                              => (clock[s] = now + skew[s])'
      BY DEF SecureInv
    <2>1. CASE Tick
      BY <2>1, SecureTick DEF Lapsed
    <2>2. ASSUME NEW u \in Sessions, Acts(u)
          PROVE  /\ (Working(s) /\ ~ late[s])' => Punctual(s)'
                 /\ (Working(s) /\ ~ Lapsed(s))' => Secured(s)'
                 /\ (step[s] \in {"update", "insert"} /\ ~ late[s])'
                       => (clock[s] = now + skew[s])'
      BY <2>2, SecureOthers, SecureOwn
    <2>3. CASE UNCHANGED vars
      BY <2>3 DEF vars, session, heart, SecureInv, Working, Lapsed, Punctual, Secured, Ahead
    <2> QED
      BY <2>1, <2>2, <2>3 DEF Next, Acts
  <1> QED
    BY <1>1, <1>2, TypeCorrect, ClockInvariant, PTL DEF Spec

\* Two sessions on the same backend work at the same time only when one has lapsed.
THEOREM OneHolder == Spec => []OneHolderUnlessLapsed
  <1>1. SecureInv => OneHolderUnlessLapsed
    BY DEF SecureInv, OneHolderUnlessLapsed, Secured
  <1> QED
    BY <1>1, SecureInvariant, PTL
=============================================================================
