-------------------------- MODULE MCDistributedLock --------------------------
(* Instances of DistributedLock for TLC. *)
EXTENDS DistributedLock, TLC

Interchangeable == Permutations(Heartbeats) \cup Permutations(Sessions \ Heartbeats)

\* What pings find does not change: all sessions use Redis, or all the database.
NoFailover ==
    \A s, u \in Sessions :
        (step'[s] # "idle" /\ step'[u] # "idle") => backend'[s] = backend'[u]
=============================================================================
