------------------------- MODULE TaskQueueContract -------------------------
(***************************************************************************)
(* What app/infrastructure/task_queue/base.py promises to its callers,     *)
(* whatever the backend: an accepted task stays owed until somebody has    *)
(* taken a decision about it (its handler succeeded, its attempts are      *)
(* exhausted, it cannot be handled, or it was cancelled).  Nothing is said *)
(* of how often a handler runs: the contract is at-least-once.             *)
(***************************************************************************)
CONSTANT Tasks

VARIABLES accepted,  \* tasks the queue has taken over from a producer
          verdict,   \* decisions taken about each task
          settled    \* tasks the queue no longer owes anything

vars == <<accepted, verdict, settled>>

Verdicts == {"ok", "dead", "failed", "cancelled"}

Init ==
    /\ accepted = {}
    /\ verdict = [t \in Tasks |-> {}]
    /\ settled = {}

\* enqueue(): "returns the existing task, or writes this one".
Accept(t) ==
    /\ t \notin accepted
    /\ accepted' = accepted \cup {t}
    /\ UNCHANGED <<verdict, settled>>

\* A handler returns, fail() gives the task up, or cancel() drops it.
Decide(t, v) ==
    /\ t \in accepted
    /\ verdict' = [verdict EXCEPT ![t] = @ \cup {v}]
    /\ UNCHANGED <<accepted, settled>>

\* The queue forgets a task: only after a decision, and for good.
Settle(t) ==
    /\ t \in accepted \ settled
    /\ verdict[t] # {}
    /\ settled' = settled \cup {t}
    /\ UNCHANGED <<accepted, verdict>>

Next == \E t \in Tasks : Accept(t) \/ Settle(t) \/ \E v \in Verdicts : Decide(t, v)

Spec == Init /\ [][Next]_vars
=============================================================================
