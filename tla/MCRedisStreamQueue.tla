------------------------- MODULE MCRedisStreamQueue -------------------------
(* Instances of RedisStreamQueue for TLC. *)
EXTENDS RedisStreamQueue, TLC

CONSTANTS k1

OneKey == [t \in Tasks |-> k1]
Interchangeable == Permutations(Tasks) \cup Permutations(Workers)

\* Delivery of one task: every mishap once, Redis errors twice.
DeliveryMishaps == [k \in Kinds |-> IF k = "fault" THEN 2 ELSE 1]

\* Competing producers: Redis errors and crashes only.
EnqueueMishaps == [k \in Kinds |-> IF k \in {"fault", "crash"} THEN 1 ELSE 0]

NoMishap == [k \in Kinds |-> 0]
=============================================================================
