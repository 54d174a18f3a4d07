------------------------ MODULE MCSubscriptionProgress ------------------------
(* Instances of SubscriptionProgress for TLC. *)
EXTENDS SubscriptionProgress, TLC

CONSTANTS w1, w2
MCScrape == <<w1, w2>>
=============================================================================
