---------------------------- MODULE MCDownloadQueue ----------------------------
(* An instance of DownloadQueue for TLC: Alice asks twice for a movie, Bob for the same *)
(* torrent under his own key, and Carol for another one.                                *)
EXTENDS DownloadQueue, TLC

CONSTANTS r1, r2, r3, r4, alice, bob, carol, movie, other

MCKeyOf == (r1 :> alice) @@ (r2 :> alice) @@ (r3 :> bob) @@ (r4 :> carol)
MCContentOf == [r \in Requests |-> IF r = r4 THEN other ELSE movie]
=============================================================================
