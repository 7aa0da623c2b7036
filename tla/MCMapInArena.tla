---------------------------- MODULE MCMapInArena ----------------------------
(* Keys that collide and wrap around in tables of 4, 8 and 16 slots.        *)
EXTENDS MapInArena, TLC

CONSTANTS k1, k2, k3, k4

MCKeys == {k1, k2, k3, k4}
MCHash == k1 :> 3 @@ k2 :> 7 @@ k3 :> 11 @@ k4 :> 0
=============================================================================
