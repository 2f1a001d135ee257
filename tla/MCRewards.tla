----------------------------- MODULE MCRewards -----------------------------
(* Small instances of Rewards for TLC. *)
EXTENDS Rewards, TLC
CONSTANTS l1, l2, r1, r2, r3

OneEach == r1 :> l1 @@ r2 :> l2
BothOfOne == r1 :> l1 @@ r2 :> l1
AndDust   == BothOfOne @@ r3 :> l2

=============================================================================
