----------------------------- MODULE MCFarmers -----------------------------
(* Small instances of Farmers for TLC. *)
EXTENDS Farmers

OneOwner == [p \in Proofs |-> 1]
OneKey   == [l \in Launchers |-> "k1"]

=============================================================================
