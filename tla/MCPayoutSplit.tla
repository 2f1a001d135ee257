---------------------------- MODULE MCPayoutSplit ----------------------------
(* Small instances of PayoutSplit for TLC. *)
EXTENDS PayoutSplit

=============================================================================
