---------------------------- MODULE MCDifficulty ----------------------------
(* Small instances of Difficulty for TLC. *)
EXTENDS Difficulty, TLC

\* The request slots differ in nothing; the run checks no liveness.
SlotsAlike == Permutations(Requests)

=============================================================================
