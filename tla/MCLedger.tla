------------------------------ MODULE MCLedger ------------------------------
(* Small instances of Ledger for TLC. *)
EXTENDS LedgerAccounts, TLC

CONSTANTS l1, l2, p1, p2

\* One farmer owns every proof, or two farmers one each.
OneOwner  == [p \in Proofs |-> l1]
OwnerEach == [p \in Proofs |-> IF p = p1 THEN l1 ELSE l2]

\* Exchanging the two farmers and their proofs together respects OwnerEach.
Exchange ==
  [x \in {l1, l2, p1, p2} |->
     CASE x = l1 -> l2 [] x = l2 -> l1 [] x = p1 -> p2 [] x = p2 -> p1]

Pairs == {f \in Permutations({l1, l2, p1, p2}) :
            f = Exchange \/ \A x \in DOMAIN f : f[x] = x}

=============================================================================
