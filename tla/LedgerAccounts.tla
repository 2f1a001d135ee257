--------------------------- MODULE LedgerAccounts ---------------------------
(***************************************************************************)
(* Ledger implements Accounts: the refinement mapping reads the state of   *)
(* each entry off the store, the payer's record and the history.           *)
(***************************************************************************)
EXTENDS Ledger

BelowWatermark(p) == \E u \in payouts : partials[p].timestamp < u

\* Confirmed too late for the run under way, which has counted its farmer
Uncounted(p) ==
  /\ payer.pc \in {"count", "send"}
  /\ partials[p].timestamp < payer.timestamp
  /\ Owner[p] \notin payer.todo /\ p \notin payer.counted

WorkAccount(p) ==
  IF p \notin DOMAIN partials THEN "none"
  ELSE IF ~partials[p].confirmed THEN "waiting"
  ELSE IF BelowWatermark(p) THEN IF p \in credited THEN "settled" ELSE "missed"
  ELSE IF p \in payer.sent THEN "paid"
  ELSE IF p \in credited THEN "lapsed"
  ELSE IF Uncounted(p) THEN "late"
  ELSE "earned"

MoneyAccount(t) ==
  IF t \notin DOMAIN claims THEN "none"
  ELSE IF ~claims[t].tx_confirmed THEN "pending"
  ELSE IF claims[t].paid THEN "settled"
  ELSE IF t \notin shared THEN "received"
  ELSE IF t \in payer.funds /\ payer.sent # {} THEN "shared"
  ELSE "lapsed"

WorkAccounts  == [p \in Proofs |-> WorkAccount(p)]
MoneyAccounts == [t \in Times |-> MoneyAccount(t)]

A == INSTANCE Accounts WITH Work <- Proofs, Money <- Times,
                            work <- WorkAccounts, money <- MoneyAccounts

\* (Under Timely.) Every behaviour of the store, the requests and the two loops
\* is a behaviour of the accounts: work that is earned leaves that state only by
\* being paid, what a run recorded is never touched again, what a run failed to
\* record is paid again before anything else is recorded, and money is written
\* off only after the work it paid for (service.py:248-319).
ImplementsAccounts == A!Spec

=============================================================================
