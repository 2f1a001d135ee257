------------------------------ MODULE Accounts ------------------------------
(***************************************************************************)
(* What the pool promises about its accounts, with no store, no clock and  *)
(* no loops.  Each proof of space is an entry of the work account and each *)
(* block reward of the money account; a payment moves entries of both.     *)
(*                                                                         *)
(*   work   none -> waiting -> earned -> paid -> settled                   *)
(*   money  none -> pending -> received -> shared -> settled               *)
(*                                                                         *)
(* "lapsed" is what was paid by a run that stopped before it wrote that    *)
(* down: it is paid again.  "late" is work that became good during a run   *)
(* that had already counted its farmer; if that run records its payout,    *)
(* the work is "missed", and so is work that only becomes good after that. *)
(***************************************************************************)
CONSTANTS Work, Money

VARIABLES work, money
vars == <<work, money>>

WorkState  == {"none", "waiting", "earned", "late", "paid", "lapsed", "settled", "missed"}
MoneyState == {"none", "pending", "received", "shared", "lapsed", "settled"}

Init ==
  /\ work = [w \in Work |-> "none"]
  /\ money = [m \in Money |-> "none"]

In(account, states) == {x \in DOMAIN account : account[x] \in states}

\* Entries may go from one of these states to one of those; the others stay.
WorkGoes(from, to) ==
  /\ work' \in [Work -> WorkState]
  /\ \A w \in Work : work'[w] # work[w] => work[w] \in from /\ work'[w] \in to

MoneyGoes(from, to) ==
  /\ money' \in [Money -> MoneyState]
  /\ \A m \in Money : money'[m] # money[m] => money[m] \in from /\ money'[m] \in to

Moved(account, from, to) ==
  [x \in DOMAIN account |-> IF account[x] = from THEN to ELSE account[x]]

-----------------------------------------------------------------------------

\* Only work that waits may be submitted again, or withdrawn, or become good.
Submit   == WorkGoes({"none"}, {"waiting"}) /\ UNCHANGED money
Withdraw == WorkGoes({"waiting"}, {"none"}) /\ UNCHANGED money
Earn     == WorkGoes({"waiting"}, {"earned", "late", "missed"}) /\ UNCHANGED money

Claim   == MoneyGoes({"none"}, {"pending"}) /\ UNCHANGED work
Receive == MoneyGoes({"pending"}, {"received"}) /\ UNCHANGED work

\* Some work is paid.  All the money of a run is taken with its first payment.
Pay ==
  /\ WorkGoes({"earned", "lapsed"}, {"paid"})
  /\ In(work', {"paid"}) # In(work, {"paid"}) /\ In(money', {"shared"}) # {}
  /\ IF In(work, {"paid"}) = {} THEN MoneyGoes({"received", "lapsed"}, {"shared"})
                               ELSE UNCHANGED money

\* The payout is written down.  All that an earlier run paid and did not record
\* has been paid again by then, so nothing lapsed is passed over.
Record ==
  /\ In(work, {"paid"}) # {} /\ In(work, {"lapsed"}) = {}
  /\ In(money, {"shared"}) # {}
  /\ work' = Moved(Moved(work, "paid", "settled"), "late", "missed")
  /\ UNCHANGED money

\* The money is written off, after the work it paid for.
Settle ==
  /\ In(work, {"paid", "late"}) = {} /\ In(money, {"shared"}) # {}
  /\ money' = Moved(money, "shared", "settled")
  /\ UNCHANGED work

\* A run ends before that.
Stop ==
  /\ work' = Moved(Moved(work, "paid", "lapsed"), "late", "earned")
  /\ money' = Moved(money, "shared", "lapsed")

Next ==
  \/ Submit \/ Withdraw \/ Earn
  \/ Claim \/ Receive
  \/ Pay \/ Record \/ Settle \/ Stop

Spec == Init /\ [][Next]_vars

=============================================================================
