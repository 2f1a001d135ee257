----------------------------- MODULE PayoutSplit -----------------------------
(***************************************************************************)
(* How a run of submit_payments (service/service.py) turns the claims and   *)
(* the points it has read into payments: the pool's fee is taken off, each  *)
(* earner gets a share by points, rounded down, the remainder goes out one  *)
(* mojo each by the largest fraction, and the payments are cut into batches *)
(* for the wallet.                                                          *)
(*                                                                          *)
(* The arithmetic is on floats, and the model rounds as they do: a float is *)
(* an integer count of units, and every operation gives the float nearest   *)
(* to the exact result.  A behaviour is one run.                            *)
(***************************************************************************)
EXTENDS Integers, Sequences, FiniteSets

CONSTANTS
  FarmerCount,
  MaxReward, MaxPoints,    \* bounds on the inputs
  BASIS,                   \* 10000 in the code
  Fees, MaxFee,            \* the fees tried, and a bound on them
  MaxAdditions,            \* max_additions_per_transaction
  Mantissa,                \* floats are the products of a number of
                           \* Mantissa .. 2 * Mantissa - 1 (2^52 in the code)
  Steps,                   \* and a power of two, one of these; and 0
  Unit                     \* how many of the smallest step make 1.0

\* get_launcher_ids, in its order
Farmers == 1 .. FarmerCount

\* No number in a run is larger.
Largest == 4 * MaxReward * (1 + 2 * MaxFee) * Unit

\* The claims are floats themselves, and no number is too small or too large for
\* the floats there are.
ASSUME SplitAssumption ==
  /\ FarmerCount \in Nat \ {0} /\ MaxReward \in Nat \ {0} /\ MaxPoints \in Nat \ {0}
  /\ MaxAdditions \in Nat \ {0} /\ BASIS \in Nat \ {0}
  /\ MaxFee \in Nat /\ Fees \subseteq 0 .. MaxFee
  /\ Mantissa \in Nat \ {0} /\ MaxReward < 2 * Mantissa
  /\ BASIS < Mantissa /\ MaxPoints < Mantissa /\ FarmerCount < Mantissa
  /\ Steps \subseteq Nat \ {0} /\ 1 \in Steps /\ Unit \in Steps
  /\ \A s, t \in Steps : s <= t => t % s = 0
  /\ \A s \in Steps : 2 * s \in Steps \/ s * Mantissa > Largest
  /\ Unit >= 2 * Mantissa * BASIS /\ Unit >= Mantissa * FarmerCount * MaxPoints

VARIABLES
  claimed,            \* the sum of the unpaid claims
  fee_basis_points,
  earners,            \* the farmers with an unpaid partial
  points,             \* their points, and 0 for the others
  pc, payouts, payment_batches
vars == <<claimed, fee_basis_points, earners, points, pc, payouts, payment_batches>>

\* sum(), farmer by farmer
PartialSums(f) ==
  LET part[k \in 0 .. FarmerCount] == IF k = 0 THEN 0 ELSE part[k - 1] + f[k] IN part

Sum(f) == PartialSums(f)[FarmerCount]

\* The multiple of step nearest to n / d; of two, the even one
Nearest(n, d, step) ==
  LET low  == n \div (d * step)
      rest == 2 * (n - low * d * step)
      up   == rest > d * step \/ (rest = d * step /\ low % 2 = 1)
  IN  step * (IF up THEN low + 1 ELSE low)

\* The step between the floats around n / d
Step(n, d) ==
  CHOOSE s \in Steps : s * Mantissa * d <= n /\ n < 2 * s * Mantissa * d

\* The float nearest to n / d
Quotient(n, d) ==
  LET size == (IF n < 0 THEN -n ELSE n) * Unit
      near == IF n = 0 THEN 0 ELSE Nearest(size, d, Step(size, d))
  IN  IF n < 0 THEN -near ELSE near

\* int() of a float: towards zero
Truncated(x) == IF x < 0 THEN -((-x) \div Unit) ELSE x \div Unit

\* Fault: the fee is read as a share to pay out.
reward_total_FeeOnly ==
  Truncated(Quotient(claimed * Quotient(fee_basis_points, BASIS), Unit))

reward_total ==
  LET kept == Quotient(Unit - Quotient(fee_basis_points, BASIS), Unit)
  IN  Truncated(Quotient(claimed * kept, Unit))

total_points == Sum(points)

\* reward_total * points / total_points
raw(u) == Quotient(reward_total * points[u], total_points)

fraction(u) == raw(u) - Truncated(raw(u)) * Unit
remainder   == reward_total - Sum([u \in Farmers |-> Truncated(raw(u))])

\* The place of u in the sort by fraction, which is stable even in reverse
place(u) == Cardinality({v \in earners : \/ fraction(v) > fraction(u)
                                         \/ fraction(v) = fraction(u) /\ v < u})

\* Fault: the sort is ascending.
Chosen_Ascending(u) == Cardinality(earners) - 1 - place(u) < remainder

\* Fault: one mojo too few is handed out.
Chosen_OneShort(u) == place(u) < remainder - 1

\* fractions[:remainder], where a negative remainder counts from the end
Chosen(u) ==
  place(u) < IF remainder >= 0 THEN remainder ELSE Cardinality(earners) + remainder

\* A farmer may have partials and no points: v2.py:208 stores any difficulty that
\* he suggests, 0 too.
Init ==
  /\ claimed \in 0 .. MaxReward /\ fee_basis_points \in Fees
  /\ earners \in SUBSET Farmers
  /\ points \in [Farmers -> 0 .. MaxPoints]
  /\ \A u \in Farmers \ earners : points[u] = 0
  /\ pc = "start" /\ payouts = <<>> /\ payment_batches = <<>>

RunStep == UNCHANGED <<claimed, fee_basis_points, earners, points>>

\* Nothing to pay, or nobody to pay it to
Return ==
  /\ pc = "start" /\ (reward_total = 0 \/ earners = {})
  /\ pc' = "return"
  /\ RunStep /\ UNCHANGED <<payouts, payment_batches>>

\* All who wait have partials of difficulty 0: the division raises.
DivideRaises ==
  /\ pc = "start" /\ reward_total # 0 /\ earners # {} /\ total_points = 0
  /\ pc' = "raised"
  /\ RunStep /\ UNCHANGED <<payouts, payment_batches>>

Divide ==
  /\ pc = "start" /\ reward_total # 0 /\ earners # {} /\ total_points # 0
  /\ payouts' = [u \in earners |-> Truncated(raw(u)) + (IF Chosen(u) THEN 1 ELSE 0)]
  /\ pc' = "batch"
  /\ RunStep /\ UNCHANGED payment_batches

\* Fault: the last slice stops one short of the end.
Slice_Short(i) ==
  {u \in earners : LET rank == Cardinality({v \in earners : v < u})
                   IN  i <= rank /\ rank < i + MaxAdditions
                       /\ rank < Cardinality(earners) - 1}

\* list(payouts)[i : i + max_additions_per_transaction]
Slice(i) ==
  {u \in earners : LET rank == Cardinality({v \in earners : v < u})
                   IN  i <= rank /\ rank < i + MaxAdditions}

position == MaxAdditions * Len(payment_batches)

\* One turn of the loop: a negative amount is no uint64.
Batch ==
  /\ pc = "batch" /\ position < Cardinality(earners)
  /\ \A u \in Slice(position) : payouts[u] >= 0
  /\ payment_batches' = Append(payment_batches, Slice(position))
  /\ RunStep /\ UNCHANGED <<pc, payouts>>

BatchRaises ==
  /\ pc = "batch" /\ position < Cardinality(earners)
  /\ \E u \in Slice(position) : payouts[u] < 0
  /\ pc' = "raised"
  /\ RunStep /\ UNCHANGED <<payouts, payment_batches>>

Send ==
  /\ pc = "batch" /\ position >= Cardinality(earners)
  /\ pc' = "send"
  /\ RunStep /\ UNCHANGED <<payouts, payment_batches>>

Next == Return \/ DivideRaises \/ Divide \/ Batch \/ BatchRaises \/ Send

Spec == Init /\ [][Next]_vars

-----------------------------------------------------------------------------
(* Properties *)

InBatches(u) == Cardinality({b \in DOMAIN payment_batches : u \in payment_batches[b]})

\* What the wallet is told to send, once it is told
paid ==
  IF pc # "send" THEN 0
  ELSE Sum([u \in Farmers |-> IF u \in earners THEN InBatches(u) * payouts[u] ELSE 0])

\* What is divided is the total, to the mojo, whatever the floats do to the
\* shares (service.py:278-290), as long as the claims fit a float.
NothingLostNothingMade ==
  (pc = "send" /\ reward_total > 0) => paid = reward_total

\* More points never earn less (service.py:286-290).
MorePointsMorePay ==
  (pc = "send" /\ reward_total > 0) =>
    \A u, v \in earners : points[u] > points[v] => payouts[u] >= payouts[v]

\* The farmers get the claims less the fee, off by less than one mojo and what
\* three roundings change, if anyone has points: 1 - fee / BASIS is rarely a
\* float, so that the total may be a mojo below the exact one where that is whole.
\* A fee above 100% is accepted by the configuration: the total is negative, and
\* the slice of a negative remainder still hands out single mojos when the total
\* is so small that no share reaches one.  Nothing but such a fee, and work that
\* is worth nothing, makes a run raise before it sends (service.py:272-308).
FeeIsTaken ==
  LET exact    == claimed * (BASIS - fee_basis_points)
      rounding == 3 * claimed * BASIS
  IN  /\ (pc \in {"send", "raised", "return"} /\ total_points > 0) =>
           IF exact >= 0
             THEN /\ (exact - BASIS - paid * BASIS) * (2 * Mantissa) < rounding
                  /\ (paid * BASIS - exact) * (2 * Mantissa) <= rounding
             ELSE paid < Cardinality(earners)
      /\ pc = "raised" => (total_points = 0 \/ exact < 0)

\* Each earner is in one transaction and no transaction is longer than the
\* configuration allows (service.py:294-312).
EveryoneInOneBatch ==
  pc = "send" =>
    /\ \A u \in earners : InBatches(u) = 1
    /\ \A b \in DOMAIN payment_batches : Cardinality(payment_batches[b]) \in 1 .. MaxAdditions

=============================================================================
