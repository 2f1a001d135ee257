------------------------------- MODULE Store -------------------------------
(***************************************************************************)
(* The SQLite store (chia_pool/store/sqlite.py).                           *)
(*                                                                         *)
(* A table is a function from the primary keys it holds to rows, so the    *)
(* PRIMARY KEY constraint is the function itself.  Each operator below is  *)
(* one store method, named after it: it takes the table as it is when the  *)
(* statement runs and returns the table (or the rows) that result.  Every  *)
(* method is a single SQL statement in its own transaction, so a call is   *)
(* one atomic step of the modules that use it, and nothing is atomic       *)
(* across two calls.                                                       *)
(*                                                                         *)
(*   partials  pos_hash    -> [launcher_id, timestamp, confirmed]          *)
(*   claims    timestamp   -> [tx_confirmed, paid]                         *)
(*   payouts   set of timestamps                                           *)
(*   farmers   launcher_id -> [payout_instructions, difficulty,            *)
(*                             authentication_public_key]                  *)
(*                                                                         *)
(*   singletons launcher_id -> [coin_id, exiting]                          *)
(*                                                                         *)
(* Columns that no property tells apart (amounts, hashes, the version) are *)
(* left out of the rows.                                                   *)
(***************************************************************************)
EXTENDS Integers, FiniteSets

\* INSERT OR REPLACE of one row, and DELETE of a set of keys.
Upsert(table, key, row) ==
  [k \in DOMAIN table \cup {key} |-> IF k = key THEN row ELSE table[k]]

Without(table, keys) == [k \in DOMAIN table \ keys |-> table[k]]

-----------------------------------------------------------------------------
(* farmers and singletons *)

\* The whole row is replaced: there is no UPDATE of a single column.
add_farmer(farmers, launcher, row) == Upsert(farmers, launcher, row)

delete_farmer(farmers, launcher) == Without(farmers, {launcher})

\* SELECT launcher_id ... ORDER BY launcher_id LIMIT count OFFSET start
get_launcher_ids(farmers, start, count) ==
  {l \in DOMAIN farmers :
     LET rank == Cardinality({m \in DOMAIN farmers : m < l})
     IN  start <= rank /\ rank < start + count}

add_singleton(singletons, launcher, row) == Upsert(singletons, launcher, row)

delete_singleton(singletons, launcher) == Without(singletons, {launcher})

-----------------------------------------------------------------------------
(* partials *)

\* A resubmitted proof replaces its own row: new timestamp, unconfirmed.
add_partial(partials, launcher, pos_hash, timestamp) ==
  Upsert(partials, pos_hash,
         [launcher_id |-> launcher, timestamp |-> timestamp, confirmed |-> FALSE])

\* The rows of one farmer, and the two optional clauses of the WHERE.
get_partials(partials, launcher, confirmed) ==
  {p \in DOMAIN partials : /\ partials[p].launcher_id = launcher
                           /\ partials[p].confirmed = confirmed}

\* Fault: the lower end of the window is ignored.
Since_Unbounded(partials, rows, since) == rows

Since(partials, rows, since) == {p \in rows : partials[p].timestamp >= since}

Before(partials, rows, before) == {p \in rows : partials[p].timestamp < before}

\* Confirms by farmer and age alone: the rows are not named one by one.
confirm_partials(partials, launcher, until) ==
  [p \in DOMAIN partials |->
     IF partials[p].launcher_id = launcher /\ partials[p].timestamp < until
       THEN [partials[p] EXCEPT !.confirmed = TRUE]
       ELSE partials[p]]

delete_partial(partials, pos_hash) == Without(partials, {pos_hash})

delete_all_partials(partials, launcher) ==
  Without(partials, {p \in DOMAIN partials : partials[p].launcher_id = launcher})

-----------------------------------------------------------------------------
(* claims *)

add_reward_claim(claims, timestamp) ==
  Upsert(claims, timestamp, [tx_confirmed |-> FALSE, paid |-> FALSE])

pending_claims(claims) == {t \in DOMAIN claims : ~claims[t].tx_confirmed}

is_pending_reward_claim(claims) == pending_claims(claims) # {}

confirm_claim_tx(claims, timestamp) ==
  [claims EXCEPT ![timestamp].tx_confirmed = TRUE]

\* Fault: the paid column is not looked at.
get_unpaid_reward_claims_PaidToo(claims) == {t \in DOMAIN claims : claims[t].tx_confirmed}

get_unpaid_reward_claims(claims) ==
  {t \in DOMAIN claims : claims[t].tx_confirmed /\ ~claims[t].paid}

set_claims_statuses(claims, timestamps) ==
  [t \in DOMAIN claims |->
     IF t \in timestamps THEN [claims[t] EXCEPT !.paid = TRUE] ELSE claims[t]]

-----------------------------------------------------------------------------
(* payouts *)

\* INSERT without OR REPLACE: the caller must check that the key is free.
add_payout(payouts, timestamp) == payouts \cup {timestamp}

\* Fault: a sentinel that is not a uint64.
get_latest_payout_Minus(payouts) ==
  IF payouts = {} THEN -1 ELSE CHOOSE t \in payouts : \A u \in payouts : u <= t

\* Every caller reads "no payout yet" as timestamp 0.
get_latest_payout(payouts) ==
  IF payouts = {} THEN 0 ELSE CHOOSE t \in payouts : \A u \in payouts : u <= t

=============================================================================
