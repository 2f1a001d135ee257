------------------------ MODULE LedgerAccountsProofs ------------------------
(***************************************************************************)
(* Proof that Ledger implements Accounts, for every value of the constants *)
(* with timely requests.  Each step is looked at twice: what it does to    *)
(* the work account, and what it does to the money account.                *)
(***************************************************************************)
EXTENDS LedgerAccounts, LedgerProofs

\* A proof moves between these states of its account: WorkGoes, entry by entry.
LEMMA WorkMoves ==
  ASSUME NEW from, NEW to,
         \A p \in Proofs : WorkAccount(p)' # WorkAccount(p) =>
                             WorkAccount(p) \in from /\ WorkAccount(p)' \in to
  PROVE  A!WorkGoes(from, to)
<1>1. \A p \in Proofs : WorkAccount(p)' \in A!WorkState
  BY DEF WorkAccount, A!WorkState
<1> QED BY <1>1 DEF A!WorkGoes, WorkAccounts

LEMMA MoneyMoves ==
  ASSUME NEW from, NEW to,
         \A t \in Times : MoneyAccount(t)' # MoneyAccount(t) =>
                            MoneyAccount(t) \in from /\ MoneyAccount(t)' \in to
  PROVE  A!MoneyGoes(from, to)
<1>1. \A t \in Times : MoneyAccount(t)' \in A!MoneyState
  BY DEF MoneyAccount, A!MoneyState
<1> QED BY <1>1 DEF A!MoneyGoes, MoneyAccounts

\* What it takes for each account to stay as it is
LEMMA WorkSame ==
  ASSUME UNCHANGED <<partials, payouts, credited>>,
         \A p \in Confirmed :
           \/ BelowWatermark(p)
           \/ /\ p \in payer'.sent <=> p \in payer.sent
              /\ Uncounted(p)' <=> Uncounted(p)
  PROVE  UNCHANGED WorkAccounts
<1>1. ASSUME NEW p \in Proofs PROVE WorkAccount(p)' = WorkAccount(p)
  BY DEF WorkAccount, Confirmed, BelowWatermark
<1> QED BY <1>1 DEF WorkAccounts

LEMMA MoneySame ==
  ASSUME UNCHANGED <<claims, shared>>,
         \A t \in Times : (t \in payer'.funds /\ payer'.sent # {})
                            <=> (t \in payer.funds /\ payer.sent # {})
  PROVE  UNCHANGED MoneyAccounts
<1>1. ASSUME NEW t \in Times PROVE MoneyAccount(t)' = MoneyAccount(t)
  BY DEF MoneyAccount
<1> QED BY <1>1 DEF MoneyAccounts

\* The state of an entry, in the terms that the invariants use
LEMMA PaidWork ==
  ASSUME SafetyInv, Timely, TypeOK, payer.pc = "send"
  PROVE  \A p \in payer.counted :
           /\ p \in Confirmed /\ p \in Proofs /\ ~BelowWatermark(p)
           /\ p \in payer.sent <=> WorkAccount(p) = "paid"
<1> USE ConfigAssumption
<1> SUFFICES ASSUME NEW p \in payer.counted
             PROVE  /\ p \in Confirmed /\ p \in Proofs /\ ~BelowWatermark(p)
                    /\ p \in payer.sent <=> WorkAccount(p) = "paid"
  OBVIOUS
<1>1. /\ p \in Confirmed /\ p \in DOMAIN partials /\ partials[p].confirmed /\ p \in Proofs
      /\ payer.since <= partials[p].timestamp
  BY DEF SafetyInv, CreditInv, Confirmed, TypeOK
<1>2. /\ payer.since \in Int /\ payouts \subseteq Int
      /\ partials[p].timestamp \in Int
  BY <1>1 DEF TypeOK, PayerState, PartialRow, Times
<1>3. \A u \in payouts : u <= payer.since
  BY DEF SafetyInv, MoneyInv, PayerInv
<1>4. ~BelowWatermark(p)
  BY <1>1, <1>2, <1>3 DEF BelowWatermark
<1> QED BY <1>1, <1>4 DEF WorkAccount

-----------------------------------------------------------------------------
(* The requests, the confirmer and the claims *)

LEMMA StorePartialSubmits ==
  ASSUME Timely, TypeOK, SafetyInv, [Next]_vars, NEW r \in Requests, StorePartial(r)
  PROVE  A!Submit
<1> USE ConfigAssumption
<1> DEFINE q == request[r].proof
<1>1. /\ partials' = add_partial(partials, Owner[q], q, request[r].current_time)
      /\ UNCHANGED <<claims, payouts, payer, history>>
  BY DEF StorePartial, RequestStep
<1>2. q \notin Confirmed
  <2>1. q \in DOMAIN partials' /\ ~partials'[q].confirmed
    BY <1>1 DEF add_partial, Upsert
  <2> QED BY <2>1, FinalStep DEF SafetyInv, Confirmed
<1>3. \A p \in Proofs : WorkAccount(p)' # WorkAccount(p) =>
                          WorkAccount(p) \in {"none"} /\ WorkAccount(p)' \in {"waiting"}
  BY <1>1, <1>2 DEF add_partial, Upsert, WorkAccount, Confirmed, BelowWatermark, Uncounted, history
<1>4. UNCHANGED MoneyAccounts
  BY <1>1, MoneySame DEF history
<1> QED BY <1>3, <1>4, WorkMoves DEF A!Submit, MoneyAccounts

LEMMA ConfirmDeleteWithdraws ==
  ASSUME TypeOK, SafetyInv, ConfirmDelete
  PROVE  A!Withdraw
<1>1. /\ partials' = delete_partial(partials, confirmer.doomed)
      /\ UNCHANGED <<claims, payouts, payer, history>>
      /\ confirmer.doomed \notin Confirmed
  BY DEF ConfirmDelete, ConfirmerStep, SafetyInv, WorkInv, ConfirmerInv
<1>2. \A p \in Proofs : WorkAccount(p)' # WorkAccount(p) =>
                          WorkAccount(p) \in {"waiting"} /\ WorkAccount(p)' \in {"none"}
  BY <1>1 DEF delete_partial, Without, WorkAccount, Confirmed, BelowWatermark, Uncounted, history
<1>3. UNCHANGED MoneyAccounts
  BY <1>1, MoneySame DEF history
<1> QED BY <1>2, <1>3, WorkMoves DEF A!Withdraw, MoneyAccounts

LEMMA ConfirmRowsEarns ==
  ASSUME Timely, TypeOK, SafetyInv, ConfirmRows
  PROVE  A!Earn
<1>1. /\ partials' = confirm_partials(partials, confirmer.launcher, confirmer.target)
      /\ UNCHANGED <<claims, payouts, payer, history>>
  BY DEF ConfirmRows, ConfirmerStep
<1>2. /\ \A p \in DOMAIN partials : partials[p] \in PartialRow
      /\ credited \subseteq Confirmed /\ payer.sent \subseteq credited
  BY DEF TypeOK, SafetyInv, CreditInv, MoneyInv, PaidInv
<1>3. /\ DOMAIN partials' = DOMAIN partials
      /\ \A p \in DOMAIN partials :
           /\ partials'[p].timestamp = partials[p].timestamp
           /\ partials[p].confirmed => partials'[p].confirmed
  BY <1>1, <1>2 DEF confirm_partials, PartialRow
<1>4. \A p \in Proofs : WorkAccount(p)' # WorkAccount(p) =>
        /\ WorkAccount(p) \in {"waiting"}
        /\ WorkAccount(p)' \in {"earned", "late", "missed"}
  BY <1>1, <1>2, <1>3 DEF WorkAccount, Confirmed, BelowWatermark, Uncounted, history
<1>5. UNCHANGED MoneyAccounts
  BY <1>1, MoneySame DEF history
<1> QED BY <1>4, <1>5, WorkMoves DEF A!Earn, MoneyAccounts

LEMMA RecordClaimClaims ==
  ASSUME TypeOK, SafetyInv, RecordClaim
  PROVE  A!Claim
<1>1. /\ claims' = add_reward_claim(claims, now)
      /\ UNCHANGED <<partials, payouts, payer, history>>
  BY DEF RecordClaim, ClaimStep
<1>2. now \notin DOMAIN claims
  <2>1. (\A t \in DOMAIN claims : t < now) /\ now \in Int
    BY ConfigAssumption DEF RecordClaim, TypeOK, Times
  <2> QED BY <2>1
<1>3. \A t \in Times : MoneyAccount(t)' # MoneyAccount(t) =>
                         MoneyAccount(t) \in {"none"} /\ MoneyAccount(t)' \in {"pending"}
  BY <1>1, <1>2 DEF add_reward_claim, Upsert, MoneyAccount, history
<1>4. UNCHANGED WorkAccounts
  BY <1>1, WorkSame DEF history, Uncounted
<1> QED BY <1>3, <1>4, MoneyMoves DEF A!Claim, WorkAccounts

LEMMA ConfirmClaimReceives ==
  ASSUME TypeOK, SafetyInv, ConfirmClaim
  PROVE  A!Receive
<1>1. PICK u \in DOMAIN claims :
        claims' = confirm_claim_tx(claims, u) /\ ~claims[u].tx_confirmed
  BY DEF ConfirmClaim, pending_claims
<1>2. UNCHANGED <<partials, payouts, payer, history>>
  BY DEF ConfirmClaim, ClaimStep
<1>3. u \notin shared /\ ~claims[u].paid
  BY <1>1 DEF SafetyInv, MoneyInv, ClaimInv
<1>4. /\ DOMAIN claims' = DOMAIN claims
      /\ \A t \in DOMAIN claims : /\ claims'[t].paid <=> claims[t].paid
                                  /\ t # u => claims'[t] = claims[t]
      /\ claims'[u].tx_confirmed
  BY <1>1 DEF confirm_claim_tx, TypeOK, ClaimRow
<1>5. \A t \in Times : MoneyAccount(t)' # MoneyAccount(t) =>
                         MoneyAccount(t) \in {"pending"} /\ MoneyAccount(t)' \in {"received"}
  BY <1>1, <1>2, <1>3, <1>4 DEF MoneyAccount, history
<1>6. UNCHANGED WorkAccounts
  BY <1>2, WorkSame DEF history, Uncounted
<1> QED BY <1>5, <1>6, MoneyMoves DEF A!Receive, WorkAccounts

-----------------------------------------------------------------------------
(* The payer *)

\* Before the first payment a run changes neither account.
LEMMA CountingStutters ==
  ASSUME TypeOK, SafetyInv,
         PayBegin \/ PayCompute \/ \E l \in Launchers : PayCount(l)
  PROVE  UNCHANGED <<WorkAccounts, MoneyAccounts>>
<1> USE ConfigAssumption
<1>0. payer \in PayerState /\ PayerInv /\ RowInv
  BY DEF TypeOK, SafetyInv, MoneyInv, WorkInv
<1>1. \A p \in Confirmed :
        /\ p \in DOMAIN partials /\ partials[p].confirmed /\ p \in Proofs
        /\ partials[p].launcher_id = Owner[p] /\ Owner[p] \in Launchers
        /\ partials[p].timestamp \in Nat
  BY <1>0 DEF Confirmed, RowInv, TypeOK, PartialRow, Times
<1>2. UNCHANGED <<partials, claims, payouts, history>> /\ payer.pc \in {"idle", "count"}
  BY DEF PayBegin, PayCompute, PayCount, PayerStep
<1>3. payer.sent = {}
  BY <1>0, <1>2 DEF PayerInv, IdlePayer
<1>4. CASE PayBegin
  <2>1. /\ payer.pc = "idle" /\ payer'.sent = {} /\ payer'.todo = Launchers
    BY <1>4 DEF PayBegin, PayerStep, IdlePayer
  <2>2. \A p \in Confirmed : ~Uncounted(p) /\ ~Uncounted(p)'
    BY <1>1, <2>1 DEF Uncounted
  <2> QED BY <1>2, <1>3, <2>1, <2>2, WorkSame, MoneySame DEF history
<1>5. CASE PayCompute
  <2>1. /\ payer.pc = "count" /\ payer'.pc = "send" /\ payer'.sent = payer.sent
        /\ payer'.todo = payer.todo /\ payer'.counted = payer.counted
        /\ payer'.timestamp = payer.timestamp
    BY <1>0, <1>5 DEF PayCompute, PayerStep, PayerState
  <2>2. \A p \in Confirmed : Uncounted(p)' <=> Uncounted(p)
    BY <1>2, <2>1 DEF Uncounted
  <2> QED BY <1>2, <1>3, <2>1, <2>2, WorkSame, MoneySame DEF history
<1>6. ASSUME NEW l \in Launchers, PayCount(l)
      PROVE  UNCHANGED <<WorkAccounts, MoneyAccounts>>
  <2>1. /\ payer.pc = "count" /\ payer'.pc = "count" /\ payer'.sent = payer.sent
        /\ payer'.todo = payer.todo \ {l} /\ l \in payer.todo
        /\ payer'.counted = payer.counted \cup Unpaid(l)
        /\ payer'.timestamp = payer.timestamp
    BY <1>0, <1>6 DEF PayCount, PayerStep, PayerState
  <2>2. ASSUME NEW p \in Confirmed, ~BelowWatermark(p) PROVE Uncounted(p)' <=> Uncounted(p)
    <3>1. payer.since <= partials[p].timestamp
      <4>1. payer.since \in payouts \cup {0} /\ payouts \subseteq Int
        BY <1>0 DEF PayerInv, TypeOK, Times
      <4>2. partials[p].timestamp \in Nat
        BY <1>1
      <4>3. payer.since \in payouts => ~(partials[p].timestamp < payer.since)
        BY <2>2 DEF BelowWatermark
      <4>4. payer.since = 0 \/ (payer.since \in payouts /\ payer.since \in Int)
        BY <4>1
      <4> QED BY <4>2, <4>3, <4>4
    <3>2. Owner[p] = l /\ partials[p].timestamp < payer.timestamp => p \in Unpaid(l)
      BY <1>1, <3>1 DEF Unpaid, Since, Before, get_partials
    <3>3. Owner[p] # l => p \notin Unpaid(l)
      BY <1>1 DEF Unpaid, Since, Before, get_partials
    <3> QED BY <1>2, <2>1, <3>2, <3>3 DEF Uncounted
  <2> QED BY <1>2, <1>3, <2>1, <2>2, WorkSame, MoneySame DEF history
<1> QED BY <1>4, <1>5, <1>6

\* A batch pays work that was earned, or that lapsed, with all the run's money.
LEMMA PaySendPays ==
  ASSUME Timely, TypeOK, SafetyInv, PaySend
  PROVE  A!Pay
<1>0. payer \in PayerState /\ PayerInv /\ PaidInv /\ ClaimInv /\ payer.pc = "send"
  BY DEF TypeOK, SafetyInv, MoneyInv, PaySend
<1>1. PICK batch \in SUBSET payer.unsent :
        LET earned == {p \in payer.counted : Owner[p] \in batch} IN
        /\ batch # {}
        /\ PayerStep([payer EXCEPT !.unsent = @ \ batch, !.sent = @ \cup earned])
        /\ credited' = credited \cup earned
  BY DEF PaySend
<1> DEFINE earned == {p \in payer.counted : Owner[p] \in batch}
<1>2. /\ payer'.pc = "send" /\ payer'.counted = payer.counted /\ payer'.funds = payer.funds
      /\ payer'.timestamp = payer.timestamp /\ payer'.todo = payer.todo
      /\ payer'.sent = payer.sent \cup earned
      /\ credited' = credited \cup earned
      /\ UNCHANGED <<partials, claims, payouts>> /\ shared' = shared \cup payer.funds
  BY <1>0, <1>1, SendFunds DEF PayerStep, PayerState, PaySend
<1>3. earned # {}
  BY <1>0, <1>1, BatchEarned
<1>4. \A p \in earned : /\ p \in Confirmed /\ p \in Proofs /\ ~BelowWatermark(p)
                        /\ p \notin payer.sent
  BY <1>0, PaidWork DEF PayerInv
<1>5. ASSUME NEW p \in Proofs
      PROVE  /\ WorkAccount(p)' # WorkAccount(p) =>
                  WorkAccount(p) \in {"earned", "lapsed"} /\ WorkAccount(p)' \in {"paid"}
             /\ p \in earned => WorkAccount(p) # "paid" /\ WorkAccount(p)' = "paid"
  <2>1. CASE p \in earned
    BY <1>0, <1>2, <1>4, <2>1 DEF WorkAccount, Confirmed, BelowWatermark, Uncounted
  <2>2. CASE p \notin earned
    <3>1. /\ p \in payer'.sent <=> p \in payer.sent
          /\ p \in credited' <=> p \in credited
          /\ Uncounted(p)' <=> Uncounted(p)
          /\ BelowWatermark(p)' <=> BelowWatermark(p)
      BY <1>0, <1>2, <2>2 DEF Uncounted, BelowWatermark
    <3> QED BY <1>2, <2>2, <3>1 DEF WorkAccount
  <2> QED BY <2>1, <2>2
<1>6. A!WorkGoes({"earned", "lapsed"}, {"paid"})
  BY <1>5, WorkMoves
<1>7. A!In(WorkAccounts', {"paid"}) # A!In(WorkAccounts, {"paid"})
  <2>1. PICK p \in earned : p \in Proofs
    BY <1>3, <1>4
  <2>2. p \in A!In(WorkAccounts', {"paid"}) /\ p \notin A!In(WorkAccounts, {"paid"})
    BY <1>5, <2>1 DEF A!In, WorkAccounts
  <2> QED BY <2>2
<1>8. /\ payer.funds # {} /\ payer.funds \subseteq Times
      /\ \A t \in payer.funds : t \in DOMAIN claims /\ claims[t].tx_confirmed /\ ~claims[t].paid
      /\ payer'.sent # {}
  BY <1>0, <1>2, <1>3 DEF ClaimInv, get_unpaid_reward_claims, PayerState
<1>9. A!In(MoneyAccounts', {"shared"}) # {}
  <2>1. PICK t \in payer.funds : t \in Times
    BY <1>8
  <2>2. MoneyAccount(t)' = "shared"
    BY <1>2, <1>8, <2>1 DEF MoneyAccount
  <2> QED BY <2>1, <2>2 DEF A!In, MoneyAccounts
<1>10. CASE payer.sent = {}
  <2>1. \A t \in Times : MoneyAccount(t)' # MoneyAccount(t) =>
          MoneyAccount(t) \in {"received", "lapsed"} /\ MoneyAccount(t)' \in {"shared"}
    BY <1>2, <1>8, <1>10 DEF MoneyAccount
  <2>2. A!MoneyGoes({"received", "lapsed"}, {"shared"})
    BY <2>1, MoneyMoves
  <2>3. A!In(WorkAccounts, {"paid"}) = {}
    <3>1. \A p \in Proofs : WorkAccount(p) # "paid"
      BY <1>10 DEF WorkAccount
    <3> QED BY <3>1 DEF A!In, WorkAccounts
  <2> QED BY <1>6, <1>7, <1>9, <2>2, <2>3 DEF A!Pay, WorkAccounts, MoneyAccounts
<1>11. CASE payer.sent # {}
  <2>1. UNCHANGED MoneyAccounts
    <3>1. payer.funds \subseteq shared
      BY <1>0, <1>11 DEF ClaimInv
    <3> QED BY <1>2, <1>8, <1>11, <3>1, MoneySame
  <2>2. A!In(WorkAccounts, {"paid"}) # {}
    <3>1. PICK p \in payer.sent : p \in payer.counted
      BY <1>0, <1>11 DEF PayerInv
    <3>2. p \in Proofs /\ WorkAccount(p) = "paid"
      BY <1>0, <3>1, PaidWork
    <3> QED BY <3>2 DEF A!In, WorkAccounts
  <2> QED BY <1>6, <1>7, <1>9, <2>1, <2>2 DEF A!Pay, WorkAccounts, MoneyAccounts
<1> QED BY <1>10, <1>11

\* The watermark passes over what was paid and over what came too late, and over
\* nothing else.
LEMMA PayRecordRecords ==
  ASSUME Timely, TypeOK, SafetyInv, PayRecord
  PROVE  A!Record
<1> USE ConfigAssumption
<1>0. /\ payer \in PayerState /\ PayerInv /\ PaidInv /\ ClaimInv /\ CreditInv /\ DueInv
      /\ payer.pc = "send" /\ payer.unsent = {}
  BY DEF TypeOK, SafetyInv, MoneyInv, PayRecord
<1>1. /\ payer'.pc = "settle" /\ payer'.sent = payer.sent /\ payer'.funds = payer.funds
      /\ payouts' = payouts \cup {payer.timestamp}
      /\ UNCHANGED <<partials, claims, history>>
  BY <1>0 DEF PayRecord, PayerStep, PayerState, add_payout
<1>2. payer.counted = payer.sent /\ payer.sent # {} /\ payer.todo = {}
  BY <1>0 DEF PayerInv, PaidInv
<1>3. \A p \in Confirmed : /\ p \in DOMAIN partials /\ partials[p].confirmed
                           /\ partials[p].timestamp \in Int /\ p \in Proofs
  BY DEF Confirmed, TypeOK, PartialRow, Times
<1>4. payer.timestamp \in Int
  BY <1>0 DEF PayerState, Times
<1>5. ASSUME NEW p \in Confirmed
      PROVE  BelowWatermark(p)' <=> BelowWatermark(p) \/ partials[p].timestamp < payer.timestamp
  BY <1>1 DEF BelowWatermark
<1>6. ASSUME NEW p \in Confirmed, p \in credited, ~BelowWatermark(p)
      PROVE  p \in payer.sent
  <2>1. p \in payer.due \cup payer.sent
    BY <1>0, <1>6 DEF DueInv, BelowWatermark
  <2>2. p \in payer.due => p \in payer.counted
    BY <1>0 DEF DueInv
  <2> QED BY <1>2, <2>1, <2>2
<1>7. \A p \in payer.sent : /\ p \in Confirmed /\ p \in credited /\ ~BelowWatermark(p)
                            /\ partials[p].timestamp < payer.timestamp
                            /\ WorkAccount(p) = "paid"
  BY <1>0, <1>2, PaidWork DEF CreditInv, PaidInv
<1>8. ASSUME NEW p \in Proofs
      PROVE  /\ WorkAccount(p) # "lapsed"
             /\ WorkAccount(p)' = IF WorkAccount(p) = "paid" THEN "settled"
                                  ELSE IF WorkAccount(p) = "late" THEN "missed"
                                  ELSE WorkAccount(p)
  <2>1. CASE p \notin Confirmed
    BY <1>1, <2>1 DEF WorkAccount, Confirmed
  <2>2. CASE p \in Confirmed /\ BelowWatermark(p)
    BY <1>1, <1>3, <1>5, <2>2 DEF WorkAccount, history
  <2>3. CASE p \in payer.sent
    BY <1>1, <1>3, <1>5, <1>7, <2>3 DEF WorkAccount, history
  <2>4. CASE p \in Confirmed /\ ~BelowWatermark(p) /\ p \notin payer.sent
    <3>1. p \notin credited
      BY <1>6, <2>4
    <3>2. Uncounted(p) <=> partials[p].timestamp < payer.timestamp
      BY <1>0, <1>2, <2>4 DEF Uncounted
    <3>3. ~Uncounted(p)'
      BY <1>1 DEF Uncounted
    <3> QED BY <1>1, <1>3, <1>5, <2>4, <3>1, <3>2, <3>3 DEF WorkAccount, history
  <2> QED BY <2>1, <2>2, <2>3, <2>4
<1>9. WorkAccounts' = A!Moved(A!Moved(WorkAccounts, "paid", "settled"), "late", "missed")
  BY <1>8 DEF WorkAccounts, A!Moved
<1>10. A!In(WorkAccounts, {"paid"}) # {} /\ A!In(WorkAccounts, {"lapsed"}) = {}
  <2>1. PICK p \in payer.sent : p \in Proofs /\ WorkAccount(p) = "paid"
    BY <1>2, <1>3, <1>7
  <2> QED BY <1>8, <2>1 DEF A!In, WorkAccounts
<1>11. A!In(MoneyAccounts, {"shared"}) # {}
  <2>1. PICK t \in payer.funds : t \in Times
    BY <1>0 DEF ClaimInv, PayerState
  <2>2. MoneyAccount(t) = "shared"
    BY <1>0, <1>2, <2>1 DEF MoneyAccount, ClaimInv, get_unpaid_reward_claims
  <2> QED BY <2>1, <2>2 DEF A!In, MoneyAccounts
<1>12. UNCHANGED MoneyAccounts
  BY <1>1, MoneySame DEF history
<1> QED BY <1>9, <1>10, <1>11, <1>12 DEF A!Record, WorkAccounts, MoneyAccounts

\* The money of a run is written off, and its work is behind the watermark.
LEMMA PaySettleSettles ==
  ASSUME Timely, TypeOK, SafetyInv, PaySettle
  PROVE  A!Settle
<1>0. /\ payer \in PayerState /\ PayerInv /\ PaidInv /\ ClaimInv /\ CreditInv
      /\ payer.pc = "settle"
  BY DEF TypeOK, SafetyInv, MoneyInv, PaySettle
<1>1. /\ payer' = IdlePayer /\ claims' = set_claims_statuses(claims, payer.funds)
      /\ UNCHANGED <<partials, payouts, history>>
  BY DEF PaySettle, PayerStep
<1>2. payer.sent # {} /\ payer.funds # {} /\ payer.funds \subseteq Times
  BY <1>0 DEF PayerInv, PaidInv, ClaimInv, PayerState
<1>3. \A p \in payer.sent : BelowWatermark(p)
  BY <1>0 DEF PayerInv, CreditInv, BelowWatermark
<1>4. \A p \in Proofs : ~Uncounted(p) /\ ~Uncounted(p)'
  BY <1>0, <1>1 DEF Uncounted, IdlePayer
<1>5. UNCHANGED WorkAccounts
  <2>1. \A p \in Confirmed : BelowWatermark(p) \/ (p \in payer'.sent <=> p \in payer.sent)
    BY <1>1, <1>3 DEF IdlePayer
  <2>2. Confirmed \subseteq Proofs
    BY DEF Confirmed, TypeOK
  <2> QED BY <1>1, <1>4, <2>1, <2>2, WorkSame DEF history
<1>6. A!In(WorkAccounts, {"paid", "late"}) = {}
  <2>1. \A p \in Proofs : WorkAccount(p) \notin {"paid", "late"}
    BY <1>3, <1>4 DEF WorkAccount
  <2> QED BY <2>1 DEF A!In, WorkAccounts
<1>7. \A t \in payer.funds : t \in DOMAIN claims /\ claims[t].tx_confirmed /\ ~claims[t].paid
                             /\ t \in shared
  BY <1>0, <1>2 DEF ClaimInv, get_unpaid_reward_claims
<1>8. /\ DOMAIN claims' = DOMAIN claims
      /\ \A t \in DOMAIN claims : /\ claims'[t].paid <=> (claims[t].paid \/ t \in payer.funds)
                                  /\ claims'[t].tx_confirmed <=> claims[t].tx_confirmed
  BY <1>1 DEF set_claims_statuses, TypeOK, ClaimRow
<1>9. ASSUME NEW t \in Times
      PROVE  MoneyAccount(t)' = IF MoneyAccount(t) = "shared" THEN "settled" ELSE MoneyAccount(t)
  <2>1. CASE t \in payer.funds
    BY <1>1, <1>2, <1>7, <1>8, <2>1 DEF MoneyAccount
  <2>2. CASE t \notin payer.funds
    <3>1. t \notin payer'.funds /\ (t \in shared' <=> t \in shared)
      BY <1>1 DEF IdlePayer, history
    <3> QED BY <1>8, <2>2, <3>1 DEF MoneyAccount
  <2> QED BY <2>1, <2>2
<1>10. MoneyAccounts' = A!Moved(MoneyAccounts, "shared", "settled")
  BY <1>9 DEF MoneyAccounts, A!Moved
<1>11. A!In(MoneyAccounts, {"shared"}) # {}
  <2>1. PICK t \in payer.funds : t \in Times
    BY <1>2
  <2>2. MoneyAccount(t) = "shared"
    BY <1>2, <1>7, <2>1 DEF MoneyAccount
  <2> QED BY <2>1, <2>2 DEF A!In, MoneyAccounts
<1> QED BY <1>5, <1>6, <1>10, <1>11 DEF A!Settle, WorkAccounts, MoneyAccounts

\* A run that ends before it settles, with or without an error
LEMMA DroppedRunStops ==
  ASSUME Timely, TypeOK, SafetyInv, payer' = IdlePayer,
         UNCHANGED <<partials, claims, payouts, credited, shared>>
  PROVE  A!Stop
<1>0. PaidInv /\ ClaimInv
  BY DEF SafetyInv, MoneyInv
<1>1. payer'.sent = {} /\ payer'.funds = {} /\ payer'.pc = "idle"
  BY DEF IdlePayer
<1>2. ASSUME NEW p \in Proofs
      PROVE  WorkAccount(p)' = IF WorkAccount(p) = "paid" THEN "lapsed"
                               ELSE IF WorkAccount(p) = "late" THEN "earned"
                               ELSE WorkAccount(p)
  <2>1. BelowWatermark(p)' <=> BelowWatermark(p)
    BY DEF BelowWatermark
  <2>2. ~Uncounted(p)'
    BY <1>1 DEF Uncounted
  <2>3. p \in payer.sent => p \in credited
    BY <1>0 DEF PaidInv
  <2> QED BY <1>1, <2>1, <2>2, <2>3 DEF WorkAccount
<1>3. ASSUME NEW t \in Times
      PROVE  MoneyAccount(t)' = IF MoneyAccount(t) = "shared" THEN "lapsed" ELSE MoneyAccount(t)
  BY <1>1 DEF MoneyAccount
<1>4. WorkAccounts' = A!Moved(A!Moved(WorkAccounts, "paid", "lapsed"), "late", "earned")
  BY <1>2 DEF WorkAccounts, A!Moved
<1>5. MoneyAccounts' = A!Moved(MoneyAccounts, "shared", "lapsed")
  BY <1>3 DEF MoneyAccounts, A!Moved
<1> QED BY <1>4, <1>5 DEF A!Stop, WorkAccounts, MoneyAccounts

-----------------------------------------------------------------------------

\* Every step of the ledger is a step of the accounts, or none.
LEMMA StepRefines ==
  ASSUME Timely, TypeOK, SafetyInv, [Next]_vars
  PROVE  A!Next \/ UNCHANGED <<WorkAccounts, MoneyAccounts>>
<1>1. ASSUME UNCHANGED <<partials, claims, payouts, payer, history>>
      PROVE  UNCHANGED <<WorkAccounts, MoneyAccounts>>
  BY <1>1, WorkSame, MoneySame DEF history, Uncounted
<1>2. CASE Tick \/ NodeNext \/ UNCHANGED vars
  BY <1>1, <1>2 DEF Tick, NodeNext, NodeReceives, NodeReorgs, NodeForgets, SetNode, tables, vars
<1>3. CASE \E r \in Requests : RequestNext(r)
  <2>1. CASE \E r \in Requests : StorePartial(r)
    BY <2>1, StorePartialSubmits DEF A!Next
  <2> QED BY <1>1, <1>3, <2>1 DEF RequestNext, PostPartial, LookupRetry, LookupFound,
       RejectPartial, RequestStep
<1>4. CASE ConfirmerNext
  BY <1>1, <1>4, ConfirmDeleteWithdraws, ConfirmRowsEarns DEF ConfirmerNext, ConfirmBegin,
     ConfirmFetch, ConfirmEnd, ConfirmPageEnd, ConfirmRead, ConfirmVet, ConfirmCondemn,
     ConfirmerStep, A!Next
<1>5. CASE RecordClaim \/ ConfirmClaim
  BY <1>5, RecordClaimClaims, ConfirmClaimReceives DEF A!Next
<1>6. CASE PayerNext
  <2>1. CASE PayNothing \/ PayUnconvertible
    <3>1. payer' = IdlePayer /\ UNCHANGED <<partials, claims, payouts, credited, shared>>
      BY <2>1 DEF PayNothing, PayUnconvertible, PayerStep, history
    <3> QED BY <3>1, DroppedRunStops DEF A!Next
  <2> QED BY <1>6, <2>1, CountingStutters, PaySendPays, PayRecordRecords, PaySettleSettles
       DEF PayerNext, A!Next
<1>7. CASE PayFails \/ Restart
  <2>1. payer' = IdlePayer /\ UNCHANGED <<partials, claims, payouts, credited, shared>>
    BY <1>7 DEF PayFails, Restart, Abort, DropPayer, tables
  <2> QED BY <2>1, DroppedRunStops DEF A!Next
<1>8. CASE ConfirmFails
  BY <1>1, <1>8 DEF ConfirmFails, Abort, tables
<1> QED BY <1>2, <1>3, <1>4, <1>5, <1>6, <1>7, <1>8 DEF Next

\* If requests are timely, for every configuration: the store, the requests and
\* the two loops together keep the accounts that Accounts describes.
THEOREM LedgerImplementsAccounts ==
  ASSUME Timely
  PROVE  Spec => ImplementsAccounts
<1>1. Init => A!Init
  BY DEF Init, A!Init, WorkAccounts, MoneyAccounts, WorkAccount, MoneyAccount
<1>2. TypeOK /\ SafetyInv /\ [Next]_vars => [A!Next]_(A!vars)
  BY StepRefines DEF A!vars, WorkAccounts, MoneyAccounts
<1> QED BY <1>1, <1>2, TypeCorrect, LedgerIsSafe, PTL DEF Spec, ImplementsAccounts, A!Spec

=============================================================================
