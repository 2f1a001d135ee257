---------------------------- MODULE LedgerProofs ----------------------------
(***************************************************************************)
(* Proofs about module Ledger, for every set of farmers, proofs of space   *)
(* and concurrent requests and every configuration.                        *)
(*                                                                         *)
(* TypeOK and WorkInv are inductive together; PayerInv is inductive given  *)
(* TypeOK; CreditInv is inductive given all three, because under Timely a  *)
(* step never disturbs confirmed work (FinalStep).  The theorems about the *)
(* properties of Ledger follow from those invariants.                      *)
(*                                                                         *)
(* The last part is the payer's side: a run that records its payout has    *)
(* paid all it counted and all that was due, and claims are shared out     *)
(* once.  Each of PaidInv, ClaimInv and DueInv is inductive given what     *)
(* precedes it.                                                            *)
(***************************************************************************)
EXTENDS Ledger, StoreProofs

\* get_latest_payout returns 0 or the largest timestamp of the table.
LEMMA LatestPayout ==
  ASSUME NEW S, S \subseteq Times
  PROVE  /\ get_latest_payout(S) \in Times
         /\ get_latest_payout(S) \in S \cup {0}
         /\ \A u \in S : u <= get_latest_payout(S)
BY ConfigAssumption, LargestPayout DEF Times

-----------------------------------------------------------------------------
\* The empty store and idle actors are well typed.
LEMMA TypeInit == Init => TypeOK
<1> SUFFICES ASSUME Init PROVE TypeOK
  OBVIOUS
<1> QED BY ConfigAssumption DEF Init, TypeOK, Times, SignagePoint, IdleRequest, RequestState,
           IdleConfirmer, ConfirmerState, IdlePayer, PayerState, PartialRow, ClaimRow

\* Every step of every actor keeps rows and records well typed.
LEMMA TypeStep == TypeOK /\ [Next]_vars => TypeOK'
<1> SUFFICES ASSUME TypeOK, [Next]_vars PROVE TypeOK'
  OBVIOUS
<1> USE ConfigAssumption
<1>1. CASE Tick
  BY <1>1 DEF Tick, tables, history, TypeOK, Times
<1>2. CASE NodeNext
  <2>1. now \in Times
    BY DEF TypeOK, Times
  <2>2. ASSUME NEW p \in Proofs, NEW s \in {"unseen", "live", "reverted", "forgotten"},
               NEW t \in Times, SetNode(p, s, t)
        PROVE  TypeOK'
    BY <2>2 DEF SetNode, tables, history, TypeOK, SignagePoint
  <2>3. \A p \in Proofs : node[p].time_received \in Times
    BY DEF TypeOK, SignagePoint
  <2> QED BY <1>2, <2>1, <2>2, <2>3 DEF NodeNext, NodeReceives, NodeReorgs, NodeForgets
<1>3. ASSUME NEW r \in Requests, RequestNext(r) PROVE TypeOK'
  <2>0. now \in Times /\ request[r] \in RequestState
    BY DEF TypeOK, Times
  <2>1. ASSUME NEW next \in RequestState, RequestStep(r, next), UNCHANGED partials
        PROVE  TypeOK'
    BY <2>1 DEF RequestStep, history, TypeOK
  <2>2. CASE \E p \in Proofs : PostPartial(r, p)
    BY <2>0, <2>1, <2>2 DEF PostPartial, RequestState
  <2>3. CASE LookupRetry(r)
    <3>1. request[r] \in [pc : {"lookup", "store"}, proof : Proofs, current_time : Times,
                          retried : BOOLEAN]
      BY <2>0, <2>3 DEF LookupRetry, RequestState, IdleRequest
    <3>2. [request[r] EXCEPT !.retried = TRUE] \in RequestState
      BY <3>1 DEF RequestState
    <3> QED BY <2>1, <2>3, <3>2 DEF LookupRetry
  <2>4. CASE LookupFound(r)
    BY <2>0, <2>1, <2>4 DEF LookupFound, RequestState, IdleRequest
  <2>5. CASE RejectPartial(r)
    BY <2>0, <2>1, <2>5 DEF RejectPartial, RequestState
  <2>6. CASE StorePartial(r)
    BY <2>0, <2>6 DEF StorePartial, RequestStep, history, TypeOK, RequestState, IdleRequest,
       add_partial, Upsert, PartialRow
  <2> QED BY <1>3, <2>2, <2>3, <2>4, <2>5, <2>6 DEF RequestNext
<1>4. CASE ConfirmerNext
  <2>1. ASSUME NEW next \in ConfirmerState, ConfirmerStep(next), UNCHANGED partials
        PROVE  TypeOK'
    BY <2>1 DEF ConfirmerStep, history, TypeOK
  <2>2. confirmer \in ConfirmerState /\ IdleConfirmer \in ConfirmerState
    BY DEF TypeOK, ConfirmerState, IdleConfirmer, Times
  <2>3. CASE ConfirmBegin
    BY <2>1, <2>2, <2>3 DEF ConfirmBegin, ConfirmerState
  <2>4. CASE ConfirmFetch
    <3>1. now - Delay \in Times
      BY DEF TypeOK, Times
    <3> QED BY <2>1, <2>2, <2>4, <3>1 DEF ConfirmFetch, ConfirmerState
  <2>5. CASE ConfirmEnd \/ ConfirmPageEnd
    <3>0. 0 \in Times
      BY DEF Times
    <3>1. [confirmer EXCEPT !.pc = "fetch", !.target = 0] \in ConfirmerState
      BY <2>2, <3>0 DEF ConfirmerState
    <3>2. CASE ConfirmEnd
      BY <2>1, <2>2, <3>2 DEF ConfirmEnd
    <3>3. CASE ConfirmPageEnd
      BY <2>1, <3>1, <3>3 DEF ConfirmPageEnd
    <3> QED BY <2>5, <3>2, <3>3
  <2>6. CASE \E l \in Launchers : ConfirmRead(l)
    <3>1. DOMAIN partials \subseteq Proofs
      BY DEF TypeOK
    <3> QED BY <2>1, <2>2, <2>6, <3>1 DEF ConfirmRead, ConfirmerState, get_partials, Before
  <2>7. CASE \E p \in Proofs : ConfirmVet(p) \/ ConfirmCondemn(p)
    BY <2>1, <2>2, <2>7 DEF ConfirmVet, ConfirmCondemn, ConfirmerState
  <2>8. CASE ConfirmDelete
    BY <2>2, <2>8 DEF ConfirmDelete, ConfirmerStep, history, TypeOK, ConfirmerState,
       delete_partial, Without
  <2>9. CASE ConfirmRows
    <3>1. DOMAIN partials' = DOMAIN partials /\ confirmer' \in ConfirmerState
      BY <2>2, <2>9 DEF ConfirmRows, ConfirmerStep, ConfirmerState, confirm_partials
    <3>2. \A p \in DOMAIN partials : partials[p] \in PartialRow
      BY DEF TypeOK
    <3>3. \A p \in DOMAIN partials : [partials[p] EXCEPT !.confirmed = TRUE] \in PartialRow
      BY <3>2 DEF PartialRow
    <3>4. partials' \in [DOMAIN partials -> PartialRow]
      BY <2>9, <3>2, <3>3 DEF ConfirmRows, confirm_partials
    <3> QED BY <2>9, <3>1, <3>4 DEF ConfirmRows, ConfirmerStep, history, TypeOK
  <2> QED BY <1>4, <2>3, <2>4, <2>5, <2>6, <2>7, <2>8, <2>9 DEF ConfirmerNext
<1>5. CASE RecordClaim
  BY <1>5 DEF RecordClaim, ClaimStep, history, TypeOK, Times, add_reward_claim, Upsert, ClaimRow
<1>6. CASE ConfirmClaim
  <2>1. \A t \in DOMAIN claims :
          claims[t] \in ClaimRow /\ [claims[t] EXCEPT !.tx_confirmed = TRUE] \in ClaimRow
    BY DEF TypeOK, ClaimRow
  <2>2. PICK t \in DOMAIN claims : claims' = confirm_claim_tx(claims, t)
    BY <1>6 DEF ConfirmClaim, pending_claims
  <2>3. DOMAIN claims' = DOMAIN claims
    BY <2>2 DEF confirm_claim_tx
  <2>4. claims' \in [DOMAIN claims -> ClaimRow]
    BY <2>1, <2>2 DEF confirm_claim_tx, TypeOK
  <2> QED BY <1>6, <2>3, <2>4 DEF ConfirmClaim, ClaimStep, history, TypeOK
<1>7. CASE PayerNext
  <2>0. payer \in PayerState /\ IdlePayer \in PayerState /\ now \in Times
    BY DEF TypeOK, PayerState, IdlePayer, Times
  <2>1. ASSUME NEW next \in PayerState, PayerStep(next),
               UNCHANGED <<claims, payouts, aborts, history>>
        PROVE  TypeOK'
    BY <2>1 DEF PayerStep, history, TypeOK
  <2>2. CASE PayBegin
    <3>1. get_latest_payout(payouts) \in Times
      BY LatestPayout DEF TypeOK
    <3>2. UNION {current_points(l) : l \in Launchers} \subseteq Proofs
      BY DEF current_points, Since, Before, get_partials, TypeOK
    <3> QED BY <2>0, <2>1, <2>2, <3>1, <3>2 DEF PayBegin, PayerState
  <2>3. CASE PayNothing \/ PayUnconvertible
    BY <2>0, <2>1, <2>3 DEF PayNothing, PayUnconvertible
  <2>4. CASE PayCompute
    <3>1. get_unpaid_reward_claims(claims) \subseteq Times
      BY DEF get_unpaid_reward_claims, TypeOK
    <3>2. Earners \subseteq Launchers
      BY <2>0 DEF Earners, PayerState
    <3> QED BY <2>0, <2>1, <2>4, <3>1, <3>2 DEF PayCompute, PayerState
  <2>5. CASE \E l \in Launchers : PayCount(l)
    <3>1. \A l \in Launchers : Unpaid(l) \subseteq Proofs
      BY DEF Unpaid, Since, Before, get_partials, TypeOK
    <3> QED BY <2>0, <2>1, <2>5, <3>1 DEF PayCount, PayerState
  <2>6. CASE PaySend
    <3>1. PICK batch \in SUBSET payer.unsent :
            LET earned == {p \in payer.counted : Owner[p] \in batch} IN
            /\ PayerStep([payer EXCEPT !.unsent = @ \ batch, !.sent = @ \cup earned])
            /\ credited' = credited \cup earned
            /\ recredited' = recredited \cup (credited \cap earned)
      BY <2>6 DEF PaySend
    <3> DEFINE earned == {p \in payer.counted : Owner[p] \in batch}
    <3>2. [payer EXCEPT !.unsent = @ \ batch, !.sent = @ \cup earned] \in PayerState
      BY <2>0 DEF PayerState
    <3>3. credited' \subseteq Proofs /\ recredited' \subseteq Proofs
      BY <2>0, <3>1 DEF TypeOK, PayerState
    <3>4. shared' \subseteq Times /\ reshared' \subseteq Times
      BY <2>0, <2>6 DEF PaySend, TypeOK, PayerState
    <3> QED BY <2>6, <3>1, <3>2, <3>3, <3>4 DEF PaySend, PayerStep, TypeOK
  <2>7. CASE PayRecord
    BY <2>0, <2>7 DEF PayRecord, PayerStep, PayerState, history, TypeOK, add_payout
  <2>8. CASE PaySettle
    BY <2>0, <2>8 DEF PaySettle, PayerStep, history, TypeOK, ClaimRow, set_claims_statuses
  <2> QED BY <1>7, <2>2, <2>3, <2>4, <2>5, <2>6, <2>7, <2>8 DEF PayerNext
<1>8. CASE PayFails \/ ConfirmFails \/ Restart
  <2>1. IdlePayer \in PayerState /\ IdleConfirmer \in ConfirmerState /\ IdleRequest \in RequestState
    BY DEF PayerState, IdlePayer, ConfirmerState, IdleConfirmer, RequestState, Times
  <2>2. payer.sent \subseteq Proofs /\ payer.funds \subseteq Times
    BY DEF TypeOK, PayerState
  <2>3. DropPayer => (unrecorded' \subseteq Proofs /\ unsettled' \subseteq Times)
    BY <2>2 DEF DropPayer, TypeOK
  <2>4. Abort => aborts' \in 0 .. MaxAborts
    BY DEF Abort, TypeOK
  <2> QED BY <1>8, <2>1, <2>3, <2>4 DEF PayFails, ConfirmFails, Restart, Abort, DropPayer, tables,
             history, TypeOK
<1>9. CASE UNCHANGED vars
  BY <1>9 DEF vars, tables, history, TypeOK
<1> QED BY <1>1, <1>2, <1>3, <1>4, <1>5, <1>6, <1>7, <1>8, <1>9 DEF Next

\* TypeOK, for every set of farmers, proofs and requests and every configuration.
THEOREM TypeCorrect == Spec => []TypeOK
BY TypeInit, TypeStep, PTL DEF Spec

-----------------------------------------------------------------------------
(* Which steps touch which variables *)

\* The claim rows, the payer and its failures leave the partials side alone.
LEMMA Frame ==
  ASSUME [Next]_vars
  PROVE  \/ Tick
         \/ NodeNext
         \/ \E r \in Requests : RequestNext(r)
         \/ ConfirmerNext
         \/ UNCHANGED <<now, node, partials>> /\ confirmer' = IdleConfirmer
              /\ request' \in {request, [r \in Requests |-> IdleRequest]}
         \/ UNCHANGED <<now, node, partials, request, confirmer>>
<1>1. CASE RecordClaim \/ ConfirmClaim
  BY <1>1 DEF RecordClaim, ConfirmClaim, ClaimStep
<1>2. CASE PayerNext
  BY <1>2 DEF PayerNext, PayBegin, PayNothing, PayCompute, PayUnconvertible, PayCount, PaySend,
     PayRecord, PaySettle, PayerStep
<1>3. CASE PayFails \/ ConfirmFails \/ Restart
  BY <1>3 DEF PayFails, ConfirmFails, Restart, Abort, tables
<1>4. CASE UNCHANGED vars
  BY <1>4 DEF vars, tables
<1> QED BY <1>1, <1>2, <1>3, <1>4 DEF Next

\* Only three steps write the partials table.
LEMMA PartialsFrame ==
  ASSUME [Next]_vars
  PROVE  \/ \E r \in Requests : StorePartial(r)
         \/ ConfirmDelete
         \/ ConfirmRows
         \/ UNCHANGED partials
<1>1. CASE Tick \/ NodeNext
  BY <1>1 DEF Tick, NodeNext, NodeReceives, NodeReorgs, NodeForgets, SetNode, tables
<1>2. CASE \E r \in Requests : RequestNext(r)
  BY <1>2 DEF RequestNext, PostPartial, LookupRetry, LookupFound, RejectPartial
<1>3. CASE ConfirmerNext
  BY <1>3 DEF ConfirmerNext, ConfirmBegin, ConfirmFetch, ConfirmEnd, ConfirmPageEnd,
     ConfirmRead, ConfirmVet, ConfirmCondemn
<1> QED BY <1>1, <1>2, <1>3, Frame

-----------------------------------------------------------------------------
(* WorkInv, part by part *)

\* The node never holds a signage point from the future.
LEMMA NodeStep ==
  ASSUME TypeOK, NodeInv, [Next]_vars
  PROVE  NodeInv'
<1> USE ConfigAssumption
<1>0. now \in Int /\ \A p \in Proofs : node[p].time_received \in Int
  BY DEF TypeOK, SignagePoint, Times
<1>1. CASE Tick
  BY <1>0, <1>1 DEF Tick, NodeInv
<1>2. CASE NodeNext
  BY <1>0, <1>2 DEF NodeNext, NodeReceives, NodeReorgs, NodeForgets, SetNode, NodeInv, TypeOK
<1>3. CASE UNCHANGED <<now, node>>
  BY <1>3 DEF NodeInv
<1>4. CASE \E r \in Requests : RequestNext(r)
  BY <1>3, <1>4 DEF RequestNext, PostPartial, LookupRetry, LookupFound, RejectPartial,
     StorePartial, RequestStep
<1>5. CASE ConfirmerNext
  BY <1>3, <1>5 DEF ConfirmerNext, ConfirmBegin, ConfirmFetch, ConfirmEnd, ConfirmPageEnd,
     ConfirmRead, ConfirmVet, ConfirmCondemn, ConfirmDelete, ConfirmRows, ConfirmerStep
<1> QED BY <1>1, <1>2, <1>3, <1>4, <1>5, Frame

\* RequestInv of one request
RequestOK(q) ==
  q.pc # "idle" =>
    /\ q.current_time <= now /\ now <= q.current_time + MaxRequestTime
    /\ q.pc = "store" =>
         /\ node[q.proof].status # "unseen"
         /\ node[q.proof].time_received - MaxRequestTime <= q.current_time
         /\ q.current_time <= node[q.proof].time_received + TimeLimit

\* Open requests stay young, and in time for their signage point.
LEMMA RequestStepInv ==
  ASSUME TypeOK, NodeInv, RequestInv, [Next]_vars
  PROVE  RequestInv'
<1> USE ConfigAssumption
<1>0. /\ now \in Int
      /\ \A p \in Proofs : node[p].time_received \in Int
      /\ \A r \in Requests : /\ request[r] \in RequestState
                             /\ request[r].current_time \in Int
                             /\ request[r].pc # "idle" => request[r].proof \in Proofs
  BY DEF TypeOK, SignagePoint, Times, RequestState, IdleRequest
<1>1. CASE Tick
  BY <1>0, <1>1 DEF Tick, RequestInv
<1>2. CASE NodeNext
  BY <1>0, <1>2 DEF NodeNext, NodeReceives, NodeReorgs, NodeForgets, SetNode, RequestInv, TypeOK
<1>3. ASSUME NEW r \in Requests, RequestNext(r) PROVE RequestInv'
  <2>1. ASSUME NEW q, RequestStep(r, q), RequestOK(q) PROVE RequestInv'
    BY <1>0, <2>1 DEF RequestStep, RequestOK, RequestInv, TypeOK
  <2>2. RequestOK(request[r]) /\ RequestOK(IdleRequest)
    BY DEF RequestInv, RequestOK, IdleRequest
  <2>3. CASE \E p \in Proofs : PostPartial(r, p)
    BY <1>0, <2>1, <2>3 DEF PostPartial, RequestOK
  <2>4. CASE LookupRetry(r)
    <3>1. RequestOK([request[r] EXCEPT !.retried = TRUE])
      BY <1>0, <2>2, <2>4 DEF LookupRetry, RequestOK, RequestState, IdleRequest
    <3> QED BY <2>1, <2>4, <3>1 DEF LookupRetry
  <2>5. CASE LookupFound(r)
    <3>1. request[r].current_time - node[request[r].proof].time_received <= TimeLimit
      BY <2>5 DEF LookupFound, InTime
    <3>2. node[request[r].proof].status # "unseen"
      BY <2>5 DEF LookupFound, exists
    <3>3. node[request[r].proof].time_received <= now
      BY <1>0, <2>5 DEF LookupFound, NodeInv
    <3>4. RequestOK([request[r] EXCEPT !.pc = "store"])
      BY <1>0, <2>2, <2>5, <3>1, <3>2, <3>3 DEF LookupFound, RequestOK, RequestState, IdleRequest
    <3> QED BY <2>1, <2>5, <3>4 DEF LookupFound
  <2>6. CASE StorePartial(r) \/ RejectPartial(r)
    BY <2>1, <2>2, <2>6 DEF StorePartial, RejectPartial
  <2> QED BY <1>3, <2>3, <2>4, <2>5, <2>6 DEF RequestNext
<1>4. CASE UNCHANGED <<now, node, request>>
  BY <1>4 DEF RequestInv
<1>5. CASE ConfirmerNext
  BY <1>4, <1>5 DEF ConfirmerNext, ConfirmBegin, ConfirmFetch, ConfirmEnd, ConfirmPageEnd,
     ConfirmRead, ConfirmVet, ConfirmCondemn, ConfirmDelete, ConfirmRows, ConfirmerStep
<1>6. CASE UNCHANGED <<now, node>> /\ request' = [r \in Requests |-> IdleRequest]
  BY <1>6 DEF RequestInv, IdleRequest
<1> QED BY <1>1, <1>2, <1>3, <1>4, <1>5, <1>6, Frame

\* Rows keep the times their requests had; UPDATE confirms old rows only.
LEMMA RowStepInv ==
  ASSUME TypeOK, RequestInv, RowInv, ConfirmerInv, [Next]_vars
  PROVE  RowInv'
<1> USE ConfigAssumption
<1>0. /\ now \in Int
      /\ DOMAIN partials \subseteq Proofs
      /\ \A p \in Proofs : node[p].time_received \in Int
      /\ \A p \in DOMAIN partials : partials[p] \in PartialRow /\ partials[p].timestamp \in Int
  BY DEF TypeOK, SignagePoint, Times, PartialRow
<1>1. CASE Tick
  BY <1>0, <1>1 DEF Tick, tables, RowInv
<1>2. CASE NodeNext
  BY <1>0, <1>2 DEF NodeNext, NodeReceives, NodeReorgs, NodeForgets, SetNode, tables, RowInv,
     TypeOK
<1>3. CASE UNCHANGED <<now, node>>
  <2>1. CASE UNCHANGED partials
    BY <1>3, <2>1 DEF RowInv
  <2>2. ASSUME NEW r \in Requests, StorePartial(r) PROVE RowInv'
    <3> DEFINE q == request[r]
    <3>1. q.proof \in Proofs /\ q.pc = "store"
      BY <2>2 DEF StorePartial, TypeOK, RequestState, IdleRequest
    <3>2. /\ node[q.proof].status # "unseen"
          /\ node[q.proof].time_received - MaxRequestTime <= q.current_time
          /\ q.current_time <= node[q.proof].time_received + TimeLimit
      BY <3>1 DEF RequestInv
    <3>3. partials' = add_partial(partials, Owner[q.proof], q.proof, q.current_time)
      BY <2>2 DEF StorePartial
    <3> HIDE DEF q
    <3> QED BY <1>3, <3>1, <3>2, <3>3 DEF RowInv, add_partial, Upsert
  <2>3. CASE ConfirmDelete
    BY <1>3, <2>3 DEF ConfirmDelete, delete_partial, Without, RowInv
  <2>4. CASE ConfirmRows
    <3>1. confirmer.target + Delay <= now /\ confirmer.target \in Int
      BY <2>4 DEF ConfirmRows, ConfirmerInv, TypeOK, ConfirmerState, Times
    <3>2. partials' = confirm_partials(partials, confirmer.launcher, confirmer.target)
      BY <2>4 DEF ConfirmRows
    <3>3. ASSUME NEW p \in DOMAIN partials
          PROVE  /\ partials'[p].launcher_id = partials[p].launcher_id
                 /\ partials'[p].timestamp = partials[p].timestamp
                 /\ partials'[p].confirmed =>
                      partials[p].confirmed \/ partials[p].timestamp < confirmer.target
      BY <1>0, <3>2 DEF confirm_partials, PartialRow
    <3>4. DOMAIN partials' = DOMAIN partials
      BY <3>2 DEF confirm_partials
    <3> QED BY <1>0, <1>3, <3>1, <3>3, <3>4 DEF RowInv
  <2> QED BY <2>1, <2>2, <2>3, <2>4, PartialsFrame
<1>4. CASE \E r \in Requests : RequestNext(r)
  BY <1>3, <1>4 DEF RequestNext, PostPartial, LookupRetry, LookupFound, RejectPartial,
     StorePartial, RequestStep
<1>5. CASE ConfirmerNext
  BY <1>3, <1>5 DEF ConfirmerNext, ConfirmBegin, ConfirmFetch, ConfirmEnd, ConfirmPageEnd,
     ConfirmRead, ConfirmVet, ConfirmCondemn, ConfirmDelete, ConfirmRows, ConfirmerStep
<1> QED BY <1>1, <1>2, <1>3, <1>4, <1>5, Frame

\* The pass keeps account of every unconfirmed row below its target.
LEMMA ConfirmerStepInv ==
  ASSUME TypeOK, RequestInv, ConfirmerInv, [Next]_vars
  PROVE  ConfirmerInv'
<1> USE ConfigAssumption
<1>0. /\ now \in Int
      /\ DOMAIN partials \subseteq Proofs
      /\ confirmer \in ConfirmerState /\ confirmer.target \in Int
      /\ \A p \in DOMAIN partials : partials[p] \in PartialRow /\ partials[p].timestamp \in Int
  BY DEF TypeOK, ConfirmerState, Times, PartialRow
<1>1. CASE Tick
  BY <1>0, <1>1 DEF Tick, tables, ConfirmerInv, Accounted, Confirmed
<1>2. CASE UNCHANGED <<now, partials, confirmer>>
  BY <1>2 DEF ConfirmerInv, Accounted, Confirmed
<1>3. CASE NodeNext
  BY <1>2, <1>3 DEF NodeNext, NodeReceives, NodeReorgs, NodeForgets, SetNode, tables
<1>4. ASSUME NEW r \in Requests, RequestNext(r) PROVE ConfirmerInv'
  <2>1. CASE UNCHANGED partials
    BY <1>2, <1>4, <2>1 DEF RequestNext, PostPartial, LookupRetry, LookupFound, RejectPartial,
       StorePartial, RequestStep
  <2>2. CASE StorePartial(r)
    <3> DEFINE q == request[r]
    <3>1. q.proof \in Proofs /\ q.pc = "store" /\ q.current_time \in Int
      BY <2>2 DEF StorePartial, TypeOK, RequestState, IdleRequest, Times
    <3>2. now <= q.current_time + MaxRequestTime
      BY <3>1 DEF RequestInv
    <3>3. /\ partials' = add_partial(partials, Owner[q.proof], q.proof, q.current_time)
          /\ UNCHANGED <<now, confirmer>>
      BY <2>2 DEF StorePartial, RequestStep
    <3> HIDE DEF q
    <3>4. /\ DOMAIN partials' = DOMAIN partials \cup {q.proof}
          /\ partials'[q.proof].timestamp = q.current_time
          /\ ~partials'[q.proof].confirmed
          /\ \A p \in DOMAIN partials : p # q.proof => partials'[p] = partials[p]
      BY <3>3 DEF add_partial, Upsert
    <3>5. Confirmed' \subseteq Confirmed
      BY <3>4 DEF Confirmed
    <3>6. RequestsOutrun /\ confirmer.pc \in {"check", "delete"} =>
            ~ (q.current_time < confirmer.target)
      BY <1>0, <3>1, <3>2 DEF RequestsOutrun, ConfirmerInv
    <3> QED BY <3>3, <3>4, <3>5, <3>6 DEF ConfirmerInv, Accounted, RequestsOutrun
  <2> QED BY <1>4, <2>1, <2>2 DEF RequestNext, PostPartial, LookupRetry, LookupFound, RejectPartial
<1>5. CASE ConfirmerNext
  <2>1. CASE ConfirmBegin \/ ConfirmEnd \/ ConfirmPageEnd
    <3>1. CASE ConfirmBegin
      <4>1. confirmer'.pc = "fetch" /\ confirmer'.doomed = NoProof
        BY <3>1 DEF ConfirmBegin, ConfirmerStep, IdleConfirmer
      <4> QED BY <4>1 DEF ConfirmerInv
    <3>3. CASE ConfirmEnd
      BY <3>3 DEF ConfirmEnd, ConfirmerStep, ConfirmerInv, IdleConfirmer
    <3>2. CASE ConfirmPageEnd
      BY <1>0, <3>2 DEF ConfirmPageEnd, ConfirmerStep, ConfirmerState, ConfirmerInv
    <3> QED BY <2>1, <3>1, <3>2, <3>3
  <2>2. CASE ConfirmFetch
    BY <1>0, <2>2 DEF ConfirmFetch, ConfirmerStep, ConfirmerState, ConfirmerInv
  <2>3. ASSUME NEW l \in Launchers, ConfirmRead(l) PROVE ConfirmerInv'
    <3>1. /\ UNCHANGED <<now, partials>>
          /\ confirmer'.pc = "check" /\ confirmer'.launcher = l
          /\ confirmer'.target = confirmer.target /\ confirmer'.doomed = NoProof
          /\ confirmer'.pending =
               Before(partials, get_partials(partials, l, FALSE), confirmer.target)
      BY <1>0, <2>3 DEF ConfirmRead, ConfirmerStep, ConfirmerState, ConfirmerInv
    <3>2. confirmer.target + Delay <= now
      BY <2>3 DEF ConfirmRead, ConfirmerInv
    <3>3. \A p \in DOMAIN partials :
            p \in confirmer'.pending <=> /\ partials[p].launcher_id = l
                                        /\ ~partials[p].confirmed
                                        /\ partials[p].timestamp < confirmer.target
      BY <1>0, <3>1 DEF Before, get_partials, PartialRow
    <3>4. confirmer'.pending \cap Confirmed = {}
      BY <1>0, <3>3 DEF Confirmed
    <3> QED BY <3>1, <3>2, <3>3, <3>4 DEF ConfirmerInv, Accounted, Confirmed
  <2>4. ASSUME NEW p \in Proofs, ConfirmVet(p) \/ ConfirmCondemn(p) PROVE ConfirmerInv'
    <3>1. CASE ConfirmVet(p)
      BY <1>0, <3>1 DEF ConfirmVet, ConfirmerStep, ConfirmerState, ConfirmerInv, Accounted,
         Confirmed
    <3>2. CASE ConfirmCondemn(p)
      <4>1. /\ UNCHANGED <<now, partials>> /\ confirmer.pc = "check" /\ p \in confirmer.pending
            /\ confirmer'.pc = "delete" /\ confirmer'.launcher = confirmer.launcher
            /\ confirmer'.target = confirmer.target /\ confirmer'.doomed = p
            /\ confirmer'.pending = confirmer.pending \ {p}
            /\ confirmer'.vetted = confirmer.vetted
        BY <1>0, <3>2 DEF ConfirmCondemn, ConfirmerStep, ConfirmerState
      <4>2. confirmer.doomed = NoProof
        BY <4>1 DEF ConfirmerInv
      <4> QED BY <1>0, <4>1, <4>2 DEF ConfirmerInv, Accounted, Confirmed
    <3> QED BY <2>4, <3>1, <3>2
  <2>5. CASE ConfirmDelete
    <3>1. /\ UNCHANGED now
          /\ confirmer.pc = "delete" /\ confirmer'.pc = "check"
          /\ confirmer'.launcher = confirmer.launcher /\ confirmer'.target = confirmer.target
          /\ confirmer'.doomed = NoProof /\ confirmer'.pending = confirmer.pending
          /\ confirmer'.vetted = confirmer.vetted
          /\ DOMAIN partials' = DOMAIN partials \ {confirmer.doomed}
          /\ \A p \in DOMAIN partials' : partials'[p] = partials[p]
      BY <1>0, <2>5 DEF ConfirmDelete, ConfirmerStep, ConfirmerState, delete_partial, Without
    <3> QED BY <1>0, <3>1 DEF ConfirmerInv, Accounted, Confirmed
  <2>6. CASE ConfirmRows
    <3>1. /\ confirmer'.pc = "launcher" /\ confirmer'.doomed = NoProof
          /\ UNCHANGED now /\ confirmer'.target = confirmer.target /\ confirmer.pc = "check"
      BY <1>0, <2>6 DEF ConfirmRows, ConfirmerStep, ConfirmerState, ConfirmerInv
    <3> QED BY <3>1 DEF ConfirmerInv
  <2> QED BY <1>5, <2>1, <2>2, <2>3, <2>4, <2>5, <2>6 DEF ConfirmerNext
<1>6. CASE UNCHANGED <<now, partials>> /\ confirmer' = IdleConfirmer
  BY <1>6 DEF ConfirmerInv, IdleConfirmer
<1> QED BY <1>1, <1>2, <1>3, <1>4, <1>5, <1>6, Frame

\* WorkInv holds of the empty store.
LEMMA WorkInit == Init => WorkInv
BY ConfigAssumption DEF Init, WorkInv, NodeInv, RequestInv, RowInv, ConfirmerInv, IdleRequest,
   IdleConfirmer

\* WorkInv is inductive, given the types.
LEMMA WorkStep == TypeOK /\ WorkInv /\ [Next]_vars => WorkInv'
BY NodeStep, RequestStepInv, RowStepInv, ConfirmerStepInv DEF WorkInv

\* For every configuration: rows and open requests carry times that fit their
\* signage point, and the confirmation pass accounts for every row it may confirm.
THEOREM WorkCorrect == Spec => []WorkInv
BY WorkInit, WorkStep, TypeCorrect, PTL DEF Spec

-----------------------------------------------------------------------------
(* What a step may do to confirmed work *)

\* The UPDATE of confirm_partials reaches vetted rows only.
LEMMA VettedStep ==
  ASSUME RequestsOutrun, TypeOK, WorkInv, [Next]_vars
  PROVE  Confirmed' \ Confirmed \subseteq confirmer.vetted
<1>1. CASE UNCHANGED partials
  BY <1>1 DEF Confirmed
<1>2. ASSUME NEW r \in Requests, StorePartial(r) PROVE Confirmed' \subseteq Confirmed
  BY <1>2 DEF StorePartial, add_partial, Upsert, Confirmed
<1>3. CASE ConfirmDelete
  BY <1>3 DEF ConfirmDelete, delete_partial, Without, Confirmed
<1>4. CASE ConfirmRows
  <2> SUFFICES ASSUME NEW p \in Confirmed' \ Confirmed PROVE p \in confirmer.vetted
    OBVIOUS
  <2>1. /\ p \in DOMAIN partials /\ ~partials[p].confirmed
        /\ partials[p].launcher_id = confirmer.launcher
        /\ partials[p].timestamp < confirmer.target
    BY <1>4 DEF ConfirmRows, confirm_partials, Confirmed
  <2>2. confirmer.pc = "check" /\ confirmer.pending = {} /\ confirmer.doomed = NoProof
    BY <1>4 DEF ConfirmRows, WorkInv, ConfirmerInv
  <2>3. p \in Accounted
    BY <2>1, <2>2 DEF WorkInv, ConfirmerInv
  <2>4. p # NoProof
    BY <2>1, ConfigAssumption DEF TypeOK
  <2> QED BY <2>2, <2>3, <2>4 DEF Accounted
<1> QED BY <1>1, <1>2, <1>3, <1>4, PartialsFrame

\* If no request outlasts the confirmation delay, then for any number of
\* farmers, proofs and concurrent requests no row becomes confirmed that the
\* running pass did not check with the node.
THEOREM OnlyVettedIsConfirmed ==
  ASSUME RequestsOutrun
  PROVE  Spec => OnlyVettedConfirmed
<1>1. TypeOK /\ WorkInv /\ [Next]_vars => [Confirmed' \ Confirmed \subseteq confirmer.vetted]_vars
  BY VettedStep
<1> QED BY <1>1, TypeCorrect, WorkCorrect, PTL DEF Spec, OnlyVettedConfirmed

\* No step takes a confirmed row away or alters it, if requests are timely.
LEMMA FinalStep ==
  ASSUME Timely, TypeOK, WorkInv, [Next]_vars, NEW p \in Confirmed
  PROVE  p \in Confirmed' /\ partials'[p] = partials[p]
<1> USE ConfigAssumption
<1>0. /\ p \in DOMAIN partials /\ partials[p].confirmed /\ p \in Proofs
      /\ partials[p] \in PartialRow /\ partials[p].timestamp \in Int
      /\ node[p].time_received \in Int
      /\ now \in Int
  BY DEF Confirmed, TypeOK, PartialRow, Times, SignagePoint
<1>1. CASE UNCHANGED partials
  BY <1>1 DEF Confirmed
<1>2. ASSUME NEW r \in Requests, StorePartial(r) PROVE p # request[r].proof
  <2> SUFFICES ASSUME p = request[r].proof PROVE FALSE
    OBVIOUS
  <2> DEFINE c == request[r].current_time
  <2>1. request[r].pc = "store" /\ c \in Int
    BY <1>2 DEF StorePartial, TypeOK, RequestState, IdleRequest, Times
  <2>2. now <= c + MaxRequestTime /\ c <= node[p].time_received + TimeLimit
    BY <2>1 DEF WorkInv, RequestInv
  <2>3. /\ node[p].time_received - MaxRequestTime <= partials[p].timestamp
        /\ partials[p].timestamp + Delay < now
    BY <1>0 DEF WorkInv, RowInv
  <2> QED BY <1>0, <2>1, <2>2, <2>3 DEF Timely
<1>3. CASE \E r \in Requests : StorePartial(r)
  BY <1>0, <1>2, <1>3 DEF StorePartial, add_partial, Upsert, Confirmed
<1>4. CASE ConfirmDelete
  <2>1. confirmer.doomed # p
    BY <1>4 DEF ConfirmDelete, WorkInv, ConfirmerInv
  <2> QED BY <1>0, <1>4, <2>1 DEF ConfirmDelete, delete_partial, Without, Confirmed
<1>5. CASE ConfirmRows
  <2>1. [partials[p] EXCEPT !.confirmed = TRUE] = partials[p]
    BY <1>0 DEF PartialRow
  <2> QED BY <1>0, <1>5, <2>1 DEF ConfirmRows, confirm_partials, Confirmed
<1> QED BY <1>1, <1>3, <1>4, <1>5, PartialsFrame

\* If requests are timely, confirmed work is never replaced or withdrawn.
THEOREM ConfirmedWorkIsFinal ==
  ASSUME Timely
  PROVE  Spec => ConfirmedIsFinal
<1>1. TypeOK /\ WorkInv /\ [Next]_vars =>
        [\A p \in Confirmed : p \in Confirmed' /\ partials'[p] = partials[p]]_vars
  BY FinalStep
<1> QED BY <1>1, TypeCorrect, WorkCorrect, PTL DEF Spec, ConfirmedIsFinal

-----------------------------------------------------------------------------
(* The payer *)

\* Nothing but the payer and its failures touches its record, the payouts or
\* the history.
LEMMA PayerFrame ==
  ASSUME [Next]_vars
  PROVE  \/ PayerNext
         \/ DropPayer /\ UNCHANGED <<payouts, partials>>
         \/ UNCHANGED <<payer, payouts, history>>
<1>1. CASE Tick \/ NodeNext \/ RecordClaim \/ ConfirmClaim
  BY <1>1 DEF Tick, NodeNext, NodeReceives, NodeReorgs, NodeForgets, SetNode, RecordClaim,
     ConfirmClaim, ClaimStep, tables
<1>2. CASE \E r \in Requests : RequestNext(r)
  BY <1>2 DEF RequestNext, PostPartial, LookupRetry, LookupFound, RejectPartial,
     StorePartial, RequestStep
<1>3. CASE ConfirmerNext
  BY <1>3 DEF ConfirmerNext, ConfirmBegin, ConfirmFetch, ConfirmEnd, ConfirmPageEnd,
     ConfirmRead, ConfirmVet, ConfirmCondemn, ConfirmDelete, ConfirmRows, ConfirmerStep
<1>4. CASE PayFails \/ ConfirmFails \/ Restart
  BY <1>4 DEF PayFails, ConfirmFails, Restart, Abort, tables
<1>5. CASE UNCHANGED vars
  BY <1>5 DEF vars, tables
<1> QED BY <1>1, <1>2, <1>3, <1>4, <1>5 DEF Next

\* A payer that is idle satisfies its invariant.
LEMMA IdlePayerInv ==
  ASSUME payer' = IdlePayer
  PROVE  PayerInv'
BY DEF PayerInv, IdlePayer

\* The payer's window starts at the last payout through every step of a run.
LEMMA PayerStepInv == TypeOK /\ PayerInv /\ [Next]_vars => PayerInv'
<1> SUFFICES ASSUME TypeOK, PayerInv, [Next]_vars PROVE PayerInv'
  OBVIOUS
<1> USE ConfigAssumption
<1>0. /\ payer \in PayerState /\ payer.since \in Int /\ payer.timestamp \in Int
      /\ \A p \in DOMAIN partials : partials[p].timestamp \in Int
  BY DEF TypeOK, PayerState, PartialRow, Times
<1>1. CASE UNCHANGED <<payer, payouts>>
  BY <1>1 DEF PayerInv
<1>2. CASE payer' = IdlePayer
  BY <1>2, IdlePayerInv
<1>3. CASE PayBegin
  <2>1. /\ payer'.since = get_latest_payout(payouts) /\ UNCHANGED payouts
        /\ payer'.pc = "count" /\ payer'.counted = {} /\ payer'.sent = {}
    BY <1>3 DEF PayBegin, PayerStep, IdlePayer
  <2>2. payer'.since \in payouts \cup {0} /\ \A u \in payouts : u <= payer'.since
    BY <2>1, LatestPayout DEF TypeOK
  <2> QED BY <2>1, <2>2 DEF PayerInv
<1>4. ASSUME NEW l \in Launchers, PayCount(l) PROVE PayerInv'
  <2>1. /\ payer.pc = "count" /\ payer'.pc = "count" /\ UNCHANGED payouts
        /\ payer'.since = payer.since /\ payer'.timestamp = payer.timestamp
        /\ payer'.sent = payer.sent /\ payer'.counted = payer.counted \cup Unpaid(l)
    BY <1>0, <1>4 DEF PayCount, PayerStep, PayerState
  <2>2. Unpaid(l) # {} => payer.since < payer.timestamp
    BY <1>0 DEF Unpaid, Since, Before, get_partials
  <2>3. payer'.sent = {}
    BY <2>1 DEF PayerInv
  <2> QED BY <2>1, <2>2, <2>3 DEF PayerInv
<1>5. CASE PayCompute
  <2>1. /\ payer.pc = "count" /\ payer'.pc = "send" /\ UNCHANGED payouts
        /\ payer'.since = payer.since /\ payer'.timestamp = payer.timestamp
        /\ payer'.sent = payer.sent /\ payer'.counted = payer.counted /\ payer.counted # {}
        /\ payer'.todo = {}
    BY <1>0, <1>5 DEF PayCompute, PayerStep, PayerState
  <2>2. payer'.sent = {}
    BY <2>1 DEF PayerInv
  <2> QED BY <2>1, <2>2 DEF PayerInv
<1>6. CASE PaySend
  <2>1. PICK batch \in SUBSET payer.unsent :
          PayerStep([payer EXCEPT !.unsent = @ \ batch,
                                  !.sent = @ \cup {p \in payer.counted : Owner[p] \in batch}])
    BY <1>6 DEF PaySend
  <2>2. /\ payer.pc = "send" /\ payer'.pc = "send" /\ UNCHANGED payouts
        /\ payer'.since = payer.since /\ payer'.timestamp = payer.timestamp
        /\ payer'.counted = payer.counted /\ payer'.todo = payer.todo
        /\ payer'.unsent = payer.unsent \ batch
        /\ payer'.sent = payer.sent \cup {p \in payer.counted : Owner[p] \in batch}
    BY <1>0, <1>6, <2>1 DEF PaySend, PayerStep, PayerState
  <2> QED BY <2>2 DEF PayerInv
<1>7. CASE PayRecord
  <2>1. /\ payer'.pc = "settle" /\ payer'.since = payer.since
        /\ payer'.timestamp = payer.timestamp /\ payer'.counted = payer.counted
        /\ payer'.unsent = payer.unsent /\ payer'.sent = payer.sent
        /\ payer'.todo = payer.todo /\ payer.pc = "send"
        /\ payouts' = payouts \cup {payer.timestamp}
    BY <1>0, <1>7 DEF PayRecord, PayerStep, PayerState, add_payout
  <2> QED BY <2>1 DEF PayerInv
<1>8. CASE PayerNext
  BY <1>2, <1>3, <1>4, <1>5, <1>6, <1>7, <1>8 DEF PayerNext, PayNothing, PayUnconvertible,
     PaySettle, PayerStep
<1> QED BY <1>1, <1>2, <1>8, PayerFrame DEF DropPayer

\* For every configuration: a run's window starts at the last payout, is not
\* empty once work was counted, and only counted work is paid.
THEOREM PayerCorrect == Spec => []PayerInv
<1>1. Init => PayerInv
  BY DEF Init, PayerInv, IdlePayer
<1> QED BY <1>1, PayerStepInv, TypeCorrect, PTL DEF Spec

\* add_payout never violates the primary key of the payouts table, however
\* many runs start in one second.
THEOREM PayoutsNeverCollide == Spec => []AddPayoutNeverCollides
<1>1. TypeOK /\ PayerInv => AddPayoutNeverCollides
  <2> SUFFICES ASSUME TypeOK, PayerInv, payer.pc = "send" PROVE payer.timestamp \notin payouts
    BY DEF AddPayoutNeverCollides
  <2>1. payer.since < payer.timestamp /\ \A u \in payouts : u <= payer.since
    BY DEF PayerInv
  <2>2. payer.since \in Int /\ payer.timestamp \in Int
    BY ConfigAssumption DEF TypeOK, PayerState, Times
  <2> QED BY <2>1, <2>2
<1> QED BY <1>1, TypeCorrect, PayerCorrect, PTL

-----------------------------------------------------------------------------
(* Work is paid for once *)

\* CreditInv needs, of what the payer does next, only these facts.
LEMMA CreditKept ==
  ASSUME CreditInv,
         \A p \in Confirmed : p \in Confirmed' /\ partials'[p] = partials[p],
         UNCHANGED <<credited, recredited>>,
         unrecorded \subseteq unrecorded', payouts \subseteq payouts',
         payer.pc = "send" => (payer'.pc = "send" /\ payer'.sent = payer.sent)
                              \/ payer.sent \subseteq unrecorded',
         \/ payer'.counted = {}
         \/ /\ payer'.since = payer.since /\ payer'.timestamp = payer.timestamp
            /\ \A p \in payer'.counted \ payer.counted :
                 p \in Confirmed /\ payer.since <= partials[p].timestamp
                                /\ partials[p].timestamp < payer.timestamp
  PROVE  CreditInv'
<1>1. \A p \in payer'.counted :
        p \in Confirmed' /\ payer'.since <= partials'[p].timestamp
                        /\ partials'[p].timestamp < payer'.timestamp
  BY DEF CreditInv
<1>2. \A p \in credited' :
        \/ p \in unrecorded'
        \/ payer'.pc = "send" /\ p \in payer'.sent
        \/ \E u \in payouts' : partials'[p].timestamp < u
  BY DEF CreditInv
<1>3. recredited' \subseteq unrecorded' /\ credited' \subseteq Confirmed'
  BY DEF CreditInv
<1> QED BY <1>1, <1>2, <1>3 DEF CreditInv

\* What was paid for stays below the watermark, unless none was set.
LEMMA CreditStep ==
  ASSUME Timely, TypeOK, WorkInv, PayerInv, CreditInv, [Next]_vars
  PROVE  CreditInv'
<1> USE ConfigAssumption
<1>0. /\ payer \in PayerState /\ payer.since \in Int /\ payer.timestamp \in Int
      /\ \A p \in DOMAIN partials : partials[p] \in PartialRow /\ partials[p].timestamp \in Int
  BY DEF TypeOK, PayerState, PartialRow, Times
<1>1. \A p \in Confirmed : p \in Confirmed' /\ partials'[p] = partials[p]
  BY FinalStep
<1>2. CASE UNCHANGED <<payer, payouts, history>>
  BY <1>1, <1>2, CreditKept DEF history
<1>3. CASE DropPayer /\ UNCHANGED payouts
  <2>1. /\ payer'.counted = {} /\ UNCHANGED <<credited, recredited>>
        /\ unrecorded \subseteq unrecorded'
    BY <1>3 DEF DropPayer, IdlePayer
  <2>2. payer.pc = "send" => payer.sent \subseteq unrecorded'
    BY <1>3 DEF DropPayer, Abandoned
  <2> QED BY <1>1, <1>3, <2>1, <2>2, CreditKept
<1>4. CASE UNCHANGED <<payouts, history>> /\ payer.pc # "send" /\ payer'.counted = {}
  BY <1>1, <1>4, CreditKept DEF history
<1>5. CASE PayBegin
  BY <1>4, <1>5 DEF PayBegin, PayerStep, IdlePayer
<1>6. CASE PayNothing \/ PayUnconvertible
  BY <1>4, <1>6 DEF PayNothing, PayUnconvertible, PayerStep, IdlePayer
<1>7. CASE PaySettle
  BY <1>4, <1>7 DEF PaySettle, PayerStep, IdlePayer
<1>8. ASSUME NEW l \in Launchers, PayCount(l) PROVE CreditInv'
  <2>1. /\ payer.pc = "count" /\ UNCHANGED <<payouts, history>>
        /\ payer'.since = payer.since /\ payer'.timestamp = payer.timestamp
        /\ payer'.counted = payer.counted \cup Unpaid(l)
    BY <1>0, <1>8 DEF PayCount, PayerStep, PayerState
  <2>2. \A p \in Unpaid(l) : p \in Confirmed /\ payer.since <= partials[p].timestamp
                                          /\ partials[p].timestamp < payer.timestamp
    BY <1>0 DEF Unpaid, Since, Before, get_partials, Confirmed
  <2> QED BY <1>1, <2>1, <2>2, CreditKept DEF history
<1>9. CASE PayCompute
  <2>1. /\ payer.pc = "count" /\ UNCHANGED <<payouts, history>>
        /\ payer'.since = payer.since /\ payer'.timestamp = payer.timestamp
        /\ payer'.counted = payer.counted
    BY <1>0, <1>9 DEF PayCompute, PayerStep, PayerState
  <2> QED BY <1>1, <2>1, CreditKept DEF history
<1>10. CASE PaySend
  <2>1. PICK batch \in SUBSET payer.unsent :
          LET earned == {p \in payer.counted : Owner[p] \in batch} IN
          /\ PayerStep([payer EXCEPT !.unsent = @ \ batch, !.sent = @ \cup earned])
          /\ credited' = credited \cup earned
          /\ recredited' = recredited \cup (credited \cap earned)
    BY <1>10 DEF PaySend
  <2> DEFINE earned == {p \in payer.counted : Owner[p] \in batch}
  <2>2. /\ payer.pc = "send" /\ payer'.pc = "send"
        /\ payer'.since = payer.since /\ payer'.timestamp = payer.timestamp
        /\ payer'.counted = payer.counted /\ payer'.sent = payer.sent \cup earned
        /\ UNCHANGED <<partials, payouts, unrecorded>>
    BY <1>0, <1>10, <2>1 DEF PaySend, PayerStep, PayerState
  <2>3. credited \cap earned \subseteq unrecorded
    <3> SUFFICES ASSUME NEW p \in credited, p \in payer.counted, Owner[p] \in batch,
                        p \notin unrecorded
                 PROVE  FALSE
      OBVIOUS
    <3>1. p \notin payer.sent
      BY DEF PayerInv
    <3>2. PICK u \in payouts : partials[p].timestamp < u
      BY <3>1 DEF CreditInv
    <3>3. payer.since <= partials[p].timestamp /\ p \in DOMAIN partials
      BY DEF CreditInv, Confirmed
    <3>4. u <= payer.since /\ u \in Int
      BY <2>2 DEF PayerInv, TypeOK, Times
    <3> QED BY <1>0, <3>2, <3>3, <3>4
  <2>4. \A p \in payer'.counted :
          p \in Confirmed' /\ payer'.since <= partials'[p].timestamp
                          /\ partials'[p].timestamp < payer'.timestamp
    BY <1>1, <2>2 DEF CreditInv
  <2>5. \A p \in credited' :
          \/ p \in unrecorded'
          \/ payer'.pc = "send" /\ p \in payer'.sent
          \/ \E u \in payouts' : partials'[p].timestamp < u
    BY <1>1, <2>1, <2>2 DEF CreditInv
  <2>6. recredited' \subseteq unrecorded' /\ credited' \subseteq Confirmed'
    BY <1>1, <2>1, <2>2, <2>3 DEF CreditInv
  <2> QED BY <2>4, <2>5, <2>6 DEF CreditInv
<1>11. CASE PayRecord
  <2>1. /\ payer.pc = "send" /\ payer'.pc = "settle"
        /\ payer'.since = payer.since /\ payer'.timestamp = payer.timestamp
        /\ payer'.counted = payer.counted
        /\ UNCHANGED <<partials, history>>
        /\ payouts' = payouts \cup {payer.timestamp}
    BY <1>0, <1>11 DEF PayRecord, PayerStep, PayerState, add_payout
  <2>2. \A p \in payer'.counted :
          p \in Confirmed' /\ payer'.since <= partials'[p].timestamp
                          /\ partials'[p].timestamp < payer'.timestamp
    BY <1>1, <2>1 DEF CreditInv
  <2>3. payer.sent \subseteq payer.counted
    BY DEF PayerInv
  <2>4. \A p \in credited' :
          \/ p \in unrecorded'
          \/ \E u \in payouts' : partials'[p].timestamp < u
    BY <1>1, <2>1, <2>2, <2>3 DEF CreditInv, history
  <2>5. recredited' \subseteq unrecorded' /\ credited' \subseteq Confirmed'
    BY <1>1, <2>1 DEF CreditInv, history
  <2> QED BY <2>2, <2>4, <2>5 DEF CreditInv
<1> QED BY <1>2, <1>3, <1>5, <1>6, <1>7, <1>8, <1>9, <1>10, <1>11, PayerFrame DEF PayerNext

\* If requests are timely, a proof of space earns a second share only after a
\* run that paid for it was cut short before add_payout.
THEOREM WorkPaidOnce ==
  ASSUME Timely
  PROVE  Spec => []CreditedOnceUnlessUnrecorded
<1>1. Init => CreditInv
  BY DEF Init, CreditInv, IdlePayer
<1>2. TypeOK /\ WorkInv /\ PayerInv /\ CreditInv /\ [Next]_vars => CreditInv'
  BY CreditStep
<1>3. CreditInv => CreditedOnceUnlessUnrecorded
  BY DEF CreditInv, CreditedOnceUnlessUnrecorded
<1> QED BY <1>1, <1>2, <1>3, TypeCorrect, WorkCorrect, PayerCorrect, PTL DEF Spec

-----------------------------------------------------------------------------
\* What each action of the payer does to its own record
LEMMA PayerMoves ==
  ASSUME TypeOK, PayerNext
  PROVE  \/ /\ payer.pc = "idle" /\ PayBegin
            /\ payer'.pc = "count" /\ payer'.sent = {} /\ payer'.unsent = {}
            /\ payer'.counted = {} /\ payer'.todo = Launchers
            /\ UNCHANGED <<claims, payouts, aborts, history>>
         \/ /\ payer' = IdlePayer
            /\ UNCHANGED <<claims, payouts, aborts, history>>
            /\ payer.pc = "count"
         \/ /\ payer.pc = "count" /\ payer'.pc = "count" /\ payer'.sent = payer.sent
            /\ payer'.due = payer.due /\ payer'.unsent = payer.unsent
            /\ payer'.since = payer.since /\ payer'.timestamp = payer.timestamp
            /\ UNCHANGED <<claims, payouts, aborts, history>>
            /\ \E l \in Launchers : /\ PayCount(l)
                                    /\ payer'.todo = payer.todo \ {l}
                                    /\ payer'.counted = payer.counted \cup Unpaid(l)
         \/ /\ payer.pc = "count" /\ payer.todo = {} /\ payer'.pc = "send"
            /\ payer' = [payer EXCEPT !.pc = "send", !.unsent = Earners,
                                      !.funds = get_unpaid_reward_claims(claims)]
            /\ payer'.sent = payer.sent /\ payer'.counted = payer.counted
            /\ payer'.unsent = Earners /\ payer'.funds = get_unpaid_reward_claims(claims)
            /\ get_unpaid_reward_claims(claims) # {}
            /\ payer'.due = payer.due
            /\ payer'.since = payer.since /\ payer'.timestamp = payer.timestamp
            /\ UNCHANGED <<claims, payouts, aborts, history>>
         \/ /\ payer.pc = "send" /\ payer'.pc = "send" /\ PaySend
            /\ payer'.counted = payer.counted /\ payer'.funds = payer.funds
            /\ payer'.due = payer.due /\ payer'.todo = payer.todo
            /\ payer'.since = payer.since /\ payer'.timestamp = payer.timestamp
            /\ UNCHANGED <<claims, payouts, aborts, unrecorded, unsettled>>
            /\ \E batch \in SUBSET payer.unsent :
                 LET earned == {p \in payer.counted : Owner[p] \in batch} IN
                 /\ batch # {}
                 /\ payer'.unsent = payer.unsent \ batch
                 /\ payer'.sent = payer.sent \cup earned
                 /\ credited' = credited \cup earned
         \/ /\ payer.pc = "send" /\ payer'.pc = "settle" /\ payer.unsent = {}
            /\ payer' = [payer EXCEPT !.pc = "settle"]
            /\ payouts' = payouts \cup {payer.timestamp}
            /\ UNCHANGED <<claims, aborts, history>>
         \/ /\ payer.pc = "settle" /\ payer' = IdlePayer
            /\ claims' = set_claims_statuses(claims, payer.funds)
            /\ UNCHANGED <<payouts, aborts, history>>
<1>0. payer \in PayerState
  BY DEF TypeOK
<1>1. CASE PayBegin
  BY <1>1 DEF PayBegin, PayerStep, IdlePayer
<1>2. CASE PayNothing \/ PayUnconvertible
  BY <1>2 DEF PayNothing, PayUnconvertible, PayerStep
<1>3. ASSUME NEW l \in Launchers, PayCount(l)
      PROVE  /\ payer.pc = "count" /\ payer'.pc = "count" /\ payer'.sent = payer.sent
             /\ payer'.due = payer.due /\ payer'.unsent = payer.unsent
             /\ payer'.since = payer.since /\ payer'.timestamp = payer.timestamp
             /\ UNCHANGED <<claims, payouts, aborts, history>>
             /\ payer'.todo = payer.todo \ {l}
             /\ payer'.counted = payer.counted \cup Unpaid(l)
  BY <1>0, <1>3 DEF PayCount, PayerStep, PayerState
<1>4. CASE PayCompute
  <2>1. payer' = [payer EXCEPT !.pc = "send", !.unsent = Earners,
                               !.funds = get_unpaid_reward_claims(claims)]
    BY <1>4 DEF PayCompute, PayerStep
  <2>2. /\ payer'.pc = "send" /\ payer'.sent = payer.sent /\ payer'.counted = payer.counted
        /\ payer'.unsent = Earners /\ payer'.funds = get_unpaid_reward_claims(claims)
        /\ payer'.due = payer.due
        /\ payer'.since = payer.since /\ payer'.timestamp = payer.timestamp
    BY <1>0, <2>1 DEF PayerState
  <2>3. /\ payer.pc = "count" /\ payer.todo = {} /\ get_unpaid_reward_claims(claims) # {}
        /\ UNCHANGED <<claims, payouts, aborts, history>>
    BY <1>4 DEF PayCompute
  <2> QED BY <2>1, <2>2, <2>3
<1>5. CASE PaySend
  <2>1. PICK batch \in SUBSET payer.unsent :
          LET earned == {p \in payer.counted : Owner[p] \in batch} IN
          /\ batch # {}
          /\ PayerStep([payer EXCEPT !.unsent = @ \ batch, !.sent = @ \cup earned])
          /\ credited' = credited \cup earned
    BY <1>5 DEF PaySend
  <2> DEFINE earned == {p \in payer.counted : Owner[p] \in batch}
  <2>2. /\ payer'.pc = payer.pc /\ payer'.counted = payer.counted /\ payer'.funds = payer.funds
        /\ payer'.due = payer.due /\ payer'.todo = payer.todo
        /\ payer'.since = payer.since /\ payer'.timestamp = payer.timestamp
        /\ payer'.unsent = payer.unsent \ batch
        /\ payer'.sent = payer.sent \cup earned
    BY <1>0, <2>1 DEF PayerStep, PayerState
  <2>3. payer.pc = "send" /\ UNCHANGED <<claims, payouts, aborts, unrecorded, unsettled>>
    BY <1>5 DEF PaySend
  <2> QED BY <1>5, <2>1, <2>2, <2>3
<1>6. CASE PayRecord
  BY <1>0, <1>6 DEF PayRecord, PayerStep, PayerState, add_payout
<1>7. CASE PaySettle
  BY <1>7 DEF PaySettle, PayerStep
<1> QED BY <1>1, <1>2, <1>3, <1>4, <1>5, <1>6, <1>7 DEF PayerNext

-----------------------------------------------------------------------------
(* Whoever was counted is paid. *)

\* PaidInv of an idle payer
LEMMA IdlePaidInv ==
  ASSUME payer' = IdlePayer PROVE PaidInv'
BY DEF PaidInv, IdlePayer

\* A batch that leaves unsent has its work in sent.
LEMMA PaidStep == TypeOK /\ PayerInv /\ PaidInv /\ [Next]_vars => PaidInv'
<1> SUFFICES ASSUME TypeOK, PayerInv, PaidInv, [Next]_vars PROVE PaidInv'
  OBVIOUS
<1>0. payer \in PayerState
  BY DEF TypeOK
<1>1. CASE UNCHANGED <<payer, history>>
  BY <1>1 DEF PaidInv, Earners, history
<1>2. CASE payer' = IdlePayer
  BY <1>2, IdlePaidInv
<1>3. ASSUME payer'.pc = "count", payer'.sent = {}, payer'.unsent = payer.unsent,
             payer.counted \subseteq payer'.counted
      PROVE  PaidInv'
  BY <1>3 DEF PaidInv, Earners
<1>4. CASE PayerNext
  <2>0. CASE payer'.pc = "count" /\ payer'.sent = {} /\ payer'.unsent = {}
    BY <2>0 DEF PaidInv
  <2>1. CASE payer.pc = "count" /\ payer'.pc = "count" /\ payer'.sent = payer.sent
               /\ payer'.unsent = payer.unsent /\ payer.counted \subseteq payer'.counted
    BY <1>3, <2>1 DEF PayerInv
  <2>2. CASE payer'.pc = "send" /\ payer'.unsent = Earners /\ payer'.counted = payer.counted
               /\ payer'.sent = payer.sent /\ UNCHANGED history
    BY <2>2 DEF PaidInv, Earners, history
  <2>3. ASSUME payer.pc = "send", payer'.pc = "send", payer'.counted = payer.counted,
               NEW batch \in SUBSET payer.unsent,
               payer'.unsent = payer.unsent \ batch,
               payer'.sent = payer.sent \cup {p \in payer.counted : Owner[p] \in batch},
               credited' = credited \cup {p \in payer.counted : Owner[p] \in batch}
        PROVE  PaidInv'
    BY <2>3 DEF PaidInv, Earners
  <2>4. CASE payer.pc = "send" /\ payer.unsent = {} /\ payer' = [payer EXCEPT !.pc = "settle"]
               /\ UNCHANGED history
    <3>1. /\ payer'.pc = "settle" /\ payer'.unsent = payer.unsent
          /\ payer'.counted = payer.counted /\ payer'.sent = payer.sent
      BY <1>0, <2>4 DEF PayerState
    <3> QED BY <2>4, <3>1 DEF PaidInv, Earners, history
  <2> QED BY <1>2, <1>4, <2>0, <2>1, <2>2, <2>3, <2>4, PayerMoves
<1> QED BY <1>1, <1>2, <1>4, PayerFrame DEF DropPayer

\* For every configuration: a run has paid whoever it counted and has not left
\* unsent.
THEOREM PaidCorrect == Spec => []PaidInv
<1>1. Init => PaidInv
  BY DEF Init, PaidInv, IdlePayer
<1> QED BY <1>1, PaidStep, TypeCorrect, PayerCorrect, PTL DEF Spec

\* A run that records its payout has paid every farmer it counted, in however
\* many batches.
THEOREM CountedArePaid == Spec => []RecordedRunPaidAllCounted
<1>1. PaidInv => RecordedRunPaidAllCounted
  BY DEF PaidInv, RecordedRunPaidAllCounted
<1> QED BY <1>1, PaidCorrect, PTL

-----------------------------------------------------------------------------
(* Claims are shared out once. *)

\* Only two steps write the claims table besides the settlement; neither touches
\* a claim that is confirmed.
LEMMA ClaimsFrame ==
  ASSUME TypeOK, [Next]_vars, ~PayerNext
  PROVE  /\ get_unpaid_reward_claims(claims) \subseteq get_unpaid_reward_claims(claims)'
         /\ \A t \in DOMAIN claims' : claims'[t].paid => t \in DOMAIN claims /\ claims[t].paid
         /\ \A t \in DOMAIN claims :
              /\ t \in DOMAIN claims'
              /\ claims[t].paid => claims'[t].paid
              /\ claims[t].tx_confirmed => claims'[t].tx_confirmed
<1>0. \A t \in DOMAIN claims : claims[t] \in ClaimRow
  BY DEF TypeOK
<1>1. CASE UNCHANGED claims
  BY <1>1 DEF get_unpaid_reward_claims
<1>2. CASE RecordClaim
  <2>1. claims' = add_reward_claim(claims, now) /\ now \notin DOMAIN claims
    <3>1. \A t \in DOMAIN claims : t < now
      BY <1>2 DEF RecordClaim
    <3>2. now \in Int
      BY ConfigAssumption DEF TypeOK, Times
    <3> QED BY <1>2, <3>1, <3>2 DEF RecordClaim
  <2> QED BY <2>1 DEF add_reward_claim, Upsert, get_unpaid_reward_claims
<1>3. CASE ConfirmClaim
  <2>1. PICK t \in DOMAIN claims : claims' = confirm_claim_tx(claims, t)
    BY <1>3 DEF ConfirmClaim, pending_claims
  <2>2. DOMAIN claims' = DOMAIN claims
    BY <2>1 DEF confirm_claim_tx
  <2>3. \A u \in DOMAIN claims : /\ claims'[u].paid <=> claims[u].paid
                                 /\ claims[u].tx_confirmed => claims'[u].tx_confirmed
    BY <1>0, <2>1 DEF confirm_claim_tx, ClaimRow
  <2> QED BY <2>2, <2>3 DEF get_unpaid_reward_claims
<1>4. CASE Tick \/ NodeNext
  BY <1>1, <1>4 DEF Tick, NodeNext, NodeReceives, NodeReorgs, NodeForgets, SetNode, tables
<1>5. CASE \E r \in Requests : RequestNext(r)
  BY <1>1, <1>5 DEF RequestNext, PostPartial, LookupRetry, LookupFound, RejectPartial,
     StorePartial, RequestStep
<1>6. CASE ConfirmerNext
  BY <1>1, <1>6 DEF ConfirmerNext, ConfirmBegin, ConfirmFetch, ConfirmEnd, ConfirmPageEnd,
     ConfirmRead, ConfirmVet, ConfirmCondemn, ConfirmDelete, ConfirmRows, ConfirmerStep
<1>7. CASE PayFails \/ ConfirmFails \/ Restart \/ UNCHANGED vars
  BY <1>1, <1>7 DEF PayFails, ConfirmFails, Restart, Abort, tables, vars
<1> QED BY <1>2, <1>3, <1>4, <1>5, <1>6, <1>7 DEF Next

\* What the payer does to the shared claims
LEMMA SendFunds ==
  ASSUME PaySend
  PROVE  /\ shared' = shared \cup payer.funds
         /\ reshared' = IF payer.sent = {} THEN reshared \cup (shared \cap payer.funds)
                                          ELSE reshared
BY DEF PaySend

\* A batch is somebody's work.
LEMMA BatchEarned ==
  ASSUME PaidInv, NEW batch \in SUBSET payer.unsent, batch # {}
  PROVE  {p \in payer.counted : Owner[p] \in batch} # {}
BY DEF PaidInv, Earners

\* A claim is shared by the first batch of a run, once for all its batches.
LEMMA ClaimStepInv == TypeOK /\ PayerInv /\ PaidInv /\ ClaimInv /\ [Next]_vars => ClaimInv'
<1> SUFFICES ASSUME TypeOK, PayerInv, PaidInv, ClaimInv, [Next]_vars PROVE ClaimInv'
  OBVIOUS
<1>0. payer \in PayerState /\ \A t \in DOMAIN claims : claims[t] \in ClaimRow
  BY DEF TypeOK
<1>1. CASE ~PayerNext
  <2>1. CASE UNCHANGED <<payer, payouts, history>>
    BY <1>1, <2>1, ClaimsFrame DEF ClaimInv, history
  <2>2. CASE DropPayer
    <3>1. payer'.pc = "idle" /\ payer'.sent = {} /\ UNCHANGED <<shared, reshared>>
      BY <2>2 DEF DropPayer, IdlePayer
    <3>2. unsettled \subseteq unsettled'
      BY <2>2 DEF DropPayer
    <3>3. payer.sent # {} => payer.funds \subseteq unsettled'
      BY <2>2 DEF DropPayer, Abandoned, PayerInv, PayerState, IdlePayer, TypeOK
    <3> QED BY <1>1, <3>1, <3>2, <3>3, ClaimsFrame DEF ClaimInv
  <2> QED BY <1>1, <2>1, <2>2, PayerFrame
<1>2. CASE UNCHANGED <<claims, history>> /\ payer.sent = {} /\ payer'.sent = {}
             /\ payer'.pc \notin {"send", "settle"}
  BY <1>2 DEF ClaimInv, history
<1>3. ASSUME payer.pc = "count", UNCHANGED <<claims, history>>, payer'.pc = "send",
             payer'.sent = payer.sent, payer'.funds = get_unpaid_reward_claims(claims),
             get_unpaid_reward_claims(claims) # {}
      PROVE  ClaimInv'
  <2>1. payer.sent = {}
    BY <1>3 DEF PayerInv
  <2> QED BY <1>3, <2>1 DEF ClaimInv, history, get_unpaid_reward_claims
<1>4. ASSUME payer.pc = "send", payer'.pc = "send", PaySend,
             payer'.funds = payer.funds, UNCHANGED <<claims, unsettled>>,
             payer.sent \subseteq payer'.sent, payer'.sent # {}
      PROVE  ClaimInv'
  <2>1. /\ shared' = shared \cup payer.funds
        /\ reshared' = IF payer.sent = {} THEN reshared \cup (shared \cap payer.funds)
                                         ELSE reshared
    BY <1>4, SendFunds
  <2>2. payer.funds \subseteq get_unpaid_reward_claims(claims) /\ payer.funds # {}
    BY <1>4 DEF ClaimInv
  <2>3. payer.sent = {} => shared \cap payer.funds \subseteq unsettled
    BY <2>2 DEF ClaimInv, get_unpaid_reward_claims
  <2> QED BY <1>4, <2>1, <2>2, <2>3 DEF ClaimInv, get_unpaid_reward_claims
<1>5. ASSUME payer.pc = "send", UNCHANGED <<claims, history>>,
             payer' = [payer EXCEPT !.pc = "settle"]
      PROVE  ClaimInv'
  <2>1. payer'.pc = "settle" /\ payer'.funds = payer.funds /\ payer'.sent = payer.sent
    BY <1>0, <1>5 DEF PayerState
  <2> QED BY <1>5, <2>1 DEF ClaimInv, history, get_unpaid_reward_claims
<1>6. ASSUME payer.pc = "settle", payer' = IdlePayer, UNCHANGED history,
             claims' = set_claims_statuses(claims, payer.funds)
      PROVE  ClaimInv'
  <2>1. /\ DOMAIN claims' = DOMAIN claims
        /\ \A t \in DOMAIN claims :
             /\ claims'[t].paid <=> (claims[t].paid \/ t \in payer.funds)
             /\ claims'[t].tx_confirmed <=> claims[t].tx_confirmed
    BY <1>0, <1>6 DEF set_claims_statuses, ClaimRow
  <2>2. payer.funds \subseteq shared
    <3>1. payer.sent # {}
      BY <1>6 DEF PayerInv, PaidInv
    <3> QED BY <3>1 DEF ClaimInv
  <2>3. payer'.pc = "idle" /\ payer'.sent = {} /\ UNCHANGED <<shared, reshared, unsettled>>
    BY <1>6 DEF IdlePayer, history
  <2>4. payer.funds \subseteq DOMAIN claims
    BY <1>6 DEF ClaimInv, get_unpaid_reward_claims
  <2> QED BY <2>1, <2>2, <2>3, <2>4 DEF ClaimInv
<1>7. CASE PayerNext
  <2>1. CASE payer'.pc = "count" /\ payer.pc \in {"idle", "count"} /\ payer'.sent = {}
               /\ UNCHANGED <<claims, history>>
    BY <1>2, <2>1 DEF PayerInv, IdlePayer
  <2>2. CASE payer' = IdlePayer /\ payer.pc = "count" /\ UNCHANGED <<claims, history>>
    BY <1>2, <2>2 DEF PayerInv, IdlePayer
  <2>3. CASE PayBegin
    BY <1>7, <2>1, <2>3 DEF PayBegin, PayerStep, IdlePayer
  <2>4. CASE payer.pc = "count" /\ payer'.pc = "count" /\ payer'.sent = payer.sent
               /\ UNCHANGED <<claims, history>>
    BY <2>1, <2>4 DEF PayerInv
  <2>5. ASSUME payer.pc = "send", payer'.pc = "send", PaySend,
               payer'.funds = payer.funds, UNCHANGED <<claims, unsettled>>,
               NEW batch \in SUBSET payer.unsent, batch # {},
               payer'.sent = payer.sent \cup {p \in payer.counted : Owner[p] \in batch}
        PROVE  ClaimInv'
    BY <1>4, <2>5, BatchEarned
  <2> QED BY <1>3, <1>5, <1>6, <1>7, <2>2, <2>3, <2>4, <2>5, PayerMoves
<1> QED BY <1>1, <1>7

\* For every configuration: the claims a run shares out are confirmed and unpaid,
\* and a claim that was shared out is settled, or about to be, or its run stopped.
THEOREM ClaimsCorrect == Spec => []ClaimInv
<1>1. Init => ClaimInv
  BY DEF Init, ClaimInv, IdlePayer
<1> QED BY <1>1, ClaimStepInv, TypeCorrect, PayerCorrect, PaidCorrect, PTL DEF Spec

\* A claim is shared out a second time only after a run that shared it out and
\* stopped before it marked it paid.
THEOREM ClaimsSharedOnce == Spec => []SharedOnceUnlessUnsettled
<1>1. ClaimInv => SharedOnceUnlessUnsettled
  BY DEF ClaimInv, SharedOnceUnlessUnsettled
<1> QED BY <1>1, ClaimsCorrect, PTL

\* No claim is marked paid that was not shared out, whenever it confirmed.
THEOREM PaidWereShared == Spec => []PaidClaimsWereShared
<1>1. ClaimInv => PaidClaimsWereShared
  BY DEF ClaimInv, PaidClaimsWereShared
<1> QED BY <1>1, ClaimsCorrect, PTL

-----------------------------------------------------------------------------
(* What was due is paid. *)

\* Due work stays confirmed where it is, and each farmer's is counted in turn.
LEMMA DueStep ==
  ASSUME Timely, TypeOK, WorkInv, PayerInv, CreditInv, DueInv, [Next]_vars
  PROVE  DueInv'
<1> USE ConfigAssumption
<1>0. /\ payer \in PayerState /\ now \in Int /\ payouts \subseteq Int /\ credited \subseteq Confirmed
      /\ \A p \in DOMAIN partials :
           /\ p \in Proofs /\ Owner[p] \in Launchers
           /\ partials[p] \in PartialRow /\ partials[p].timestamp \in Nat
  BY DEF TypeOK, CreditInv, PartialRow, Times
<1>1. \A p \in Confirmed : p \in Confirmed' /\ partials'[p] = partials[p]
  BY FinalStep
<1>2. CASE UNCHANGED <<payer, payouts, history>>
  BY <1>0, <1>1, <1>2 DEF DueInv, history
<1>3. CASE payer' = IdlePayer
  BY <1>3 DEF DueInv, IdlePayer
<1>4. CASE PayBegin
  <2>1. /\ payer'.due = UNION {current_points(l) : l \in Launchers} /\ payer'.pc = "count"
        /\ payer'.since = get_latest_payout(payouts) /\ payer'.timestamp = now
        /\ payer'.todo = Launchers /\ UNCHANGED <<payouts, history>>
    BY <1>4 DEF PayBegin, PayerStep, IdlePayer
  <2>2. \A p \in payer'.due :
          p \in Confirmed /\ get_latest_payout(payouts) <= partials[p].timestamp
                         /\ partials[p].timestamp < now /\ Owner[p] \in Launchers
    BY <1>0, <2>1, LatestPayout DEF current_points, Since, Before, get_partials, Confirmed,
       TypeOK, PartialRow, Times
  <2>3. ASSUME NEW p \in credited, \A u \in payouts : ~(partials[p].timestamp < u)
        PROVE  p \in payer'.due
    <3>1. /\ p \in DOMAIN partials /\ partials[p].confirmed
          /\ partials[p].launcher_id = Owner[p] /\ partials[p].timestamp < now
      BY <1>0 DEF WorkInv, RowInv, Confirmed
    <3>2. get_latest_payout(payouts) <= partials[p].timestamp
      BY <1>0, <2>3, <3>1, LatestPayout DEF TypeOK
    <3> QED BY <1>0, <2>1, <3>1, <3>2 DEF current_points, Since, Before, get_partials
  <2>4. \A p \in credited' : p \in payer'.due \/ \E u \in payouts' : partials'[p].timestamp < u
    BY <1>0, <1>1, <2>1, <2>3 DEF history
  <2> QED BY <1>1, <2>1, <2>2, <2>4 DEF DueInv
<1>5. ASSUME NEW l \in Launchers, PayCount(l) PROVE DueInv'
  <2>1. /\ payer'.pc = "count" /\ payer.pc = "count" /\ payer'.due = payer.due
        /\ payer'.since = payer.since /\ payer'.timestamp = payer.timestamp
        /\ payer'.sent = payer.sent /\ UNCHANGED <<payouts, history>>
        /\ payer'.todo = payer.todo \ {l} /\ payer'.counted = payer.counted \cup Unpaid(l)
    BY <1>0, <1>5 DEF PayCount, PayerStep, PayerState
  <2>2. \A p \in payer.due : Owner[p] = l => p \in Unpaid(l)
    BY <1>0 DEF DueInv, WorkInv, RowInv, Confirmed, Unpaid, Since, Before, get_partials, PartialRow
  <2>3. \A p \in credited' :
          p \in payer'.due \cup payer'.sent \/ \E u \in payouts' : partials'[p].timestamp < u
    BY <1>0, <1>1, <2>1 DEF DueInv, history
  <2> QED BY <1>1, <2>1, <2>2, <2>3 DEF DueInv
<1>6. ASSUME payer'.due = payer.due, payer'.since = payer.since,
             payer'.timestamp = payer.timestamp, payer'.counted = payer.counted,
             payer.pc = "count" => payer.todo = {}, payer.pc \in {"count", "send"},
             payer.sent \subseteq payer'.sent, payouts \subseteq payouts',
             credited' \subseteq credited \cup payer'.sent
      PROVE  DueInv'
  <2>1. \A p \in payer'.due :
          /\ p \in Confirmed' /\ payer'.since <= partials'[p].timestamp
                             /\ partials'[p].timestamp < payer'.timestamp
          /\ p \in payer'.counted
    BY <1>1, <1>6 DEF DueInv
  <2>2. \A p \in credited' :
          p \in payer'.due \cup payer'.sent \/ \E u \in payouts' : partials'[p].timestamp < u
    BY <1>0, <1>1, <1>6 DEF DueInv
  <2> QED BY <2>1, <2>2 DEF DueInv
<1>7. CASE PayerNext
  <2>1. CASE payer.pc = "send" /\ payer' = [payer EXCEPT !.pc = "settle"]
             /\ payouts' = payouts \cup {payer.timestamp} /\ UNCHANGED history
    <3>1. /\ payer'.due = payer.due /\ payer'.since = payer.since /\ payer'.sent = payer.sent
          /\ payer'.timestamp = payer.timestamp /\ payer'.counted = payer.counted
      BY <1>0, <2>1 DEF PayerState
    <3> QED BY <1>6, <2>1, <3>1 DEF history
  <2>2. CASE payer.pc = "count" /\ payer.todo = {} /\ payer'.due = payer.due
             /\ payer'.since = payer.since /\ payer'.timestamp = payer.timestamp
             /\ payer'.counted = payer.counted /\ payer'.sent = payer.sent
             /\ UNCHANGED <<payouts, history>>
    BY <1>6, <2>2 DEF history
  <2>3. ASSUME payer.pc = "send", payer'.due = payer.due, payer'.since = payer.since,
               payer'.timestamp = payer.timestamp, payer'.counted = payer.counted,
               UNCHANGED payouts,
               NEW batch \in SUBSET payer.unsent,
               payer'.sent = payer.sent \cup {p \in payer.counted : Owner[p] \in batch},
               credited' = credited \cup {p \in payer.counted : Owner[p] \in batch}
        PROVE  DueInv'
    BY <1>6, <2>3
  <2> QED BY <1>3, <1>4, <1>5, <1>7, <2>1, <2>2, <2>3, PayerMoves
<1> QED BY <1>2, <1>3, <1>7, PayerFrame DEF DropPayer

\* If requests are timely, a run that records its payout has paid everything that
\* GET /v2/farmer showed as unpaid when the run began.
THEOREM ShownIsPaid ==
  ASSUME Timely
  PROVE  Spec => []ShownPointsArePaid
<1>1. Init => CreditInv /\ DueInv
  BY DEF Init, CreditInv, DueInv, IdlePayer
<1>2. TypeOK /\ WorkInv /\ PayerInv /\ (CreditInv /\ DueInv) /\ [Next]_vars
        => (CreditInv /\ DueInv)'
  BY CreditStep, DueStep
<1>3. PaidInv /\ DueInv => ShownPointsArePaid
  BY DEF PaidInv, DueInv, ShownPointsArePaid
<1> QED BY <1>1, <1>2, <1>3, TypeCorrect, WorkCorrect, PayerCorrect, PaidCorrect, PTL DEF Spec

\* Timely or not, the parts together: the inductive invariant of the ledger.
THEOREM LedgerIsSafe == Spec => []SafetyInv
<1>1. Init => (Timely => CreditInv /\ DueInv)
  BY DEF Init, CreditInv, DueInv, IdlePayer
<1>2. TypeOK /\ WorkInv /\ PayerInv /\ (Timely => CreditInv /\ DueInv) /\ [Next]_vars
        => (Timely => CreditInv /\ DueInv)'
  BY CreditStep, DueStep DEF Timely
<1>3. WorkInv /\ PayerInv /\ PaidInv /\ ClaimInv /\ (Timely => CreditInv /\ DueInv) => SafetyInv
  BY DEF SafetyInv, MoneyInv
<1> QED BY <1>1, <1>2, <1>3, TypeCorrect, WorkCorrect, PayerCorrect, PaidCorrect, ClaimsCorrect,
           PTL DEF Spec

=============================================================================
