------------------------------- MODULE Ledger -------------------------------
(***************************************************************************)
(* From a submitted partial to a payment: the pool's account of who is     *)
(* owed what.  Three actors share the store and the wallet:                *)
(*                                                                         *)
(*   request r   POST /v2/partial (farmer_rpc/v2.py post_partial and       *)
(*               check_partial), several at a time;                        *)
(*   confirmer   the confirm_partials loop of service/service.py;          *)
(*   payer       the submit_payments loop of service/service.py.           *)
(*                                                                         *)
(* They run on one asyncio event loop, so the code between two awaits is   *)
(* atomic and anything may happen at an await: each action below is one    *)
(* awaited call together with the code up to the next one.  A local        *)
(* variable that lives across an await is a field of its actor's record.   *)
(*                                                                         *)
(* The set of farmers is fixed here (module Farmers adds and removes       *)
(* them), and the collection of rewards is reduced to the claim rows it    *)
(* writes.                                                                 *)
(***************************************************************************)
EXTENDS Store, FiniteSets

CONSTANTS
  Launchers,        \* the registered farmers, by launcher_id
  Proofs,           \* proofs of space, by pos_hash
  Owner,            \* the farmer whose reward puzzle each proof commits to
  Requests,         \* slots for concurrent POST /v2/partial requests
  Convertible,      \* farmers whose payout_instructions are 32 hex bytes
  NodeFaults,       \* what the node's view may suffer: "reorg", "forget"
  Delay,            \* partial_confirmation_delay
  TimeLimit,        \* partial_time_limit
  MaxRequestTime,   \* longest POST /v2/partial: the RPC timeouts and sleeps
  BatchSize,        \* partial_confirmation_batches
  MaxAdditions,     \* max_additions_per_transaction
  MaxTime,          \* bound of the clock
  MaxClaims,        \* bound on reward claims
  MaxAborts,        \* bound on runs cut short by an exception or a restart
  NoProof, NoLauncher   \* neither a proof nor a farmer

ASSUME ConfigAssumption ==
  /\ Owner \in [Proofs -> Launchers]
  /\ Convertible \subseteq Launchers
  /\ Delay \in Nat /\ TimeLimit \in Nat /\ MaxRequestTime \in Nat
  /\ BatchSize \in Nat \ {0} /\ MaxAdditions \in Nat \ {0}
  /\ MaxTime \in Nat /\ MaxClaims \in Nat /\ MaxAborts \in Nat
  /\ Delay <= MaxTime
  /\ NoProof \notin Proofs /\ NoLauncher \notin Launchers

VARIABLES
  now,        \* time.time() in seconds, counted from an arbitrary origin
  node,       \* the full node's answer about each proof's signage point
  partials, claims, payouts,              \* the store's tables
  request, confirmer, payer,              \* the actors
  aborts,     \* runs cut short so far
  (* History: what the wallet has been told to pay. *)
  credited,   \* proofs that earned a share of some payment
  recredited, \* proofs that earned a share in more than one run
  shared,     \* claims whose amount was paid out by some run
  reshared,   \* claims whose amount was paid out by more than one run
  unrecorded, \* proofs paid by a run that stopped before add_payout
  unsettled   \* claims paid by a run that stopped before set_claims_statuses

tables  == <<partials, claims, payouts>>
history == <<credited, recredited, shared, reshared, unrecorded, unsettled>>
vars    == <<now, node, tables, request, confirmer, payer, aborts, history>>

Times == 0 .. MaxTime

SignagePoint == [status : {"unseen", "live", "reverted", "forgotten"},
                 time_received : Times]

IdleRequest   == [pc |-> "idle", proof |-> NoProof, current_time |-> 0, retried |-> FALSE]
IdleConfirmer == [pc |-> "idle", ahead |-> {}, target |-> 0, todo |-> {},
                  launcher |-> NoLauncher, pending |-> {}, vetted |-> {},
                  doomed |-> NoProof]
IdlePayer     == [pc |-> "idle", timestamp |-> 0, since |-> 0, due |-> {}, todo |-> {},
                  counted |-> {}, funds |-> {}, unsent |-> {}, sent |-> {}]

\* The clock starts late enough for current_time - Delay to be a uint64.
Init ==
  /\ now = Delay
  /\ node = [p \in Proofs |-> [status |-> "unseen", time_received |-> 0]]
  /\ partials = [p \in {} |-> 0]
  /\ claims = [t \in {} |-> 0]
  /\ payouts = {}
  /\ request = [r \in Requests |-> IdleRequest]
  /\ confirmer = IdleConfirmer
  /\ payer = IdlePayer
  /\ aborts = 0
  /\ credited = {} /\ recredited = {}
  /\ shared = {} /\ reshared = {}
  /\ unrecorded = {} /\ unsettled = {}

-----------------------------------------------------------------------------
(* The clock and the full node *)

\* No request outlives MaxRequestTime.
Tick ==
  /\ now < MaxTime
  /\ \A r \in Requests : request[r].pc # "idle" =>
       now < request[r].current_time + MaxRequestTime
  /\ now' = now + 1
  /\ UNCHANGED <<node, tables, request, confirmer, payer, aborts, history>>

SetNode(p, status, received) ==
  /\ node' = [node EXCEPT ![p] = [status |-> status, time_received |-> received]]
  /\ UNCHANGED <<now, tables, request, confirmer, payer, aborts, history>>

\* A signage point (or end of sub-slot) reaches the node, is undone by a
\* reorganisation or restored by one, or leaves the node's cache.
NodeReceives(p) == node[p].status = "unseen" /\ SetNode(p, "live", now)

NodeReorgs(p) ==
  /\ "reorg" \in NodeFaults
  /\ \/ node[p].status = "live" /\ SetNode(p, "reverted", node[p].time_received)
     \/ node[p].status = "reverted" /\ SetNode(p, "live", node[p].time_received)

NodeForgets(p) ==
  /\ "forget" \in NodeFaults
  /\ node[p].status \in {"live", "reverted"}
  /\ SetNode(p, "forgotten", node[p].time_received)

exists(p)   == node[p].status \in {"live", "reverted"}
reverted(p) == node[p].status = "reverted"

-----------------------------------------------------------------------------
(* POST /v2/partial *)

RequestStep(r, next) ==
  /\ request' = [request EXCEPT ![r] = next]
  /\ UNCHANGED <<now, node, claims, payouts, confirmer, payer, aborts, history>>

\* The farmer is known and current_time is read, before anything is checked.
PostPartial(r, p) ==
  /\ request[r].pc = "idle"
  /\ RequestStep(r, [pc |-> "lookup", proof |-> p, current_time |-> now,
                     retried |-> FALSE])
  /\ UNCHANGED partials

\* The first lookup finds nothing: sleep, then ask once more.
LookupRetry(r) ==
  /\ request[r].pc = "lookup" /\ ~request[r].retried
  /\ ~exists(request[r].proof)
  /\ RequestStep(r, [request[r] EXCEPT !.retried = TRUE])
  /\ UNCHANGED partials

\* Fault: the age of the signage point is not checked.
InTime_Unchecked(r) == TRUE

InTime(r) == LET p == request[r].proof IN
  request[r].current_time - node[p].time_received <= TimeLimit

\* The signage point is there, not reverted, and current_time is in time.
LookupFound(r) ==
  /\ request[r].pc = "lookup"
  /\ exists(request[r].proof) /\ ~reverted(request[r].proof)
  /\ InTime(r)
  /\ RequestStep(r, [request[r] EXCEPT !.pc = "store"])
  /\ UNCHANGED partials

\* The proof was good enough: add_partial.  What follows (adjust_difficulty
\* and add_farmer) touches the farmers table only.
StorePartial(r) ==
  /\ request[r].pc = "store"
  /\ partials' = add_partial(partials, Owner[request[r].proof],
                             request[r].proof, request[r].current_time)
  /\ RequestStep(r, IdleRequest)

\* Signage point missing, reverted or too old, bad signature, bad proof, or
\* an exception from an RPC: an error response and no row.
RejectPartial(r) ==
  /\ request[r].pc # "idle"
  /\ RequestStep(r, IdleRequest)
  /\ UNCHANGED partials

-----------------------------------------------------------------------------
(* confirm_partials *)

ConfirmerStep(next) ==
  /\ confirmer' = next
  /\ UNCHANGED <<now, node, claims, payouts, request, payer, aborts, history>>

ConfirmBegin ==
  /\ confirmer.pc = "idle"
  /\ ConfirmerStep([IdleConfirmer EXCEPT !.pc = "fetch", !.ahead = Launchers])
  /\ UNCHANGED partials

\* One page of get_launcher_ids; the target is computed once per page.
ConfirmFetch ==
  /\ confirmer.pc = "fetch" /\ confirmer.ahead # {}
  /\ \E page \in SUBSET confirmer.ahead :
       /\ page # {} /\ Cardinality(page) <= BatchSize
       /\ page = confirmer.ahead \/ Cardinality(page) = BatchSize
       /\ ConfirmerStep([confirmer EXCEPT !.pc = "launcher", !.todo = page,
                           !.ahead = @ \ page, !.target = now - Delay])
  /\ UNCHANGED partials


\* An empty page ends the run.
ConfirmEnd ==
  /\ confirmer.pc = "fetch" /\ confirmer.ahead = {}
  /\ ConfirmerStep(IdleConfirmer)
  /\ UNCHANGED partials

\* Fault: the run ends after its first page.
ConfirmPageEnd_FirstOnly ==
  /\ confirmer.pc = "launcher" /\ confirmer.todo = {}
  /\ ConfirmerStep(IdleConfirmer)
  /\ UNCHANGED partials

ConfirmPageEnd ==
  /\ confirmer.pc = "launcher" /\ confirmer.todo = {}
  /\ ConfirmerStep([confirmer EXCEPT !.pc = "fetch", !.target = 0])
  /\ UNCHANGED partials

\* Fault: every old row is checked again, confirmed or not.
ConfirmRead_All(l) ==
  /\ confirmer.pc = "launcher" /\ l \in confirmer.todo
  /\ ConfirmerStep([confirmer EXCEPT
       !.pc = "check", !.todo = @ \ {l}, !.launcher = l, !.vetted = {},
       !.pending = {p \in DOMAIN partials : /\ partials[p].launcher_id = l
                                            /\ partials[p].timestamp < confirmer.target}])
  /\ UNCHANGED partials

\* get_partials(confirmed=False, before=target)
ConfirmRead(l) ==
  /\ confirmer.pc = "launcher" /\ l \in confirmer.todo
  /\ ConfirmerStep([confirmer EXCEPT
       !.pc = "check", !.todo = @ \ {l}, !.launcher = l, !.vetted = {},
       !.pending = Before(partials, get_partials(partials, l, FALSE), confirmer.target)])
  /\ UNCHANGED partials

\* confirm_partial: the node still has the signage point, not reverted.
ConfirmVet(p) ==
  /\ confirmer.pc = "check" /\ p \in confirmer.pending
  /\ exists(p) /\ ~reverted(p)
  /\ ConfirmerStep([confirmer EXCEPT !.pending = @ \ {p}, !.vetted = @ \cup {p}])
  /\ UNCHANGED partials

ConfirmCondemn(p) ==
  /\ confirmer.pc = "check" /\ p \in confirmer.pending
  /\ ~exists(p) \/ reverted(p)
  /\ ConfirmerStep([confirmer EXCEPT !.pc = "delete", !.pending = @ \ {p}, !.doomed = p])
  /\ UNCHANGED partials

\* delete_partial takes the pos_hash only: whatever row it names by now.
ConfirmDelete ==
  /\ confirmer.pc = "delete"
  /\ partials' = delete_partial(partials, confirmer.doomed)
  /\ ConfirmerStep([confirmer EXCEPT !.pc = "check", !.doomed = NoProof])

\* Fault: the target is computed afresh after the checks.
ConfirmRows_LateTarget ==
  /\ confirmer.pc = "check" /\ confirmer.pending = {}
  /\ partials' = confirm_partials(partials, confirmer.launcher, now - Delay)
  /\ ConfirmerStep([confirmer EXCEPT !.pc = "launcher", !.launcher = NoLauncher,
                                     !.vetted = {}])

\* store.confirm_partials: every row of the farmer older than the target.
ConfirmRows ==
  /\ confirmer.pc = "check" /\ confirmer.pending = {}
  /\ partials' = confirm_partials(partials, confirmer.launcher, confirmer.target)
  /\ ConfirmerStep([confirmer EXCEPT !.pc = "launcher", !.launcher = NoLauncher,
                                     !.vetted = {}])

-----------------------------------------------------------------------------
(* The claim rows that collect_pool_rewards writes *)

ClaimStep == UNCHANGED <<now, node, partials, payouts, request, confirmer, payer,
                         aborts, history>>

\* add_reward_claim; the loop interval keeps two claims out of one second.
RecordClaim ==
  /\ Cardinality(DOMAIN claims) < MaxClaims
  /\ ~is_pending_reward_claim(claims)
  /\ \A t \in DOMAIN claims : t < now
  /\ claims' = add_reward_claim(claims, now)
  /\ ClaimStep

ConfirmClaim ==
  /\ \E t \in pending_claims(claims) : claims' = confirm_claim_tx(claims, t)
  /\ ClaimStep

-----------------------------------------------------------------------------
(* submit_payments *)

PayerStep(next) ==
  /\ payer' = next
  /\ UNCHANGED <<now, node, partials, request, confirmer>>

\* GET /v2/farmer: the points a farmer is shown as unpaid
current_points(l) ==
  Since(partials, Before(partials, get_partials(partials, l, TRUE), now),
        get_latest_payout(payouts))

\* History: due is what the farmers could see as unpaid when the run began.
PayBegin ==
  /\ payer.pc = "idle"
  /\ PayerStep([IdlePayer EXCEPT !.pc = "count", !.timestamp = now, !.todo = Launchers,
                  !.since = get_latest_payout(payouts),
                  !.due = UNION {current_points(l) : l \in Launchers}])
  /\ UNCHANGED <<claims, payouts, aborts, history>>

\* Fault: the second at which the last run began is left out of the window.
Unpaid_AfterSince(l) ==
  {p \in Before(partials, get_partials(partials, l, TRUE), payer.timestamp) :
     partials[p].timestamp > payer.since}

\* Fault: the two ends of the window are swapped.
Unpaid_Swapped(l) ==
  Since(partials, Before(partials, get_partials(partials, l, TRUE), payer.since),
        payer.timestamp)

\* get_partials(since, before=timestamp, confirmed=True) of one farmer
Unpaid(l) ==
  Since(partials, Before(partials, get_partials(partials, l, TRUE), payer.timestamp),
        payer.since)

PayCount(l) ==
  /\ payer.pc = "count" /\ l \in payer.todo
  /\ PayerStep([payer EXCEPT !.todo = @ \ {l}, !.counted = @ \cup Unpaid(l)])
  /\ UNCHANGED <<claims, payouts, aborts, history>>

Earners == {Owner[p] : p \in payer.counted}

\* Nothing to pay, or nobody to pay it to.
PayNothing ==
  /\ payer.pc = "count" /\ payer.todo = {}
  /\ get_unpaid_reward_claims(claims) = {} \/ payer.counted = {}
  /\ PayerStep(IdlePayer)
  /\ UNCHANGED <<claims, payouts, aborts, history>>

\* The payments are computed and every payout instruction converted before
\* the first one is sent.
PayCompute ==
  /\ payer.pc = "count" /\ payer.todo = {}
  /\ get_unpaid_reward_claims(claims) # {} /\ payer.counted # {}
  /\ Earners \subseteq Convertible
  /\ PayerStep([payer EXCEPT !.pc = "send", !.unsent = Earners,
                             !.funds = get_unpaid_reward_claims(claims)])
  /\ UNCHANGED <<claims, payouts, aborts, history>>

\* convert_payout_instructions raises: the whole run ends.
PayUnconvertible ==
  /\ payer.pc = "count" /\ payer.todo = {}
  /\ get_unpaid_reward_claims(claims) # {}
  /\ ~(Earners \subseteq Convertible)
  /\ PayerStep(IdlePayer)
  /\ UNCHANGED <<claims, payouts, aborts, history>>

\* Fault: the slice of the next batch starts where the last one did.
PaySend_SameSlice ==
  /\ payer.pc = "send"
  /\ \E batch \in SUBSET payer.unsent :
       /\ batch # {} /\ Cardinality(batch) <= MaxAdditions
       /\ LET earned == {p \in payer.counted : Owner[p] \in batch} IN
          /\ PayerStep([payer EXCEPT !.sent = @ \cup earned])
          /\ credited' = credited \cup earned
          /\ recredited' = recredited \cup (credited \cap earned)
  /\ shared' = shared \cup payer.funds
  /\ reshared' = reshared
  /\ UNCHANGED <<claims, payouts, aborts, unrecorded, unsettled>>

\* send_transaction for the next max_additions_per_transaction farmers
PaySend ==
  /\ payer.pc = "send"
  /\ \E batch \in SUBSET payer.unsent :
       /\ batch # {} /\ Cardinality(batch) <= MaxAdditions
       /\ batch = payer.unsent \/ Cardinality(batch) = MaxAdditions
       /\ LET earned == {p \in payer.counted : Owner[p] \in batch} IN
          /\ PayerStep([payer EXCEPT !.unsent = @ \ batch, !.sent = @ \cup earned])
          /\ credited' = credited \cup earned
          /\ recredited' = recredited \cup (credited \cap earned)
  /\ shared' = shared \cup payer.funds
  /\ reshared' = IF payer.sent = {} THEN reshared \cup (shared \cap payer.funds)
                                    ELSE reshared
  /\ UNCHANGED <<claims, payouts, aborts, unrecorded, unsettled>>

\* Fault: the payout is recorded after the first batch.
PayRecord_Early ==
  /\ payer.pc = "send"
  /\ payer.timestamp \notin payouts
  /\ payouts' = add_payout(payouts, payer.timestamp)
  /\ PayerStep([payer EXCEPT !.pc = "settle"])
  /\ UNCHANGED <<claims, aborts, history>>

\* Fault: the claims are written off first, and the payout is not recorded.
PayRecord_Swapped ==
  /\ payer.pc = "send" /\ payer.unsent = {}
  /\ claims' = set_claims_statuses(claims, payer.funds)
  /\ PayerStep([payer EXCEPT !.pc = "settle"])
  /\ UNCHANGED <<payouts, aborts, history>>

\* add_payout; the INSERT fails if the timestamp is taken.
PayRecord ==
  /\ payer.pc = "send" /\ payer.unsent = {}
  /\ payer.timestamp \notin payouts
  /\ payouts' = add_payout(payouts, payer.timestamp)
  /\ PayerStep([payer EXCEPT !.pc = "settle"])
  /\ UNCHANGED <<claims, aborts, history>>

\* Fault: the claims are read again instead of those that were shared out.
PaySettle_Reread ==
  /\ payer.pc = "settle"
  /\ claims' = set_claims_statuses(claims, get_unpaid_reward_claims(claims))
  /\ PayerStep(IdlePayer)
  /\ UNCHANGED <<payouts, aborts, history>>

\* set_claims_statuses of the claims that were read, no others
PaySettle ==
  /\ payer.pc = "settle"
  /\ claims' = set_claims_statuses(claims, payer.funds)
  /\ PayerStep(IdlePayer)
  /\ UNCHANGED <<payouts, aborts, history>>

-----------------------------------------------------------------------------
(* Runs cut short.  An exception ends the run and the loop starts another; *)
(* a restart ends every actor at once.  A call that raised may have taken  *)
(* effect (the run stops after it) or not (it stops before it).            *)

Abandoned == payer.pc \in {"send", "settle"} /\ payer.sent # {}

DropPayer ==
  /\ payer' = IdlePayer
  /\ unrecorded' = IF Abandoned /\ payer.pc = "send"
                     THEN unrecorded \cup payer.sent ELSE unrecorded
  /\ unsettled' = IF Abandoned THEN unsettled \cup payer.funds ELSE unsettled
  /\ UNCHANGED <<credited, recredited, shared, reshared>>

Abort ==
  /\ aborts < MaxAborts
  /\ aborts' = aborts + 1
  /\ UNCHANGED <<now, node, tables>>

PayFails ==
  /\ payer.pc # "idle"
  /\ Abort /\ DropPayer
  /\ UNCHANGED <<request, confirmer>>

ConfirmFails ==
  /\ confirmer.pc # "idle"
  /\ Abort
  /\ confirmer' = IdleConfirmer
  /\ UNCHANGED <<request, payer, history>>

Restart ==
  /\ Abort /\ DropPayer
  /\ confirmer' = IdleConfirmer
  /\ request' = [r \in Requests |-> IdleRequest]

-----------------------------------------------------------------------------

RequestNext(r) ==
  \/ \E p \in Proofs : PostPartial(r, p)
  \/ LookupRetry(r) \/ LookupFound(r) \/ StorePartial(r) \/ RejectPartial(r)

ConfirmerNext ==
  \/ ConfirmBegin \/ ConfirmFetch \/ ConfirmEnd \/ ConfirmPageEnd
  \/ \E l \in Launchers : ConfirmRead(l)
  \/ \E p \in Proofs : ConfirmVet(p) \/ ConfirmCondemn(p)
  \/ ConfirmDelete \/ ConfirmRows

PayerNext ==
  \/ PayBegin \/ PayNothing \/ PayCompute \/ PayUnconvertible
  \/ \E l \in Launchers : PayCount(l)
  \/ PaySend \/ PayRecord \/ PaySettle

NodeNext == \E p \in Proofs : NodeReceives(p) \/ NodeReorgs(p) \/ NodeForgets(p)

Next ==
  \/ Tick
  \/ NodeNext
  \/ \E r \in Requests : RequestNext(r)
  \/ ConfirmerNext
  \/ RecordClaim \/ ConfirmClaim
  \/ PayerNext
  \/ PayFails \/ ConfirmFails \/ Restart

Spec == Init /\ [][Next]_vars

\* The loops run for ever and every awaited call returns or raises; time
\* passes.  Nothing is assumed of the farmers, the node's view of a signage
\* point, or the chain (a claim may stay unconfirmed).
FairSpec == Spec /\ SF_vars(Tick) /\ WF_vars(ConfirmerNext) /\ WF_vars(PayerNext)
                 /\ \A r \in Requests :
                      WF_vars(LookupFound(r) \/ StorePartial(r) \/ RejectPartial(r))

-----------------------------------------------------------------------------
(* Properties.  Some of them hold only if a request cannot take too long:    *)
(* Timely says how long, and the runs and theorems that need it say so.      *)

\* A request is over before its partial could be confirmed ...
RequestsOutrun == MaxRequestTime <= Delay

\* ... and so is every later request for the same proof of space.
Timely == TimeLimit + 2 * MaxRequestTime <= Delay

PartialRow == [launcher_id : Launchers, timestamp : Times, confirmed : BOOLEAN]
ClaimRow   == [tx_confirmed : BOOLEAN, paid : BOOLEAN]

RequestState ==
  {IdleRequest} \cup
  [pc : {"lookup", "store"}, proof : Proofs, current_time : Times, retried : BOOLEAN]

ConfirmerState ==
  [pc : {"idle", "fetch", "launcher", "check", "delete"},
   ahead : SUBSET Launchers, target : Times, todo : SUBSET Launchers,
   launcher : Launchers \cup {NoLauncher}, pending : SUBSET Proofs,
   vetted : SUBSET Proofs, doomed : Proofs \cup {NoProof}]

PayerState ==
  [pc : {"idle", "count", "send", "settle"}, timestamp : Times, since : Times,
   due : SUBSET Proofs, todo : SUBSET Launchers, counted : SUBSET Proofs, funds : SUBSET Times,
   unsent : SUBSET Launchers, sent : SUBSET Proofs]

\* Every table holds rows of its schema and every actor a state of its code:
\* in particular no time that is stored or computed is out of a uint64's range.
TypeOK ==
  /\ now \in Delay .. MaxTime
  /\ node \in [Proofs -> SignagePoint]
  /\ DOMAIN partials \subseteq Proofs /\ partials \in [DOMAIN partials -> PartialRow]
  /\ DOMAIN claims \subseteq Times /\ claims \in [DOMAIN claims -> ClaimRow]
  /\ payouts \subseteq Times
  /\ request \in [Requests -> RequestState]
  /\ confirmer \in ConfirmerState
  /\ payer \in PayerState
  /\ aborts \in 0 .. MaxAborts
  /\ credited \subseteq Proofs /\ recredited \subseteq Proofs /\ unrecorded \subseteq Proofs
  /\ shared \subseteq Times /\ reshared \subseteq Times /\ unsettled \subseteq Times

Confirmed == {p \in DOMAIN partials : partials[p].confirmed}

\* (Under RequestsOutrun.) The UPDATE of confirm_partials names a farmer and an
\* age, not the rows the node was asked about; still, no row becomes confirmed
\* that this pass did not check (service.py:76-89).
OnlyVettedConfirmed ==
  [][Confirmed' \ Confirmed \subseteq confirmer.vetted]_vars

\* (Under Timely.) Confirmed work is settled: no resubmission and no late check
\* ever replaces, unconfirms or deletes the row (sqlite.py:184-200,
\* service.py:81-87).
ConfirmedIsFinal ==
  [][\A p \in Confirmed : p \in Confirmed' /\ partials'[p] = partials[p]]_vars

\* submit_payments never reaches the INSERT into payouts with a timestamp that
\* is already there, however often it runs in one second (service.py:318).
AddPayoutNeverCollides == payer.pc = "send" => payer.timestamp \notin payouts

\* (Under Timely.) A proof earns a share twice only if a run paid for it and was
\* cut short before add_payout (service.py:313-318): not by resubmission, not
\* because two windows overlap, not because the confirmer was slow.
CreditedOnceUnlessUnrecorded == recredited \subseteq unrecorded

\* The watermark never passes over work that was counted and not paid: every
\* farmer counted by a run that records its payout got a payment, whichever
\* batch he was in and whatever his instructions (service.py:294-318).
RecordedRunPaidAllCounted == payer.pc = "settle" => payer.counted \subseteq credited

\* (Under Timely.) The points a farmer sees are the points he is paid for: a run
\* that records its payout has paid all that GET /v2/farmer showed when it began,
\* whatever was submitted, confirmed or deleted meanwhile (v2.py:92-108,
\* service.py:253-318).
ShownPointsArePaid == payer.pc = "settle" => payer.due \subseteq credited

\* A claim is distributed twice only if a run distributed it and was cut short
\* before set_claims_statuses (service.py:313-319).
SharedOnceUnlessUnsettled == reshared \subseteq unsettled

\* A claim marked paid was distributed: one that confirms while the payments
\* are being sent waits for the next run (service.py:271, 319).
PaidClaimsWereShared == {t \in DOMAIN claims : claims[t].paid} \subseteq shared

\* A partial that has waited longer than the delay is confirmed, deleted or
\* resubmitted; none is forgotten by the paging (service.py:69-89).
EveryPartialDecided ==
  \A p \in Proofs, t \in {u \in Times : u + Delay < MaxTime} :
    (p \in DOMAIN partials /\ partials[p].timestamp = t)
      ~> (p \in DOMAIN partials => partials[p].confirmed \/ partials[p].timestamp # t)

\* Confirmed work that the next window covers, and a reward to pay it with
PayableWork == {p \in Confirmed : partials[p].timestamp >= get_latest_payout(payouts)}

RewardsWait == get_unpaid_reward_claims(claims) # {} /\ PayableWork # {}

AllConvertible == \A p \in PayableWork : Owner[p] \in Convertible

\* Rewards in hand and payable work do not sit side by side for ever: the payer
\* distributes them, if everyone with payable work can be paid
\* (service.py:248-319).
RewardsReachFarmers == (RewardsWait /\ AllConvertible) ~> ~(RewardsWait /\ AllConvertible)

\* What README.md:40 says: they reach those who can be paid, whoever else cannot.
RewardsReachEveryFarmer ==
  LET someone == \E p \in PayableWork : Owner[p] \in Convertible
  IN  (RewardsWait /\ someone) ~> ~(RewardsWait /\ someone)

\* What README.md:38 and the docstring at service.py:250 say: confirmed work is
\* credited, or still lies ahead of the payout watermark.
ConfirmedWorkIsPayable == Confirmed \subseteq credited \cup PayableWork

-----------------------------------------------------------------------------
(* The inductive invariant behind the safety properties *)

\* Nothing was received in the future.
NodeInv == \A p \in Proofs : node[p].time_received <= now

\* An open request is young, and one that found its signage point was in time.
RequestInv ==
  \A r \in Requests : request[r].pc # "idle" =>
    LET p == request[r].proof  c == request[r].current_time IN
    /\ c <= now /\ now <= c + MaxRequestTime
    /\ request[r].pc = "store" =>
         /\ node[p].status # "unseen"
         /\ node[p].time_received - MaxRequestTime <= c
         /\ c <= node[p].time_received + TimeLimit

\* So was every row, and a confirmed row is older than the delay.
RowInv ==
  \A p \in DOMAIN partials :
    /\ partials[p].launcher_id = Owner[p]
    /\ node[p].status # "unseen"
    /\ node[p].time_received - MaxRequestTime <= partials[p].timestamp
    /\ partials[p].timestamp <= node[p].time_received + TimeLimit
    /\ partials[p].confirmed => partials[p].timestamp + Delay < now

\* The pass works through unconfirmed rows, with a target in the past, and
\* leaves no unconfirmed row below the target out of account.
Accounted == confirmer.pending \cup confirmer.vetted \cup {confirmer.doomed}

ConfirmerInv ==
  /\ confirmer.pc \in {"launcher", "check", "delete"} => confirmer.target + Delay <= now
  /\ confirmer.pc \in {"check", "delete"} =>
       /\ confirmer.launcher \in Launchers
       /\ confirmer.pending \cap Confirmed = {}
       /\ RequestsOutrun =>
            \A p \in DOMAIN partials :
              (/\ partials[p].launcher_id = confirmer.launcher
               /\ ~partials[p].confirmed
               /\ partials[p].timestamp < confirmer.target) => p \in Accounted
  /\ confirmer.pc = "delete" => confirmer.doomed \in Proofs \ Confirmed
  /\ confirmer.pc # "delete" => confirmer.doomed = NoProof

\* The payer's window starts at the last payout and is not empty once
\* something was counted; what was counted lies in it.
PayerInv ==
  /\ payer.pc \in {"count", "send"} => \A u \in payouts : u <= payer.since
  /\ payer.since \in payouts \cup {0}
  /\ payer.pc = "settle" => payer.timestamp \in payouts
  /\ payer.pc # "count" => payer.todo = {}
  /\ payer.counted # {} => payer.since < payer.timestamp
  /\ payer.pc \in {"send", "settle"} => payer.counted # {}
  /\ payer.sent \subseteq payer.counted
  /\ \A p \in payer.sent : Owner[p] \notin payer.unsent
  /\ payer.pc = "idle" => payer = IdlePayer
  /\ payer.pc = "count" => payer.sent = {}

\* What was paid for stays below the watermark, unless no watermark was set.
CreditInv ==
  /\ \A p \in payer.counted :
       p \in Confirmed /\ payer.since <= partials[p].timestamp
                      /\ partials[p].timestamp < payer.timestamp
  /\ \A p \in credited :
       \/ p \in unrecorded
       \/ payer.pc = "send" /\ p \in payer.sent
       \/ \E u \in payouts : partials[p].timestamp < u
  /\ credited \subseteq Confirmed
  /\ recredited \subseteq unrecorded

\* A run accounts for all that was due when it began, which includes what earlier
\* runs paid and did not record ...
DueInv ==
  /\ \A p \in payer.due :
       /\ p \in Confirmed /\ payer.since <= partials[p].timestamp
                         /\ partials[p].timestamp < payer.timestamp
       /\ p \in payer.counted \/ (payer.pc = "count" /\ Owner[p] \in payer.todo)
  /\ payer.pc \in {"count", "send"} => \A p \in credited :
       p \in payer.due \cup payer.sent \/ \E u \in payouts : partials[p].timestamp < u

\* ... and has paid whoever it counted and has not left unsent.
PaidInv ==
  /\ payer.unsent \subseteq Earners
  /\ payer.pc \in {"send", "settle"} =>
       \A p \in payer.counted : Owner[p] \in payer.unsent \/ p \in payer.sent
  /\ payer.pc = "settle" => payer.unsent = {}
  /\ payer.sent \subseteq credited

\* The claims a run shares out stay confirmed and unpaid until it settles them.
\* A claim that was shared out is settled, or about to be, or its run stopped.
ClaimInv ==
  /\ payer.pc \in {"send", "settle"} =>
       payer.funds # {} /\ payer.funds \subseteq get_unpaid_reward_claims(claims)
  /\ payer.sent # {} => payer.funds \subseteq shared
  /\ \A t \in DOMAIN claims : claims[t].paid => t \in shared
  /\ \A t \in shared : t \in DOMAIN claims /\ claims[t].tx_confirmed
  /\ \A t \in shared :
       \/ t \in unsettled
       \/ claims[t].paid
       \/ t \in payer.funds /\ payer.sent # {}
  /\ reshared \subseteq unsettled

WorkInv   == NodeInv /\ RequestInv /\ RowInv /\ ConfirmerInv
MoneyInv  == PayerInv /\ PaidInv /\ ClaimInv
SafetyInv == WorkInv /\ MoneyInv /\ (Timely => CreditInv /\ DueInv)

=============================================================================
