------------------------------ MODULE Farmers ------------------------------
(***************************************************************************)
(* Membership: who is registered with the pool, with which settings, and   *)
(* when he is forgotten.  The rows of the farmers table are written by     *)
(*                                                                         *)
(*   request r  POST /v2/farmer, PUT /v2/farmer and POST /v2/partial       *)
(*              (farmer_rpc/v2.py), several at a time;                     *)
(*   scanner    the check_for_singletons loop (service/service.py).        *)
(*                                                                         *)
(* As in Ledger, an action is one awaited call with the code up to the     *)
(* next one.  What the other two loops do to the partials and payouts      *)
(* tables is reduced to the statements they run (Confirm, Discard, Payout).*)
(* A request that is refused changes nothing and is not shown.             *)
(***************************************************************************)
EXTENDS Store, FiniteSetsExt

CONSTANTS
  Launchers,      \* launcher_ids, as numbers: the store orders them
  ChainKey,       \* the key each farmer's plot NFT was made with
  Keys,           \* authentication public keys
  Instructions,   \* payout instructions
  Difficulties,
  Proofs, Owner,  \* proofs of space and the farmer of each
  Requests,       \* slots for concurrent requests
  Followed,       \* farmers whose acknowledged updates the history follows
  Several,        \* farmers for whom the node may report several coins
  PageSize,       \* singleton_scan_batches
  MaxTime,        \* bound of the clock
  MaxAborts       \* bound on handlers and scans cut short

ASSUME FarmersAssumption ==
  /\ Launchers \subseteq Nat \ {0}
  /\ Followed \subseteq Launchers /\ Several \subseteq Launchers
  /\ ChainKey \in [Launchers -> Keys]
  /\ Owner \in [Proofs -> Launchers]
  /\ PageSize \in Nat \ {0} /\ MaxTime \in Nat /\ MaxAborts \in Nat

VARIABLES
  now,
  coin,       \* each farmer's unspent plot NFT, as the full node reports it
  farmers, singletons, partials, payouts,   \* the store's tables
  request, scanner,                         \* the actors
  aborts,     \* handlers and scans cut short so far
  acked,      \* history: the last payout instructions the pool acknowledged,
  contested   \* history: farmers whose older row was held by another then

tables  == <<farmers, singletons, partials, payouts>>
history == <<acked, contested>>
vars    == <<now, coin, tables, request, scanner, aborts, history>>

Times     == 0 .. MaxTime
CoinState == {"absent", "single", "several"}
FarmerRow == [payout_instructions : Instructions, difficulty : Difficulties,
              authentication_public_key : Keys]

IdleRequest == [pc |-> "idle"]
IdleScanner == [pc |-> "idle", start |-> 0, todo |-> {}, launcher |-> 0, own_key |-> FALSE,
                since |-> 0, active |-> FALSE, found |-> {}]

Init ==
  /\ now = 0
  /\ coin = [l \in Launchers |-> "absent"]
  /\ farmers = [l \in {} |-> 0]
  /\ singletons = [l \in {} |-> 0]
  /\ partials = [p \in {} |-> 0]
  /\ payouts = {}
  /\ request = [r \in Requests |-> IdleRequest]
  /\ scanner = IdleScanner
  /\ aborts = 0
  /\ acked = [l \in {} |-> 0]
  /\ contested = {}

-----------------------------------------------------------------------------
(* The clock, the chain, and the other loops *)

Tick ==
  /\ now < MaxTime
  /\ now' = now + 1
  /\ UNCHANGED <<coin, tables, request, scanner, aborts, history>>

\* A plot NFT joins the pool and leaves it; it may come back.  The node may also
\* report several unspent coins with its puzzle hashes.
CoinMoves(l) ==
  /\ \E c \in CoinState :
       /\ coin[l] # c /\ "single" \in {coin[l], c}
       /\ c = "several" => l \in Several
       /\ coin' = [coin EXCEPT ![l] = c]
  /\ UNCHANGED <<now, tables, request, scanner, aborts, history>>

OtherLoop == UNCHANGED <<now, coin, farmers, singletons, request, scanner, aborts, history>>

\* The UPDATE of confirm_partials, the DELETE of a partial the node has lost,
\* and the INSERT of submit_payments
Confirm(l) ==
  /\ \E until \in 0 .. now + 1 : partials' = confirm_partials(partials, l, until)
  /\ OtherLoop /\ UNCHANGED payouts

Discard(p) ==
  /\ p \in DOMAIN partials /\ ~partials[p].confirmed
  /\ partials' = delete_partial(partials, p)
  /\ OtherLoop /\ UNCHANGED payouts

Payout ==
  /\ now \notin payouts
  /\ payouts' = add_payout(payouts, now)
  /\ OtherLoop /\ UNCHANGED partials

\* A farmer's rows, and those of them that no payout covers yet
RowsOf(l) == {p \in DOMAIN partials : partials[p].launcher_id = l}
Unpaid(l) == {p \in RowsOf(l) : partials[p].timestamp >= get_latest_payout(payouts)}

-----------------------------------------------------------------------------
(* The handlers *)

\* A request that will write back the payout instructions it read
Keeps(q) == q.pc \in {"check", "adjust"} \/ (q.pc = "put" /\ ~q.instructed)
HeldByOthers(r, l) == \E o \in Requests \ {r} : Keeps(request[o]) /\ request[o].launcher = l

\* History: the pool acknowledges the payout instructions of a farmer.
Acknowledge(r, l, instructions) ==
  IF l \notin Followed THEN UNCHANGED history ELSE
  /\ acked' = Upsert(acked, l, instructions)
  /\ contested' = IF HeldByOthers(r, l) THEN contested \cup {l} ELSE contested \ {l}

RequestStep(r, next) ==
  /\ request' = [request EXCEPT ![r] = next]
  /\ UNCHANGED <<now, coin, singletons, payouts, scanner, aborts>>

\* POST /v2/farmer: the node shows one plot NFT that is not exiting, made with
\* the key of the payload, and the payload is signed with that key.  (Only the
\* puzzle hash of a plot NFT that is not exiting is asked for: of several coins
\* the scan finds, this may find one.  If not, the request is refused.)
PostFarmerCheck(r, l) ==
  /\ request[r].pc = "idle"
  /\ coin[l] # "absent"
  /\ \E row \in FarmerRow :
       /\ row.authentication_public_key = ChainKey[l]
       /\ RequestStep(r, [pc |-> "post", launcher |-> l, farmer |-> row])
  /\ UNCHANGED <<farmers, partials, history>>

\* Fault: a suggested difficulty of None is stored as zero.
PostFarmerStore_Zero(r) ==
  /\ request[r].pc = "post"
  /\ LET q == request[r] IN
     /\ farmers' = add_farmer(farmers, q.launcher, [q.farmer EXCEPT !.difficulty = 0])
     /\ Acknowledge(r, q.launcher, q.farmer.payout_instructions)
  /\ RequestStep(r, IdleRequest)
  /\ UNCHANGED partials

\* Whatever row was there is replaced.
PostFarmerStore(r) ==
  /\ request[r].pc = "post"
  /\ LET q == request[r] IN
     /\ farmers' = add_farmer(farmers, q.launcher, q.farmer)
     /\ Acknowledge(r, q.launcher, q.farmer.payout_instructions)
  /\ RequestStep(r, IdleRequest)
  /\ UNCHANGED partials

\* PUT /v2/farmer: the fields of the payload that are not None replace those of
\* the row that was read; all columns are written.
Merged(old, new, fields) ==
  [f \in DOMAIN old |-> IF f \in fields THEN new[f] ELSE old[f]]

PutFarmerRead(r, l) ==
  /\ request[r].pc = "idle"
  /\ l \in DOMAIN farmers
  /\ \E new \in FarmerRow, fields \in SUBSET DOMAIN farmers[l] :
       RequestStep(r, [pc |-> "put", launcher |-> l, farmer |-> Merged(farmers[l], new, fields),
                       instructed |-> "payout_instructions" \in fields])
  /\ UNCHANGED <<farmers, partials, history>>

PutFarmerStore(r) ==
  /\ request[r].pc = "put"
  /\ LET q == request[r] IN
     /\ farmers' = add_farmer(farmers, q.launcher, q.farmer)
     /\ IF q.instructed THEN Acknowledge(r, q.launcher, q.farmer.payout_instructions)
        ELSE UNCHANGED history
  /\ RequestStep(r, IdleRequest)
  /\ UNCHANGED partials

\* POST /v2/partial: the farmer's row is read and kept through check_partial
\* and adjust_difficulty (module Ledger has the checks).
PartialRead(r, p) ==
  /\ request[r].pc = "idle"
  /\ Owner[p] \in DOMAIN farmers
  /\ RequestStep(r, [pc |-> "check", launcher |-> Owner[p], proof |-> p,
                     farmer |-> farmers[Owner[p]], current_time |-> now])
  /\ UNCHANGED <<farmers, partials, history>>

PartialStore(r) ==
  /\ request[r].pc = "check"
  /\ LET q == request[r] IN
     /\ partials' = add_partial(partials, q.launcher, q.proof, q.current_time)
     /\ RequestStep(r, [pc |-> "adjust", launcher |-> q.launcher, farmer |-> q.farmer])
  /\ UNCHANGED <<farmers, history>>

\* check_partial refuses: nothing is written.
PartialReject(r) ==
  /\ request[r].pc = "check"
  /\ RequestStep(r, IdleRequest)
  /\ UNCHANGED <<farmers, partials, history>>

\* The row that was read is written back, with the new difficulty.
PartialWriteBack(r) ==
  /\ request[r].pc = "adjust"
  /\ LET q == request[r] IN
       \E new_difficulty \in Difficulties :
         farmers' = add_farmer(farmers, q.launcher,
                               [q.farmer EXCEPT !.difficulty = new_difficulty])
  /\ RequestStep(r, IdleRequest)
  /\ UNCHANGED <<partials, history>>

-----------------------------------------------------------------------------
(* check_for_singletons *)

ScannerStep(next) ==
  /\ scanner' = next
  /\ UNCHANGED <<now, coin, payouts, request, aborts, history>>

Reading(next) == ScannerStep(next) /\ UNCHANGED <<farmers, singletons, partials>>

ScanBegin ==
  /\ scanner.pc = "idle"
  /\ Reading([IdleScanner EXCEPT !.pc = "fetch"])

\* The next page; an empty one ends the scan.
ScanFetch ==
  /\ scanner.pc = "fetch"
  /\ LET page == get_launcher_ids(farmers, scanner.start, PageSize) IN
     IF page = {} THEN Reading(IdleScanner)
     ELSE Reading([IdleScanner EXCEPT !.pc = "launcher", !.todo = page,
                                      !.start = scanner.start + PageSize])

\* The loop body is left: on to the next farmer of the page or the next page
Continue ==
  [IdleScanner EXCEPT !.pc = IF scanner.todo = {} THEN "fetch" ELSE "launcher",
                      !.todo = scanner.todo, !.start = scanner.start]

\* get_farmer: what matters of the row is whether its key is the plot NFT's.
ScanRead ==
  /\ scanner.pc = "launcher"
  /\ LET l == Min(scanner.todo) IN
     Reading([scanner EXCEPT !.pc = "lookup", !.todo = @ \ {l}, !.launcher = l,
                !.own_key = farmers[l].authentication_public_key = ChainKey[l]])

\* The node is asked for unspent coins with the two puzzle hashes of that key.
CoinFound == IF scanner.own_key THEN coin[scanner.launcher] ELSE "absent"

\* Several are an error that ends the scan, for the farmers behind him too.
ScanSeveral ==
  /\ scanner.pc = "lookup" /\ CoinFound = "several"
  /\ Reading(IdleScanner)

ScanLookup ==
  /\ scanner.pc = "lookup" /\ CoinFound # "several"
  /\ Reading([scanner EXCEPT !.pc = IF CoinFound = "absent" THEN "payout" ELSE "found"])

\* Not deep enough below the peak: nothing is recorded.
ScanYoung ==
  /\ scanner.pc = "found"
  /\ Reading(Continue)

\* What the row says of the coin is used in module Rewards only.
ScanAddSingleton ==
  /\ scanner.pc = "found"
  /\ singletons' = add_singleton(singletons, scanner.launcher, "coin")
  /\ ScannerStep(Continue)
  /\ UNCHANGED <<farmers, partials>>

\* No plot NFT: read the latest payout, the confirmed and the unconfirmed
\* partials since then, one after the other.
ScanPayout ==
  /\ scanner.pc = "payout"
  /\ Reading([scanner EXCEPT !.pc = "confirmed", !.since = get_latest_payout(payouts)])

\* Fault: every partial counts, also those a payout has covered.
SinceThen_Ever(confirmed) == get_partials(partials, scanner.launcher, confirmed)

\* Fault: the second of the payout itself is left out.
SinceThen_After(confirmed) ==
  {p \in get_partials(partials, scanner.launcher, confirmed) :
     partials[p].timestamp > scanner.since}

SinceThen(confirmed) ==
  Since(partials, get_partials(partials, scanner.launcher, confirmed), scanner.since)

\* History: the farmer's rows that a read could find
Findable(confirmed) ==
  {<<p, partials[p].timestamp>> : p \in get_partials(partials, scanner.launcher, confirmed)}

ScanConfirmed ==
  /\ scanner.pc = "confirmed"
  /\ Reading([scanner EXCEPT !.pc = "unconfirmed", !.active = SinceThen(TRUE) # {},
                             !.found = Findable(TRUE)])

ScanUnconfirmed ==
  /\ scanner.pc = "unconfirmed"
  /\ IF scanner.active \/ SinceThen(FALSE) # {}
       THEN Reading(Continue)
       ELSE Reading([scanner EXCEPT !.pc = "delete_farmer",
                                    !.found = @ \cup Findable(FALSE)])

ScanDeleteFarmer ==
  /\ scanner.pc = "delete_farmer"
  /\ farmers' = delete_farmer(farmers, scanner.launcher)
  /\ ScannerStep([scanner EXCEPT !.pc = "delete_singleton"])
  /\ UNCHANGED <<singletons, partials>>

ScanDeleteSingleton ==
  /\ scanner.pc = "delete_singleton"
  /\ singletons' = delete_singleton(singletons, scanner.launcher)
  /\ ScannerStep([scanner EXCEPT !.pc = "delete_partials"])
  /\ UNCHANGED <<farmers, partials>>

\* Fault: the partials of a pruned farmer stay.
ScanDeletePartials_Skip ==
  /\ scanner.pc = "delete_partials"
  /\ ScannerStep(Continue)
  /\ UNCHANGED <<farmers, singletons, partials>>

ScanDeletePartials ==
  /\ scanner.pc = "delete_partials"
  /\ partials' = delete_all_partials(partials, scanner.launcher)
  /\ ScannerStep(Continue)
  /\ UNCHANGED <<farmers, singletons>>

-----------------------------------------------------------------------------
(* A handler raises, a scan raises, or the server is restarted. *)

Abort ==
  /\ aborts < MaxAborts
  /\ aborts' = aborts + 1
  /\ UNCHANGED <<now, coin, tables, history>>

RequestFails(r) ==
  /\ request[r].pc # "idle"
  /\ Abort
  /\ request' = [request EXCEPT ![r] = IdleRequest]
  /\ UNCHANGED scanner

Restart ==
  /\ Abort
  /\ scanner' = IdleScanner
  /\ request' \in {request, [r \in Requests |-> IdleRequest]}

-----------------------------------------------------------------------------

RequestNext(r) ==
  \/ \E l \in Launchers : PostFarmerCheck(r, l) \/ PutFarmerRead(r, l)
  \/ \E p \in Proofs : PartialRead(r, p)
  \/ PostFarmerStore(r) \/ PutFarmerStore(r)
  \/ PartialStore(r) \/ PartialReject(r) \/ PartialWriteBack(r)

ScannerNext ==
  \/ ScanBegin \/ ScanFetch \/ ScanRead \/ ScanSeveral \/ ScanLookup
  \/ ScanYoung \/ ScanAddSingleton
  \/ ScanPayout \/ ScanConfirmed \/ ScanUnconfirmed
  \/ ScanDeleteFarmer \/ ScanDeleteSingleton \/ ScanDeletePartials

Next ==
  \/ Tick \/ Payout
  \/ \E l \in Launchers : CoinMoves(l) \/ Confirm(l)
  \/ \E p \in Proofs : Discard(p)
  \/ \E r \in Requests : RequestNext(r) \/ RequestFails(r)
  \/ ScannerNext \/ Restart

Spec == Init /\ [][Next]_vars

\* The scanner's loop runs for ever and its awaited calls return.
FairSpec == Spec /\ WF_vars(ScannerNext)

-----------------------------------------------------------------------------
(* Properties *)

PartialRow == [launcher_id : Launchers, timestamp : Times, confirmed : BOOLEAN]

RequestState ==
  {IdleRequest}
  \cup [pc : {"post", "adjust"}, launcher : Launchers, farmer : FarmerRow]
  \cup [pc : {"put"}, launcher : Launchers, farmer : FarmerRow, instructed : BOOLEAN]
  \cup [pc : {"check"}, launcher : Launchers, farmer : FarmerRow, proof : Proofs,
        current_time : Times]

ScannerState ==
  [pc : {"idle", "fetch", "launcher", "lookup", "found", "payout", "confirmed", "unconfirmed",
         "delete_farmer", "delete_singleton", "delete_partials"},
   start : Nat, todo : SUBSET Launchers, launcher : Launchers \cup {0}, own_key : BOOLEAN,
   since : Times, active : BOOLEAN, found : SUBSET (Proofs \X Times)]

\* Every table holds rows of its schema, every request a row it may write
\* back, and the scan a position in the table it pages through.
TypeOK ==
  /\ now \in Times
  /\ coin \in [Launchers -> CoinState]
  /\ DOMAIN farmers \subseteq Launchers /\ farmers \in [DOMAIN farmers -> FarmerRow]
  /\ DOMAIN singletons \subseteq Launchers /\ singletons \in [DOMAIN singletons -> {"coin"}]
  /\ DOMAIN partials \subseteq Proofs /\ partials \in [DOMAIN partials -> PartialRow]
  /\ payouts \subseteq Times
  /\ request \in [Requests -> RequestState]
  /\ scanner \in ScannerState
  /\ aborts \in 0 .. MaxAborts
  /\ DOMAIN acked \subseteq Followed /\ acked \in [DOMAIN acked -> Instructions]
  /\ contested \subseteq Followed


\* When they do: a farmer's last acknowledged payout instructions hold for good,
\* through rewrites of his row, pruning, and re-registration, unless another
\* request of his held the older row when they were stored (v2.py:344-352,
\* 430-438): that one may put the old ones back.
UpdatesStickUncontested ==
  \A l \in (DOMAIN farmers \cap DOMAIN acked) \ contested :
    farmers[l].payout_instructions = acked[l]

Adjusting(l) == \E r \in Requests : request[r].pc = "adjust" /\ request[r].launcher = l
Pruning(l)   == scanner.pc \in {"delete_singleton", "delete_partials"} /\ scanner.launcher = l

\* Nothing is kept of an unknown farmer: a partial or a singleton row without a
\* farmer is about to be deleted, or its farmer about to be put back
\* (service.py:136-138, v2.py:412-439).  It holds until a run is cut short in
\* between.
NothingKeptOfUnknown ==
  aborts = 0 => \A l \in Launchers \ DOMAIN farmers :
    /\ RowsOf(l) # {} => Pruning(l) \/ Adjusting(l)
    /\ l \in DOMAIN singletons => Pruning(l) /\ scanner.pc = "delete_singleton"

\* Only inactive farmers are pruned (README.md:222): the work a farmer is still
\* owed for and that is deleted with him was there for neither of the two reads.
\* It came after them, or was confirmed in between (service.py:124-138).
PrunesOnlyInactive ==
  scanner.pc \in {"delete_farmer", "delete_singleton", "delete_partials"} =>
    \A p \in Unpaid(scanner.launcher) : <<p, partials[p].timestamp>> \notin scanner.found

Gone(l) ==
  /\ coin[l] = "absent" /\ Unpaid(l) = {}
  /\ \A r \in Requests : request[r].pc # "idle" => request[r].launcher # l

\* A handler that has yet to write the farmers table
Writing == \E r \in Requests : request[r].pc \in {"post", "put", "adjust"}

\* A farmer who left, has no work to be paid for and asks for nothing is
\* forgotten, although deletions shift the pages of the scan (service.py:96-138).
\* The others must no longer come and go: if a farmer of an earlier page is
\* pruned in every scan and registers again before the next, the one behind him
\* is passed over every time.  And no farmer may keep several coins, or every
\* scan ends at him (service.py:121-122).
Calm == ~Writing /\ \A l \in Launchers : coin[l] # "several"

GoneArePruned ==
  \A l \in Launchers : <>[](Gone(l) /\ Calm) => <>[](l \notin DOMAIN farmers)

=============================================================================
