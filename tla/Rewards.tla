------------------------------- MODULE Rewards -------------------------------
(***************************************************************************)
(* Absorbing block rewards.  A farmer's block reward is a coin locked to    *)
(* his plot NFT; collect_pool_rewards (service/service.py) forwards it to   *)
(* the pool by spending the reward together with the plot NFT coin that     *)
(* the singletons table names, and records the transaction as a claim for   *)
(* submit_payments to share out.                                            *)
(*                                                                          *)
(*   collector  the collect_pool_rewards loop;                              *)
(*   scanner    check_for_singletons, as far as it writes the singletons    *)
(*              table and prunes (module Farmers has all of it);            *)
(*   chain, wallet   external: plot NFT coins, reward coins and the         *)
(*              transactions the wallet was handed.                         *)
(*                                                                          *)
(* Spending a plot NFT coin creates the next one, so a coin is named by its *)
(* generation.  A transaction's id is the hash of its spends: a transaction *)
(* is named by the set of its spends, and a claim row, whose timestamp no   *)
(* property tells apart, by its transaction.                                *)
(***************************************************************************)
EXTENDS Store

CONSTANTS
  Launchers,
  Rewards, RewardOf,   \* coins at a farmer's reward puzzle hash, and whose it is
  Dust,                \* those among them that are not block rewards
  Untracked,           \* farmers whose row has another key than their plot NFT: PUT
                       \* /v2/farmer takes any
  MaxMoves,            \* bound on the farmers' own spends of their plot NFT
  MaxAborts,           \* bound on runs cut short
  NoLauncher           \* not a farmer

ASSUME RewardsAssumption ==
  /\ RewardOf \in [Rewards -> Launchers]
  /\ IsFiniteSet(Rewards) /\ Dust \subseteq Rewards /\ Untracked \subseteq Launchers
  /\ MaxMoves \in Nat /\ MaxAborts \in Nat /\ NoLauncher \notin Launchers

VARIABLES
  plotnft,     \* the chain: each farmer's unspent plot NFT coin
  reward,      \* the chain: each reward coin
  txs,         \* the wallet: the transactions it holds, and whether confirmed
  farmers, singletons, claims,   \* the store's tables
  cache,       \* _reward_hash_to_launcher_id
  scanner, collector,
  moves, aborts

chain == <<plotnft, reward, txs>>
vars  == <<chain, farmers, singletons, claims, cache, scanner, collector, moves, aborts>>

Generations == 0 .. Cardinality(Rewards) + MaxMoves
Spend == [launcher : Launchers, generation : Generations, reward : Rewards]

IdleScanner   == [pc |-> "idle", launcher |-> NoLauncher, generation |-> 0]
IdleCollector == [pc |-> "idle", buried |-> {}, records |-> {}, todo |-> {},
                  launcher |-> NoLauncher, generation |-> 0, spends |-> {}]

Init ==
  /\ plotnft = [l \in Launchers |-> [generation |-> 0, deep |-> FALSE, left |-> FALSE]]
  /\ reward = [r \in Rewards |-> "none"]
  /\ txs = [t \in {} |-> "pending"]
  /\ farmers = {}
  /\ singletons = [l \in {} |-> 0]
  /\ claims = [t \in {} |-> 0]
  /\ cache = {}
  /\ scanner = IdleScanner /\ collector = IdleCollector
  /\ moves = 0 /\ aborts = 0

-----------------------------------------------------------------------------
(* The chain and the wallet.  "Deep" is confirmation_security_threshold     *)
(* blocks below the peak.                                                   *)

ChainStep == UNCHANGED <<farmers, singletons, claims, cache, scanner, collector, aborts>>

FarmReward(r) ==
  /\ reward[r] = "none"
  /\ reward' = [reward EXCEPT ![r] = "fresh"]
  /\ ChainStep /\ UNCHANGED <<plotnft, txs, moves>>

Bury ==
  /\ \/ \E r \in Rewards : /\ reward[r] = "fresh"
                           /\ reward' = [reward EXCEPT ![r] = "deep"]
                           /\ UNCHANGED plotnft
     \/ \E l \in Launchers : /\ ~plotnft[l].deep
                             /\ plotnft' = [plotnft EXCEPT ![l].deep = TRUE]
                             /\ UNCHANGED reward
  /\ ChainStep /\ UNCHANGED <<txs, moves>>

\* The farmer starts to exit (the coin is replaced) or leaves.
FarmerSpends(l) ==
  /\ moves < MaxMoves /\ moves' = moves + 1
  /\ ~plotnft[l].left
  /\ \E left \in BOOLEAN :
       plotnft' = [plotnft EXCEPT ![l] = [generation |-> @.generation + 1,
                                          deep |-> FALSE, left |-> left]]
  /\ ChainStep /\ UNCHANGED <<reward, txs>>

Spendable(t) ==
  \A s \in t : /\ ~plotnft[s.launcher].left
               /\ plotnft[s.launcher].generation = s.generation
               /\ reward[s.reward] # "spent"

\* A transaction enters a block if all it spends is unspent.
Mine(t) ==
  /\ t \in DOMAIN txs /\ txs[t] = "pending" /\ Spendable(t)
  /\ txs' = [txs EXCEPT ![t] = "confirmed"]
  /\ plotnft' = [l \in Launchers |->
                   IF \E s \in t : s.launcher = l
                     THEN [plotnft[l] EXCEPT !.generation = @ + 1, !.deep = FALSE]
                     ELSE plotnft[l]]
  /\ reward' = [r \in Rewards |-> IF \E s \in t : s.reward = r THEN "spent" ELSE reward[r]]
  /\ ChainStep /\ UNCHANGED moves

-----------------------------------------------------------------------------
(* POST /v2/farmer and check_for_singletons *)

Register(l) ==
  /\ l \notin farmers /\ ~plotnft[l].left
  /\ farmers' = farmers \cup {l}
  /\ UNCHANGED <<chain, singletons, claims, cache, scanner, collector, moves, aborts>>

ScanStep == UNCHANGED <<chain, claims, cache, collector, moves, aborts>>

\* The node shows the coin, and it is deep; another await precedes the write.
ScanLookup(l) ==
  /\ scanner.pc = "idle" /\ l \in farmers \ Untracked
  /\ ~plotnft[l].left /\ plotnft[l].deep
  /\ scanner' = [pc |-> "found", launcher |-> l, generation |-> plotnft[l].generation]
  /\ ScanStep /\ UNCHANGED <<farmers, singletons>>

ScanAdd ==
  /\ scanner.pc = "found"
  /\ singletons' = add_singleton(singletons, scanner.launcher, scanner.generation)
  /\ scanner' = IdleScanner
  /\ ScanStep /\ UNCHANGED farmers

\* No coin is found, and the farmer has no recent partial.
ScanPrune(l) ==
  /\ scanner.pc = "idle" /\ l \in farmers
  /\ plotnft[l].left \/ l \in Untracked
  /\ farmers' = farmers \ {l}
  /\ singletons' = delete_singleton(singletons, l)
  /\ ScanStep /\ UNCHANGED scanner

-----------------------------------------------------------------------------
(* collect_pool_rewards *)

CollectorStep(next) ==
  /\ collector' = next
  /\ UNCHANGED <<plotnft, reward, farmers, singletons, scanner, moves, aborts>>

Reading(next) == CollectorStep(next) /\ UNCHANGED <<txs, claims, cache>>

\* Fault: a claim that is still pending does not end the run.
CollectBegin_Anyway ==
  /\ collector.pc = "idle"
  /\ Reading([IdleCollector EXCEPT !.pc = "peak"])

\* While a claim is pending the run only asks for its status.
CollectBegin ==
  /\ collector.pc = "idle"
  /\ Reading([IdleCollector EXCEPT
       !.pc = IF is_pending_reward_claim(claims) THEN "status" ELSE "peak"])

\* Fault: the status is read the wrong way round.
Arrived_Inverted(t) == txs[t] = "pending"

Arrived(t) == txs[t] = "confirmed"

CollectStatus ==
  /\ collector.pc = "status"
  /\ \E t \in pending_claims(claims) :
       Reading(IF Arrived(t) THEN [IdleCollector EXCEPT !.pc = "confirm", !.spends = t]
                             ELSE IdleCollector)

CollectConfirm ==
  /\ collector.pc = "confirm"
  /\ claims' = confirm_claim_tx(claims, collector.spends)
  /\ CollectorStep(IdleCollector)
  /\ UNCHANGED <<txs, cache>>

\* peak_height is read first: what is deep is decided here.
CollectPeak ==
  /\ collector.pc = "peak"
  /\ Reading([collector EXCEPT !.pc = "list", !.buried = {r \in Rewards : reward[r] = "deep"}])

\* The cache takes on the farmers it lacks and drops those who are gone.
CollectList ==
  /\ collector.pc = "list"
  /\ cache' = farmers
  /\ CollectorStep([collector EXCEPT !.pc = "coins"])
  /\ UNCHANGED <<txs, claims>>

\* The unspent coins of all the cached farmers
CollectCoins ==
  /\ collector.pc = "coins"
  /\ LET records == {r \in Rewards : RewardOf[r] \in cache /\ reward[r] \in {"fresh", "deep"}}
     IN  Reading([collector EXCEPT !.pc = "farmer", !.records = records,
                                   !.todo = {RewardOf[r] : r \in records}])

\* get_latest_singleton, and the coin's own record and parent from the node
CollectSingleton(l) ==
  /\ collector.pc = "farmer" /\ l \in collector.todo \cap DOMAIN singletons
  /\ Reading([collector EXCEPT !.pc = "spend", !.todo = @ \ {l}, !.launcher = l,
                               !.generation = singletons[l]])

\* get_farmer, then at most one reward of his is added to the bundle.
CollectSpend ==
  /\ collector.pc = "spend" /\ collector.launcher \in farmers
  /\ LET l == collector.launcher
         all_rewards == {r \in (collector.records \cap collector.buried) \ Dust :
                           RewardOf[r] = l}
         next == [collector EXCEPT !.pc = "farmer", !.launcher = NoLauncher, !.generation = 0]
     IN  \/ all_rewards = {} /\ Reading(next)
         \/ \E r \in all_rewards :
              Reading([next EXCEPT !.spends = @ \cup
                {[launcher |-> l, generation |-> collector.generation, reward |-> r]}])

\* get_latest_singleton or get_farmer finds no row: the exception ends the run,
\* whoever else had a reward to forward.
CollectUnknown ==
  /\ \/ collector.pc = "farmer" /\ collector.todo \ DOMAIN singletons # {}
     \/ collector.pc = "spend" /\ collector.launcher \notin farmers
  /\ Reading(IdleCollector)

CollectNothing ==
  /\ collector.pc = "farmer" /\ collector.todo = {} /\ collector.spends = {}
  /\ Reading(IdleCollector)

Submitted(t) == IF t \in DOMAIN txs THEN txs ELSE Upsert(txs, t, "pending")

\* Fault: an empty bundle is submitted too.
CollectSubmit_Empty ==
  /\ collector.pc = "farmer" /\ collector.todo = {}
  /\ txs' = Submitted(collector.spends)
  /\ CollectorStep([collector EXCEPT !.pc = "record"])
  /\ UNCHANGED <<claims, cache>>

\* Fault: the bundle is submitted and no claim recorded.
CollectSubmit_Forget ==
  /\ collector.pc = "farmer" /\ collector.todo = {} /\ collector.spends # {}
  /\ txs' = Submitted(collector.spends)
  /\ CollectorStep(IdleCollector)
  /\ UNCHANGED <<claims, cache>>

\* submit_transaction: the wallet keeps the transaction, spendable or not.
CollectSubmit ==
  /\ collector.pc = "farmer" /\ collector.todo = {} /\ collector.spends # {}
  /\ txs' = Submitted(collector.spends)
  /\ CollectorStep([collector EXCEPT !.pc = "record"])
  /\ UNCHANGED <<claims, cache>>

CollectRecord ==
  /\ collector.pc = "record"
  /\ claims' = add_reward_claim(claims, collector.spends)
  /\ CollectorStep(IdleCollector)
  /\ UNCHANGED <<txs, cache>>

\* An exception at an await, or a restart (which forgets the cache)
CollectFails ==
  /\ aborts < MaxAborts /\ aborts' = aborts + 1
  /\ collector.pc # "idle"
  /\ collector' = IdleCollector
  /\ \/ UNCHANGED <<cache, scanner>>
     \/ cache' = {} /\ scanner' = IdleScanner
  /\ UNCHANGED <<chain, farmers, singletons, claims, moves>>

-----------------------------------------------------------------------------

CollectorNext ==
  \/ CollectBegin \/ CollectStatus \/ CollectConfirm
  \/ CollectPeak \/ CollectList \/ CollectCoins
  \/ \E l \in Launchers : CollectSingleton(l)
  \/ CollectSpend \/ CollectUnknown \/ CollectNothing
  \/ CollectSubmit \/ CollectRecord

Next ==
  \/ \E r \in Rewards : FarmReward(r)
  \/ Bury
  \/ \E t \in DOMAIN txs : Mine(t)
  \/ \E l \in Launchers : FarmerSpends(l) \/ Register(l) \/ ScanLookup(l) \/ ScanPrune(l)
  \/ ScanAdd
  \/ CollectorNext \/ CollectFails

Spec == Init /\ [][Next]_vars

\* Blocks are made and take in what is spendable; both loops run for ever, and
\* each scan reaches every farmer.  Farmers owe nothing.
FairSpec ==
  /\ Spec
  /\ WF_vars(Bury) /\ WF_vars(\E t \in DOMAIN txs : Mine(t))
  /\ WF_vars(CollectorNext) /\ WF_vars(ScanAdd)
  /\ \A l \in Launchers : SF_vars(ScanLookup(l))

-----------------------------------------------------------------------------
(* Properties *)

\* Rows, coins and transactions are of their kind, and no transaction is empty.
TypeOK ==
  /\ plotnft \in [Launchers -> [generation : Generations, deep : BOOLEAN, left : BOOLEAN]]
  /\ reward \in [Rewards -> {"none", "fresh", "deep", "spent"}]
  /\ \A t \in DOMAIN txs : t # {} /\ t \subseteq Spend /\ txs[t] \in {"pending", "confirmed"}
  /\ farmers \subseteq Launchers /\ cache \subseteq Launchers
  /\ DOMAIN singletons \subseteq Launchers
  /\ singletons \in [DOMAIN singletons -> Generations]
  /\ DOMAIN claims \subseteq DOMAIN txs
  /\ claims \in [DOMAIN claims -> [tx_confirmed : BOOLEAN, paid : BOOLEAN]]
  /\ collector.spends \subseteq Spend /\ collector.todo \subseteq Launchers

RewardsIn(t) == {s.reward : s \in t}

\* The money behind the claims.  What submit_payments may share out was
\* forwarded by the claim's own transaction, and no reward stands behind two
\* claims, though bundles are rebuilt after failures and the tables a bundle is
\* built from change under it (service.py:163-169, 240-246).
EveryRewardBehindOneClaim ==
  /\ \A t \in DOMAIN claims : claims[t].tx_confirmed => txs[t] = "confirmed"
  /\ \A t, u \in DOMAIN claims : t # u => RewardsIn(t) \cap RewardsIn(u) = {}

\* Whatever was forwarded can be shared out: its transaction is a claim, or
\* about to become one (service.py:240-246).  So it is until a run is cut short
\* between the two calls.
ForwardedIsClaimed ==
  aborts = 0 => \A t \in DOMAIN txs : txs[t] = "confirmed" =>
    t \in DOMAIN claims \/ (collector.pc = "record" /\ collector.spends = t)

Waiting(r) == r \notin Dust /\ reward[r] = "deep" /\ RewardOf[r] \in farmers

\* Rewards are forwarded (README.md:39, README.md:220): one that is deep, of a
\* registered farmer, is spent in the end, if no run is cut short and only the pool
\* spends plot NFTs.  It holds if no farmer has a second reward: the first one
\* leaves the singletons row stale, and what is built from it never confirms.
RewardsAreForwarded ==
  \A r \in Rewards : Waiting(r) ~> (reward[r] = "spent" \/ aborts > 0 \/ moves > 0)

=============================================================================
