--------------------------- MODULE RewardsProofs ---------------------------
(***************************************************************************)
(* Proofs about Rewards, for any farmers, rewards and failures.            *)
(***************************************************************************)
EXTENDS Rewards, FiniteSetTheorems, TLAPS

\* Every spend of a plot NFT coin is a move of its farmer or spends a reward, so
\* there are no more generations than that.
Spent == {r \in Rewards : reward[r] = "spent"}

GenerationInv ==
  \A l \in Launchers : plotnft[l].generation <= Cardinality(Spent) + moves

ScannerState == [pc : {"idle", "found"}, launcher : Launchers \cup {NoLauncher},
                 generation : Generations]

CollectorState ==
  [pc : {"idle", "status", "confirm", "peak", "list", "coins", "farmer", "spend", "record"},
   buried : SUBSET Rewards, records : SUBSET Rewards, todo : SUBSET Launchers,
   launcher : Launchers \cup {NoLauncher}, generation : Generations, spends : SUBSET Spend]

\* What the actors remember, and when the collector holds a bundle.
ActorsInv ==
  /\ scanner \in ScannerState /\ (scanner.pc = "found" => scanner.launcher \in Launchers)
  /\ collector \in CollectorState
  /\ collector.pc = "confirm" =>
       collector.spends \in DOMAIN claims /\ txs[collector.spends] = "confirmed"
  /\ collector.pc = "record" => collector.spends \in DOMAIN txs
  /\ moves \in 0 .. MaxMoves /\ aborts \in 0 .. MaxAborts

TypeInv == TypeOK /\ GenerationInv /\ ActorsInv

-----------------------------------------------------------------------------

LEMMA SpentIsFinite ==
  ASSUME NEW S, S \subseteq Rewards
  PROVE  IsFiniteSet(S) /\ Cardinality(S) \in Nat /\ Cardinality(S) <= Cardinality(Rewards)
<1>1. IsFiniteSet(Rewards)
  BY RewardsAssumption
<1>2. IsFiniteSet(S) /\ Cardinality(S) <= Cardinality(Rewards)
  BY <1>1, FS_Subset
<1> QED BY <1>2, FS_CardinalityType

\* More of them are spent: the count goes up.
LEMMA SpentGrows ==
  ASSUME NEW S, NEW T, S \subseteq T, T \subseteq Rewards
  PROVE  /\ Cardinality(S) <= Cardinality(T)
         /\ S # T => Cardinality(S) + 1 <= Cardinality(T)
<1>1. /\ IsFiniteSet(T) /\ Cardinality(S) \in Nat /\ Cardinality(T) \in Nat
      /\ Cardinality(S) <= Cardinality(T)
  BY SpentIsFinite, FS_Subset
<1>2. S # T => Cardinality(S) < Cardinality(T)
  BY <1>1, FS_Subset
<1> QED BY <1>1, <1>2

LEMMA GenerationsAreNumbers ==
  /\ Generations \subseteq Nat /\ 0 \in Generations
  /\ \A g \in Nat : g <= Cardinality(Rewards) + MaxMoves => g \in Generations
<1>1. Cardinality(Rewards) \in Nat /\ MaxMoves \in Nat
  BY RewardsAssumption, SpentIsFinite
<1> QED BY <1>1 DEF Generations

LEMMA IdleStates == IdleScanner \in ScannerState /\ IdleCollector \in CollectorState
BY GenerationsAreNumbers DEF IdleScanner, IdleCollector, ScannerState, CollectorState

LEMMA TypeInit == Init => TypeInv
<1> SUFFICES ASSUME Init PROVE TypeInv
  OBVIOUS
<1>1. TypeOK
  BY GenerationsAreNumbers DEF Init, TypeOK, IdleCollector
<1>2. GenerationInv
  <2>1. Cardinality(Spent) \in Nat
    BY SpentIsFinite DEF Spent
  <2> QED BY <2>1 DEF Init, GenerationInv
<1>3. ActorsInv
  BY IdleStates, RewardsAssumption DEF Init, ActorsInv, IdleScanner, IdleCollector
<1> QED BY <1>1, <1>2, <1>3 DEF TypeInv

\* Nothing that a step of the other actors does disturbs what is remembered.
LEMMA ActorsKept ==
  ASSUME ActorsInv, scanner' = scanner, collector' = collector,
         claims' = claims, moves' \in 0 .. MaxMoves, aborts' \in 0 .. MaxAborts,
         DOMAIN txs \subseteq DOMAIN txs',
         \A t \in DOMAIN txs : txs[t] = "confirmed" => txs'[t] = "confirmed",
         DOMAIN claims \subseteq DOMAIN txs
  PROVE  ActorsInv'
BY DEF ActorsInv

LEMMA ChainType ==
  ASSUME TypeInv,
         \/ \E r \in Rewards : FarmReward(r)
         \/ Bury
         \/ \E l \in Launchers : FarmerSpends(l)
  PROVE  TypeInv'
<1>1. /\ TypeOK /\ txs' = txs /\ claims' = claims /\ farmers' = farmers /\ cache' = cache
      /\ singletons' = singletons /\ scanner' = scanner /\ collector' = collector
      /\ aborts' = aborts /\ aborts \in 0 .. MaxAborts /\ moves \in 0 .. MaxMoves
  BY DEF TypeInv, ActorsInv, FarmReward, Bury, FarmerSpends, ChainStep
<1>2. /\ plotnft \in [Launchers -> [generation : Generations, deep : BOOLEAN, left : BOOLEAN]]
      /\ reward \in [Rewards -> {"none", "fresh", "deep", "spent"}]
      /\ Cardinality(Spent) \in Nat /\ Cardinality(Spent) <= Cardinality(Rewards)
      /\ Cardinality(Rewards) \in Nat /\ MaxMoves \in Nat
      /\ \A l \in Launchers : plotnft[l].generation <= Cardinality(Spent) + moves
  BY <1>1, SpentIsFinite, RewardsAssumption DEF TypeOK, TypeInv, GenerationInv, Spent
<1>3. Spent' = Spent
  BY <1>2 DEF Spent, FarmReward, Bury, FarmerSpends
<1>4. ASSUME Bury \/ \E r \in Rewards : FarmReward(r) PROVE TypeInv'
  <2>1. /\ moves' = moves
        /\ reward' \in [Rewards -> {"none", "fresh", "deep", "spent"}]
        /\ plotnft' \in [Launchers -> [generation : Generations, deep : BOOLEAN, left : BOOLEAN]]
        /\ \A l \in Launchers : plotnft'[l].generation = plotnft[l].generation
    <3>1. CASE plotnft' = plotnft
      BY <1>2, <1>4, <3>1 DEF FarmReward, Bury
    <3>2. ASSUME NEW l \in Launchers, Bury, reward' = reward,
                 plotnft' = [plotnft EXCEPT ![l].deep = TRUE]
          PROVE  /\ plotnft' \in [Launchers -> [generation : Generations, deep : BOOLEAN,
                                                left : BOOLEAN]]
                 /\ \A k \in Launchers : plotnft'[k].generation = plotnft[k].generation
      <4>1. [plotnft[l] EXCEPT !.deep = TRUE]
              \in [generation : Generations, deep : BOOLEAN, left : BOOLEAN]
        BY <1>2
      <4>2. [plotnft[l] EXCEPT !.deep = TRUE].generation = plotnft[l].generation
        BY <1>2
      <4> QED BY <1>2, <3>2, <4>1, <4>2
    <3>3. moves' = moves
      BY <1>4 DEF FarmReward, Bury
    <3> QED BY <1>2, <1>4, <3>1, <3>2, <3>3 DEF FarmReward, Bury
  <2>2. TypeOK'
    BY <1>1, <2>1 DEF TypeOK
  <2>3. GenerationInv'
    BY <1>2, <1>3, <2>1 DEF GenerationInv
  <2>4. ActorsInv'
    BY <1>1, <2>1, ActorsKept DEF TypeInv, TypeOK
  <2> QED BY <2>2, <2>3, <2>4 DEF TypeInv
<1>5. ASSUME NEW l \in Launchers, FarmerSpends(l) PROVE TypeInv'
  <2>1. /\ moves' = moves + 1 /\ moves' \in 0 .. MaxMoves /\ reward' = reward
        /\ \E left \in BOOLEAN :
             plotnft' = [plotnft EXCEPT ![l] = [generation |-> @.generation + 1,
                                                deep |-> FALSE, left |-> left]]
    <3>1. moves' = moves + 1 /\ moves < MaxMoves /\ moves \in Nat
      BY <1>1, <1>5 DEF FarmerSpends
    <3>2. moves' \in 0 .. MaxMoves
      BY <1>2, <3>1
    <3> QED BY <1>5, <3>1, <3>2 DEF FarmerSpends
  <2>2. plotnft[l].generation \in Nat /\ plotnft[l].generation + 1 \in Generations
    <3>1. plotnft[l].generation \in Nat
      BY <1>2, GenerationsAreNumbers
    <3>2. plotnft[l].generation <= Cardinality(Spent) + moves /\ moves + 1 <= MaxMoves
      BY <1>1, <1>2, <2>1
    <3>3. plotnft[l].generation + 1 <= Cardinality(Rewards) + MaxMoves
      BY <1>1, <1>2, <3>1, <3>2
    <3> QED BY <3>1, <3>3, GenerationsAreNumbers
  <2>3. plotnft' \in [Launchers -> [generation : Generations, deep : BOOLEAN, left : BOOLEAN]]
    BY <1>2, <2>1, <2>2
  <2>4. TypeOK'
    BY <1>1, <1>2, <2>1, <2>3 DEF TypeOK
  <2>5. GenerationInv'
    <3> SUFFICES ASSUME NEW k \in Launchers
                 PROVE  plotnft'[k].generation <= Cardinality(Spent) + (moves + 1)
      BY <1>3, <2>1 DEF GenerationInv
    <3>1. plotnft[k].generation \in Nat /\ plotnft[k].generation <= Cardinality(Spent) + moves
      BY <1>2, GenerationsAreNumbers
    <3>2. plotnft'[k].generation \in {plotnft[k].generation, plotnft[k].generation + 1}
      BY <1>2, <2>1
    <3> QED BY <1>1, <1>2, <3>1, <3>2
  <2>6. ActorsInv'
    BY <1>1, <2>1, ActorsKept DEF TypeInv, TypeOK
  <2> QED BY <2>4, <2>5, <2>6 DEF TypeInv
<1> QED BY <1>4, <1>5

\* A transaction that is mined spends a reward for each generation it makes.
LEMMA MineType ==
  ASSUME TypeInv, NEW t \in DOMAIN txs, Mine(t)
  PROVE  TypeInv'
<1>1. /\ TypeOK /\ claims' = claims /\ farmers' = farmers /\ cache' = cache
      /\ singletons' = singletons /\ scanner' = scanner /\ collector' = collector
      /\ aborts' = aborts /\ moves' = moves
      /\ aborts \in 0 .. MaxAborts /\ moves \in 0 .. MaxMoves /\ MaxMoves \in Nat
  BY RewardsAssumption DEF TypeInv, ActorsInv, Mine, ChainStep
<1>2. /\ plotnft \in [Launchers -> [generation : Generations, deep : BOOLEAN, left : BOOLEAN]]
      /\ reward \in [Rewards -> {"none", "fresh", "deep", "spent"}]
      /\ t # {} /\ t \subseteq Spend /\ Spendable(t)
      /\ \A l \in Launchers : plotnft[l].generation <= Cardinality(Spent) + moves
  BY <1>1 DEF TypeOK, Mine, TypeInv, GenerationInv
<1>3. /\ DOMAIN txs' = DOMAIN txs
      /\ \A u \in DOMAIN txs : txs'[u] = IF u = t THEN "confirmed" ELSE txs[u]
  BY DEF Mine
<1>4. reward' = [r \in Rewards |-> IF \E s \in t : s.reward = r THEN "spent" ELSE reward[r]]
  BY DEF Mine
<1>5. /\ Spent \subseteq Spent' /\ Spent' \subseteq Rewards /\ Spent # Spent'
      /\ reward' \in [Rewards -> {"none", "fresh", "deep", "spent"}]
  <2>1. PICK s \in t : TRUE
    BY <1>2
  <2>2. s.reward \in Rewards /\ reward[s.reward] # "spent"
    BY <1>2, <2>1 DEF Spend, Spendable
  <2>3. reward'[s.reward] = "spent"
    BY <1>4, <2>1, <2>2
  <2> QED BY <1>2, <1>4, <2>2, <2>3 DEF Spent
<1>6. /\ Cardinality(Spent) \in Nat /\ Cardinality(Spent') \in Nat /\ Cardinality(Rewards) \in Nat
      /\ Cardinality(Spent) + 1 <= Cardinality(Spent')
      /\ Cardinality(Spent') <= Cardinality(Rewards)
  BY <1>5, SpentGrows, SpentIsFinite
<1>7. ASSUME NEW l \in Launchers
      PROVE  /\ plotnft'[l] \in [generation : Generations, deep : BOOLEAN, left : BOOLEAN]
             /\ plotnft'[l].generation <= Cardinality(Spent') + moves
  <2>1. plotnft'[l] = IF \E s \in t : s.launcher = l
                        THEN [plotnft[l] EXCEPT !.generation = @ + 1, !.deep = FALSE]
                        ELSE plotnft[l]
    BY DEF Mine
  <2>2. plotnft[l].generation \in Nat
    BY <1>2, GenerationsAreNumbers
  <2>3. /\ plotnft[l].generation + 1 <= Cardinality(Spent') + moves
        /\ plotnft[l].generation <= Cardinality(Spent') + moves
        /\ plotnft[l].generation + 1 <= Cardinality(Rewards) + MaxMoves
    BY <1>1, <1>2, <1>6, <2>2
  <2>4. plotnft[l].generation + 1 \in Generations
    BY <2>2, <2>3, GenerationsAreNumbers
  <2> DEFINE next == [plotnft[l] EXCEPT !.generation = @ + 1, !.deep = FALSE]
  <2>5. next.generation = plotnft[l].generation + 1
    BY <1>2
  <2>6. next \in [generation : Generations, deep : BOOLEAN, left : BOOLEAN]
    BY <1>2, <2>4
  <2> HIDE DEF next
  <2>7. plotnft'[l] \in {next, plotnft[l]}
    BY <2>1 DEF next
  <2> QED BY <1>2, <2>3, <2>5, <2>6, <2>7
<1>8. plotnft' = [l \in Launchers |-> plotnft'[l]]
  BY DEF Mine
<1>9. TypeOK'
  <2>1. \A u \in DOMAIN txs' : u # {} /\ u \subseteq Spend /\ txs'[u] \in {"pending", "confirmed"}
    BY <1>1, <1>3 DEF TypeOK
  <2>2. plotnft' \in [Launchers -> [generation : Generations, deep : BOOLEAN, left : BOOLEAN]]
    BY <1>7, <1>8
  <2> QED BY <1>1, <1>3, <1>5, <2>1, <2>2 DEF TypeOK
<1>10. GenerationInv'
  BY <1>1, <1>7 DEF GenerationInv
<1>11. ActorsInv'
  BY <1>1, <1>3, ActorsKept DEF TypeInv, TypeOK
<1> QED BY <1>9, <1>10, <1>11 DEF TypeInv

\* Registration, the scan, and a run of the collector that is cut short
LEMMA ScanType ==
  ASSUME TypeInv,
         \/ \E l \in Launchers : Register(l) \/ ScanLookup(l) \/ ScanPrune(l)
         \/ ScanAdd \/ CollectFails
  PROVE  TypeInv'
<1>1. /\ TypeOK /\ chain' = chain /\ claims' = claims /\ moves' = moves
      /\ aborts' \in 0 .. MaxAborts
  BY RewardsAssumption DEF TypeInv, ActorsInv, Register, ScanLookup, ScanPrune, ScanAdd,
                           CollectFails, ScanStep
<1>2. plotnft' = plotnft /\ reward' = reward /\ txs' = txs
  BY <1>1 DEF chain
<1>3. GenerationInv'
  BY <1>1, <1>2 DEF TypeInv, GenerationInv, Spent
<1> DEFINE RowsKept ==
      /\ farmers' \subseteq Launchers /\ cache' \subseteq Launchers
      /\ scanner' \in ScannerState /\ (scanner'.pc = "found" => scanner'.launcher \in Launchers)
      /\ collector' = collector \/ collector' = IdleCollector
      /\ DOMAIN singletons' \subseteq Launchers
      /\ singletons' \in [DOMAIN singletons' -> Generations]
<1>4. RowsKept
  <2>1. ASSUME NEW l \in Launchers, ScanLookup(l) PROVE RowsKept
    <3>1. plotnft[l].generation \in Generations
      BY <1>1 DEF TypeOK
    <3> QED BY <1>1, <2>1, <3>1 DEF TypeOK, ScanLookup, ScanStep, ScannerState
  <2>2. ASSUME NEW l \in Launchers, Register(l) \/ ScanPrune(l) PROVE RowsKept
    BY <1>1, <2>2 DEF TypeInv, ActorsInv, TypeOK, Register, ScanPrune, ScanStep,
                      delete_singleton, Without
  <2>3. CASE ScanAdd
    BY <1>1, <2>3, IdleStates DEF TypeInv, ActorsInv, TypeOK, ScanAdd, ScanStep, ScannerState,
                                  add_singleton, Upsert, IdleScanner
  <2>4. CASE CollectFails
    BY <1>1, <2>4, IdleStates DEF TypeInv, ActorsInv, TypeOK, CollectFails, IdleScanner
  <2> QED BY <2>1, <2>2, <2>3, <2>4
<1>5. TypeOK'
  <2>1. collector'.spends \subseteq Spend /\ collector'.todo \subseteq Launchers
    BY <1>1, <1>4 DEF TypeOK, IdleCollector
  <2> QED BY <1>1, <1>2, <1>4, <2>1 DEF TypeOK
<1>6. ActorsInv'
  BY <1>1, <1>2, <1>4, IdleStates DEF TypeInv, ActorsInv, IdleCollector
<1> QED BY <1>3, <1>5, <1>6 DEF TypeInv

\* The collector
LEMMA CollectorType ==
  ASSUME TypeInv, CollectorNext
  PROVE  TypeInv'
<1>1. /\ TypeOK /\ collector \in CollectorState
      /\ plotnft' = plotnft /\ reward' = reward /\ farmers' = farmers
      /\ singletons' = singletons /\ scanner' = scanner /\ moves' = moves /\ aborts' = aborts
  BY DEF TypeInv, ActorsInv, CollectorNext, CollectorStep, Reading, CollectBegin, CollectStatus,
         CollectConfirm, CollectPeak, CollectList, CollectCoins, CollectSingleton, CollectSpend,
         CollectUnknown, CollectNothing, CollectSubmit, CollectRecord
<1>2. ASSUME cache' \subseteq Launchers,
             \A t \in DOMAIN txs' : /\ t # {} /\ t \subseteq Spend
                                    /\ txs'[t] \in {"pending", "confirmed"},
             DOMAIN txs \subseteq DOMAIN txs', \A t \in DOMAIN txs : txs'[t] = txs[t],
             DOMAIN claims \subseteq DOMAIN claims', DOMAIN claims' \subseteq DOMAIN txs',
             claims' \in [DOMAIN claims' -> [tx_confirmed : BOOLEAN, paid : BOOLEAN]],
             collector' \in CollectorState,
             collector'.pc = "confirm" =>
               collector'.spends \in DOMAIN claims' /\ txs'[collector'.spends] = "confirmed",
             collector'.pc = "record" => collector'.spends \in DOMAIN txs'
      PROVE  TypeInv'
  <2>1. TypeOK'
    BY <1>1, <1>2 DEF TypeOK, CollectorState
  <2>2. GenerationInv'
    BY <1>1 DEF TypeInv, GenerationInv, Spent
  <2>3. ActorsInv'
    BY <1>1, <1>2 DEF TypeInv, ActorsInv
  <2> QED BY <2>1, <2>2, <2>3 DEF TypeInv
<1>3. ASSUME NEW next \in CollectorState, Reading(next), next.pc \notin {"confirm", "record"}
      PROVE  TypeInv'
  BY <1>1, <1>2, <1>3 DEF Reading, CollectorStep, TypeOK
<1>4. IdleCollector \in CollectorState /\ IdleCollector.pc = "idle"
  BY IdleStates DEF IdleCollector
<1>5. CASE CollectBegin
  <2> DEFINE pc == IF is_pending_reward_claim(claims) THEN "status" ELSE "peak"
  <2>1. pc \in {"status", "peak"}
    OBVIOUS
  <2>2. Reading([IdleCollector EXCEPT !.pc = pc])
    BY <1>5 DEF CollectBegin
  <2> HIDE DEF pc
  <2>3. /\ [IdleCollector EXCEPT !.pc = pc] \in CollectorState
        /\ [IdleCollector EXCEPT !.pc = pc].pc = pc
    BY <1>4, <2>1 DEF CollectorState
  <2> QED BY <1>3, <2>1, <2>2, <2>3
<1>6. CASE CollectStatus
  <2>1. PICK t \in DOMAIN claims :
          Reading(IF Arrived(t) THEN [IdleCollector EXCEPT !.pc = "confirm", !.spends = t]
                                ELSE IdleCollector)
    BY <1>6 DEF CollectStatus, pending_claims
  <2>2. CASE Arrived(t)
    <3> DEFINE next == [IdleCollector EXCEPT !.pc = "confirm", !.spends = t]
    <3>1. t \in DOMAIN txs /\ t \subseteq Spend /\ txs[t] = "confirmed"
      BY <1>1, <2>2 DEF TypeOK, Arrived
    <3>2. next \in CollectorState /\ next.pc = "confirm" /\ next.spends = t
      BY <1>4, <3>1 DEF CollectorState
    <3>3. Reading(next)
      BY <2>1, <2>2
    <3> HIDE DEF next
    <3> QED BY <1>1, <1>2, <3>1, <3>2, <3>3 DEF Reading, CollectorStep, TypeOK
  <2>3. CASE ~Arrived(t)
    BY <1>3, <1>4, <2>1, <2>3
  <2> QED BY <2>2, <2>3
<1>7. CASE CollectConfirm
  <2> DEFINE t == collector.spends
  <2>1. /\ t \in DOMAIN claims /\ txs' = txs /\ cache' = cache /\ collector' = IdleCollector
        /\ claims' = [claims EXCEPT ![t].tx_confirmed = TRUE]
    BY <1>7 DEF TypeInv, ActorsInv, CollectConfirm, CollectorStep, confirm_claim_tx
  <2>2. [claims[t] EXCEPT !.tx_confirmed = TRUE] \in [tx_confirmed : BOOLEAN, paid : BOOLEAN]
    BY <1>1, <2>1 DEF TypeOK
  <2> HIDE DEF t
  <2>3. /\ DOMAIN claims' = DOMAIN claims
        /\ claims' \in [DOMAIN claims' -> [tx_confirmed : BOOLEAN, paid : BOOLEAN]]
    BY <1>1, <2>1, <2>2 DEF TypeOK
  <2> QED BY <1>1, <1>2, <1>4, <2>1, <2>3 DEF TypeOK
<1>8. CASE CollectPeak
  <2> DEFINE deep == {r \in Rewards : reward[r] = "deep"}
  <2>1. deep \in SUBSET Rewards
    OBVIOUS
  <2>2. Reading([collector EXCEPT !.pc = "list", !.buried = deep])
    BY <1>8 DEF CollectPeak
  <2> HIDE DEF deep
  <2>3. /\ [collector EXCEPT !.pc = "list", !.buried = deep] \in CollectorState
        /\ [collector EXCEPT !.pc = "list", !.buried = deep].pc = "list"
    BY <1>1, <2>1 DEF CollectorState
  <2> QED BY <1>3, <2>2, <2>3
<1>9. CASE CollectList
  <2>1. /\ [collector EXCEPT !.pc = "coins"] \in CollectorState
        /\ [collector EXCEPT !.pc = "coins"].pc = "coins"
    BY <1>1 DEF CollectorState
  <2> QED BY <1>1, <1>2, <1>9, <2>1 DEF CollectList, CollectorStep, TypeOK
<1>10. CASE CollectCoins
  <2> DEFINE records == {r \in Rewards : RewardOf[r] \in cache /\ reward[r] \in {"fresh", "deep"}}
             todo == {RewardOf[r] : r \in records}
  <2>1. records \subseteq Rewards /\ todo \subseteq Launchers
    BY RewardsAssumption
  <2>2. Reading([collector EXCEPT !.pc = "farmer", !.records = records, !.todo = todo])
    BY <1>10 DEF CollectCoins
  <2> HIDE DEF records, todo
  <2>3. /\ [collector EXCEPT !.pc = "farmer", !.records = records, !.todo = todo] \in CollectorState
        /\ [collector EXCEPT !.pc = "farmer", !.records = records, !.todo = todo].pc = "farmer"
    BY <1>1, <2>1 DEF CollectorState
  <2> QED BY <1>3, <2>2, <2>3
<1>11. ASSUME NEW l \in Launchers, CollectSingleton(l) PROVE TypeInv'
  <2> DEFINE next == [collector EXCEPT !.pc = "spend", !.todo = @ \ {l}, !.launcher = l,
                                       !.generation = singletons[l]]
  <2>1. singletons[l] \in Generations
    BY <1>1, <1>11 DEF TypeOK, CollectSingleton
  <2>2. next \in CollectorState /\ next.pc = "spend"
    BY <1>1, <2>1 DEF CollectorState
  <2> QED BY <1>3, <1>11, <2>2 DEF CollectSingleton
<1>12. CASE CollectSpend
  <2> DEFINE l == collector.launcher
             next == [collector EXCEPT !.pc = "farmer", !.launcher = NoLauncher,
                                       !.generation = 0]
  <2>1. next \in CollectorState /\ next.pc = "farmer"
    BY <1>1, GenerationsAreNumbers DEF CollectorState
  <2>2. ASSUME NEW r \in Rewards,
               Reading([next EXCEPT !.spends = @ \cup
                 {[launcher |-> l, generation |-> collector.generation, reward |-> r]}])
        PROVE  TypeInv'
    <3> DEFINE s == [launcher |-> l, generation |-> collector.generation, reward |-> r]
    <3>1. s \in Spend
      BY <1>1, <1>12 DEF CollectSpend, TypeOK, CollectorState, Spend
    <3>2. Reading([next EXCEPT !.spends = @ \cup {s}])
      BY <2>2
    <3> HIDE DEF next, s
    <3>3. /\ [next EXCEPT !.spends = @ \cup {s}] \in CollectorState
          /\ [next EXCEPT !.spends = @ \cup {s}].pc = "farmer"
      BY <2>1, <3>1 DEF CollectorState
    <3> QED BY <1>3, <3>2, <3>3
  <2>3. collector.records \subseteq Rewards
    BY <1>1 DEF CollectorState
  <2> QED BY <1>3, <1>12, <2>1, <2>2, <2>3 DEF CollectSpend
<1>13. CASE CollectUnknown \/ CollectNothing
  BY <1>3, <1>4, <1>13 DEF CollectUnknown, CollectNothing
<1>14. CASE CollectSubmit
  <2> DEFINE t == collector.spends
  <2>1. t # {} /\ t \subseteq Spend /\ txs' = Submitted(t) /\ claims' = claims /\ cache' = cache
        /\ collector' = [collector EXCEPT !.pc = "record"]
    BY <1>1, <1>14 DEF CollectSubmit, CollectorStep, TypeOK
  <2>2. /\ collector' \in CollectorState /\ collector'.pc = "record" /\ collector'.spends = t
    BY <1>1, <2>1 DEF CollectorState
  <2> HIDE DEF t
  <2>3. /\ DOMAIN txs' = DOMAIN txs \cup {t}
        /\ \A u \in DOMAIN txs : txs'[u] = txs[u]
        /\ txs'[t] \in {"pending", "confirmed"}
    BY <1>1, <2>1 DEF Submitted, Upsert, TypeOK
  <2> QED BY <1>1, <1>2, <2>1, <2>2, <2>3 DEF TypeOK
<1>15. CASE CollectRecord
  <2> DEFINE t == collector.spends
  <2>1. /\ t \in DOMAIN txs /\ txs' = txs /\ cache' = cache /\ collector' = IdleCollector
        /\ claims' = add_reward_claim(claims, t)
    BY <1>15 DEF TypeInv, ActorsInv, CollectRecord, CollectorStep
  <2> HIDE DEF t
  <2>2. /\ DOMAIN claims' = DOMAIN claims \cup {t}
        /\ claims' \in [DOMAIN claims' -> [tx_confirmed : BOOLEAN, paid : BOOLEAN]]
    BY <1>1, <2>1 DEF add_reward_claim, Upsert, TypeOK
  <2> QED BY <1>1, <1>2, <1>4, <2>1, <2>2 DEF TypeOK
<1> QED BY <1>5, <1>6, <1>7, <1>8, <1>9, <1>10, <1>11, <1>12, <1>13, <1>14, <1>15
        DEF CollectorNext

LEMMA NextType ==
  ASSUME TypeInv, [Next]_vars
  PROVE  TypeInv'
<1>1. CASE UNCHANGED vars
  BY <1>1 DEF vars, chain, TypeInv, TypeOK, GenerationInv, ActorsInv, Spent
<1> QED BY <1>1, ChainType, MineType, ScanType, CollectorType DEF Next

\* Rows, coins and transactions stay of their kind, and no plot NFT has more
\* generations than there are rewards to spend and moves to make
\* (service.py:163-246).
THEOREM TypeCorrect == Spec => []TypeOK
<1>1. TypeInv /\ [Next]_vars => TypeInv'
  BY NextType
<1>2. TypeInv => TypeOK
  BY DEF TypeInv
<1> QED BY TypeInit, <1>1, <1>2, PTL DEF Spec

-----------------------------------------------------------------------------

\* A run collects only when every claim has confirmed, which means that the
\* rewards of the claims are spent: none of them is among the unspent coins the
\* bundle is built from.
Listing  == {"peak", "list", "coins"}
Bundling == {"farmer", "spend", "record"}

ClaimsInv ==
  /\ \A t \in DOMAIN txs : txs[t] = "confirmed" => RewardsIn(t) \subseteq Spent
  /\ collector.pc \in Listing \cup Bundling => \A t \in DOMAIN claims : claims[t].tx_confirmed
  /\ collector.pc \in Listing => collector.spends = {}
  /\ collector.pc \in Bundling =>
       /\ RewardsIn(collector.spends) \subseteq collector.records
       /\ \A t \in DOMAIN claims : RewardsIn(t) \cap collector.records = {}
  /\ EveryRewardBehindOneClaim

\* Until a run is cut short, what the wallet holds is claimed, confirmed or not.
HandedIsClaimed ==
  aborts = 0 => \A t \in DOMAIN txs :
    t \in DOMAIN claims \/ (collector.pc = "record" /\ collector.spends = t)

MoneyInv == TypeInv /\ ClaimsInv /\ HandedIsClaimed

LEMMA MoneyInit == Init => MoneyInv
BY TypeInit DEF Init, MoneyInv, ClaimsInv, EveryRewardBehindOneClaim, HandedIsClaimed,
                IdleCollector, Listing, Bundling

\* What everybody but the collector does: transactions confirm, rewards are
\* spent, a run is cut short.
LEMMA OthersMoney ==
  ASSUME MoneyInv, claims' = claims, DOMAIN txs' = DOMAIN txs,
         \A t \in DOMAIN txs : txs'[t] = "confirmed" =>
           txs[t] = "confirmed" \/ RewardsIn(t) \subseteq Spent',
         \A t \in DOMAIN txs : txs[t] = "confirmed" => txs'[t] = "confirmed",
         Spent \subseteq Spent',
         \/ collector' = collector /\ aborts' = aborts
         \/ collector' = IdleCollector /\ aborts' # 0
  PROVE  ClaimsInv' /\ HandedIsClaimed'
<1>1. /\ ClaimsInv /\ HandedIsClaimed /\ EveryRewardBehindOneClaim
      /\ DOMAIN claims \subseteq DOMAIN txs
  BY DEF MoneyInv, ClaimsInv, TypeInv, TypeOK
<1>2. EveryRewardBehindOneClaim'
  BY <1>1 DEF EveryRewardBehindOneClaim
<1>3. \A t \in DOMAIN txs' : txs'[t] = "confirmed" => RewardsIn(t) \subseteq Spent'
  BY <1>1 DEF ClaimsInv
<1>4. CASE collector' = collector /\ aborts' = aborts
  <2>1. ClaimsInv'
    BY <1>1, <1>2, <1>3, <1>4 DEF ClaimsInv
  <2>2. HandedIsClaimed'
    BY <1>1, <1>4 DEF HandedIsClaimed
  <2> QED BY <2>1, <2>2
<1>5. CASE collector' = IdleCollector /\ aborts' # 0
  BY <1>2, <1>3, <1>5 DEF ClaimsInv, HandedIsClaimed, IdleCollector, Listing, Bundling
<1> QED BY <1>4, <1>5

LEMMA ChainMoney ==
  ASSUME MoneyInv,
         \/ \E r \in Rewards : FarmReward(r)
         \/ Bury
         \/ \E t \in DOMAIN txs : Mine(t)
         \/ \E l \in Launchers : FarmerSpends(l) \/ Register(l) \/ ScanLookup(l) \/ ScanPrune(l)
         \/ ScanAdd \/ CollectFails
  PROVE  ClaimsInv' /\ HandedIsClaimed'
<1>1. TypeOK /\ aborts \in Nat /\ claims' = claims
  <2>1. TypeOK /\ aborts \in 0 .. MaxAborts
    BY DEF MoneyInv, TypeInv, ActorsInv
  <2>2. claims' = claims
    BY DEF FarmReward, Bury, Mine, FarmerSpends, Register, ScanLookup, ScanPrune, ScanAdd,
           CollectFails, ChainStep, ScanStep
  <2> QED BY <2>1, <2>2
<1>2. reward \in [Rewards -> {"none", "fresh", "deep", "spent"}]
  BY <1>1 DEF TypeOK
<1>3. \/ collector' = collector /\ aborts' = aborts
      \/ collector' = IdleCollector /\ aborts' # 0
  <2>1. CASE CollectFails
    <3>1. collector' = IdleCollector /\ aborts' = aborts + 1
      BY <2>1 DEF CollectFails
    <3> QED BY <1>1, <3>1
  <2>2. CASE ~CollectFails
    BY <2>2 DEF FarmReward, Bury, Mine, FarmerSpends, Register, ScanLookup, ScanPrune, ScanAdd,
                ChainStep, ScanStep
  <2> QED BY <2>1, <2>2
<1>4. ASSUME txs' = txs, Spent \subseteq Spent' PROVE ClaimsInv' /\ HandedIsClaimed'
  BY <1>1, <1>3, <1>4, OthersMoney
<1>5. ASSUME NEW t \in DOMAIN txs, Mine(t) PROVE ClaimsInv' /\ HandedIsClaimed'
  <2>1. /\ DOMAIN txs' = DOMAIN txs
        /\ \A u \in DOMAIN txs : txs'[u] = IF u = t THEN "confirmed" ELSE txs[u]
        /\ reward' = [r \in Rewards |-> IF \E s \in t : s.reward = r THEN "spent" ELSE reward[r]]
    BY <1>5 DEF Mine
  <2>2. Spent \subseteq Spent'
    BY <2>1 DEF Spent
  <2>3. RewardsIn(t) \subseteq Spent'
    <3>1. t \subseteq Spend
      BY <1>1 DEF TypeOK
    <3> QED BY <2>1, <3>1 DEF Spent, RewardsIn, Spend
  <2> QED BY <1>1, <1>3, <2>1, <2>2, <2>3, OthersMoney
<1>6. ASSUME NEW r \in Rewards, FarmReward(r) PROVE ClaimsInv' /\ HandedIsClaimed'
  BY <1>2, <1>4, <1>6 DEF FarmReward, Spent
<1>7. CASE Bury
  BY <1>2, <1>4, <1>7 DEF Bury, Spent
<1>8. ASSUME reward' = reward, txs' = txs PROVE ClaimsInv' /\ HandedIsClaimed'
  BY <1>4, <1>8 DEF Spent
<1>9. ASSUME NEW l \in Launchers, FarmerSpends(l) \/ Register(l) \/ ScanLookup(l) \/ ScanPrune(l)
      PROVE  ClaimsInv' /\ HandedIsClaimed'
  BY <1>8, <1>9 DEF FarmerSpends, Register, ScanLookup, ScanPrune, ScanStep, chain
<1>10. CASE ScanAdd \/ CollectFails
  BY <1>8, <1>10 DEF ScanAdd, CollectFails, ScanStep, chain
<1> QED BY <1>5, <1>6, <1>7, <1>9, <1>10

LEMMA CollectorMoney ==
  ASSUME MoneyInv, CollectorNext
  PROVE  ClaimsInv' /\ HandedIsClaimed'
<1>1. /\ TypeOK /\ collector \in CollectorState /\ ClaimsInv /\ HandedIsClaimed
      /\ EveryRewardBehindOneClaim /\ DOMAIN claims \subseteq DOMAIN txs
      /\ reward' = reward /\ aborts' = aborts
  BY DEF MoneyInv, TypeInv, TypeOK, ActorsInv, ClaimsInv, CollectorNext, CollectorStep, Reading,
         CollectBegin, CollectStatus, CollectConfirm, CollectPeak, CollectList, CollectCoins,
         CollectSingleton, CollectSpend, CollectUnknown, CollectNothing, CollectSubmit,
         CollectRecord
<1>2. Spent' = Spent
  BY <1>1 DEF Spent
\* A step that writes neither the wallet nor the claims
<1>3. ASSUME txs' = txs, claims' = claims, collector.pc # "record",
             collector'.pc \in Listing \cup Bundling =>
               \A t \in DOMAIN claims : claims[t].tx_confirmed,
             collector'.pc \in Listing => collector'.spends = {},
             collector'.pc \in Bundling =>
               /\ RewardsIn(collector'.spends) \subseteq collector'.records
               /\ \A t \in DOMAIN claims : RewardsIn(t) \cap collector'.records = {}
      PROVE  ClaimsInv' /\ HandedIsClaimed'
  <2>1. EveryRewardBehindOneClaim'
    BY <1>1, <1>3 DEF EveryRewardBehindOneClaim
  <2>2. ClaimsInv'
    BY <1>1, <1>2, <1>3, <2>1 DEF ClaimsInv
  <2>3. HandedIsClaimed'
    BY <1>1, <1>3 DEF HandedIsClaimed
  <2> QED BY <2>2, <2>3
<1>4. ASSUME Reading(collector'), collector'.pc \notin Listing \cup Bundling,
             collector.pc # "record"
      PROVE  ClaimsInv' /\ HandedIsClaimed'
  BY <1>3, <1>4 DEF Reading
<1>5. CASE CollectBegin
  <2>1. /\ collector'.spends = {}
        /\ collector'.pc = IF is_pending_reward_claim(claims) THEN "status" ELSE "peak"
    BY <1>5 DEF CollectBegin, Reading, CollectorStep, IdleCollector
  <2>2. ~is_pending_reward_claim(claims) => \A t \in DOMAIN claims : claims[t].tx_confirmed
    BY DEF is_pending_reward_claim, pending_claims
  <2>3. collector.pc = "idle" /\ txs' = txs /\ claims' = claims
    BY <1>5 DEF CollectBegin, Reading
  <2> QED BY <1>3, <2>1, <2>2, <2>3 DEF Listing, Bundling
<1>6. CASE CollectStatus
  <2>1. collector'.pc \in {"confirm", "idle"}
    BY <1>6 DEF CollectStatus, Reading, CollectorStep, IdleCollector
  <2>2. collector.pc = "status" /\ txs' = txs /\ claims' = claims
    BY <1>6 DEF CollectStatus, Reading
  <2> QED BY <1>3, <2>1, <2>2 DEF Listing, Bundling
<1>7. CASE CollectConfirm
  <2>1. /\ collector.pc = "confirm" /\ txs' = txs /\ collector'.pc = "idle"
        /\ claims' = [claims EXCEPT ![collector.spends].tx_confirmed = TRUE]
        /\ collector.spends \in DOMAIN claims /\ txs[collector.spends] = "confirmed"
    BY <1>7 DEF CollectConfirm, CollectorStep, confirm_claim_tx, IdleCollector, MoneyInv,
                TypeInv, ActorsInv
  <2>2. EveryRewardBehindOneClaim'
    BY <1>1, <2>1 DEF EveryRewardBehindOneClaim
  <2>3. ClaimsInv'
    BY <1>1, <1>2, <2>1, <2>2 DEF ClaimsInv, Listing, Bundling
  <2>4. HandedIsClaimed'
    BY <1>1, <2>1 DEF HandedIsClaimed
  <2> QED BY <2>3, <2>4
<1>8. CASE CollectPeak
  <2>1. /\ collector.pc = "peak" /\ collector'.pc = "list" /\ collector'.spends = collector.spends
        /\ txs' = txs /\ claims' = claims
    BY <1>1, <1>8 DEF CollectPeak, Reading, CollectorStep, CollectorState
  <2> QED BY <1>1, <1>3, <2>1 DEF ClaimsInv, Listing, Bundling
<1>9. CASE CollectList
  <2>1. /\ collector.pc = "list" /\ collector'.pc = "coins"
        /\ collector'.spends = collector.spends /\ txs' = txs /\ claims' = claims
    BY <1>1, <1>9 DEF CollectList, CollectorStep, CollectorState
  <2> QED BY <1>1, <1>3, <2>1 DEF ClaimsInv, Listing, Bundling
<1>10. CASE CollectCoins
  <2>1. /\ collector.pc = "coins" /\ collector'.pc = "farmer"
        /\ collector'.spends = collector.spends /\ txs' = txs /\ claims' = claims
        /\ \A r \in collector'.records : reward[r] \in {"fresh", "deep"}
    BY <1>1, <1>10 DEF CollectCoins, Reading, CollectorStep, CollectorState
  <2>2. /\ collector.spends = {}
        /\ \A t \in DOMAIN claims : claims[t].tx_confirmed
    BY <1>1, <2>1 DEF ClaimsInv, Listing
  <2>3. \A t \in DOMAIN claims : RewardsIn(t) \subseteq Spent
    BY <1>1, <2>2 DEF ClaimsInv, EveryRewardBehindOneClaim
  <2> QED BY <1>3, <2>1, <2>2, <2>3 DEF Listing, Bundling, RewardsIn, Spent
<1>11. ASSUME NEW l \in Launchers, CollectSingleton(l) PROVE ClaimsInv' /\ HandedIsClaimed'
  <2>1. /\ collector.pc = "farmer" /\ collector'.pc = "spend"
        /\ collector'.spends = collector.spends /\ collector'.records = collector.records
        /\ txs' = txs /\ claims' = claims
    BY <1>1, <1>11 DEF CollectSingleton, Reading, CollectorStep, CollectorState
  <2> QED BY <1>1, <1>3, <2>1 DEF ClaimsInv, Listing, Bundling
<1>12. CASE CollectSpend
  <2>0. collector.pc = "spend" /\ txs' = txs /\ claims' = claims
    BY <1>12 DEF CollectSpend, Reading
  <2>1. /\ collector'.pc = "farmer" /\ collector'.records = collector.records
        /\ RewardsIn(collector'.spends) \subseteq RewardsIn(collector.spends) \cup collector.records
    <3> DEFINE next == [collector EXCEPT !.pc = "farmer", !.launcher = NoLauncher,
                                         !.generation = 0]
    <3>1. next \in CollectorState /\ next.pc = "farmer" /\ next.spends = collector.spends
          /\ next.records = collector.records
      BY <1>1, GenerationsAreNumbers DEF CollectorState
    <3>2. CASE Reading(next)
      BY <3>1, <3>2 DEF Reading, CollectorStep
    <3>3. ASSUME NEW r \in collector.records, NEW s, s.reward = r,
                 Reading([next EXCEPT !.spends = @ \cup {s}])
          PROVE  /\ collector'.pc = "farmer" /\ collector'.records = collector.records
                 /\ RewardsIn(collector'.spends)
                      \subseteq RewardsIn(collector.spends) \cup collector.records
      <4> HIDE DEF next
      <4>1. /\ collector'.pc = "farmer" /\ collector'.records = collector.records
            /\ collector'.spends = collector.spends \cup {s}
        BY <3>1, <3>3 DEF Reading, CollectorStep, CollectorState
      <4>2. RewardsIn(collector'.spends) \subseteq RewardsIn(collector.spends) \cup {r}
        BY <3>3, <4>1 DEF RewardsIn
      <4> QED BY <3>3, <4>1, <4>2
    <3> QED BY <1>12, <3>2, <3>3 DEF CollectSpend
  <2> QED BY <1>1, <1>3, <2>0, <2>1 DEF ClaimsInv, Listing, Bundling
<1>13. CASE CollectUnknown \/ CollectNothing
  <2>1. /\ collector.pc # "record" /\ collector'.pc = "idle" /\ txs' = txs /\ claims' = claims
    BY <1>13 DEF CollectUnknown, CollectNothing, Reading, CollectorStep, IdleCollector
  <2> QED BY <1>3, <2>1 DEF Listing, Bundling
<1>14. CASE CollectSubmit
  <2> DEFINE t == collector.spends
  <2>1. /\ collector.pc = "farmer" /\ collector'.pc = "record" /\ collector'.spends = t
        /\ collector'.records = collector.records /\ claims' = claims /\ txs' = Submitted(t)
    BY <1>1, <1>14 DEF CollectSubmit, CollectorStep, CollectorState
  <2>2. /\ DOMAIN txs' = DOMAIN txs \cup {t}
        /\ \A u \in DOMAIN txs : txs'[u] = txs[u]
        /\ t \notin DOMAIN txs => txs'[t] = "pending"
    BY <2>1 DEF Submitted, Upsert
  <2>3. EveryRewardBehindOneClaim'
    BY <1>1, <2>1, <2>2 DEF EveryRewardBehindOneClaim
  <2>4. ClaimsInv'
    BY <1>1, <1>2, <2>1, <2>2, <2>3 DEF ClaimsInv, Listing, Bundling
  <2>5. HandedIsClaimed'
    BY <1>1, <2>1, <2>2 DEF HandedIsClaimed
  <2> QED BY <2>4, <2>5
<1>15. CASE CollectRecord
  <2> DEFINE t == collector.spends
  <2>1. /\ collector.pc = "record" /\ collector'.pc = "idle" /\ txs' = txs
        /\ DOMAIN claims' = DOMAIN claims \cup {t}
        /\ \A u \in DOMAIN claims : u # t => claims'[u] = claims[u]
        /\ ~claims'[t].tx_confirmed
    BY <1>15 DEF CollectRecord, CollectorStep, add_reward_claim, Upsert, IdleCollector
  <2>2. \A u \in DOMAIN claims : RewardsIn(u) \cap RewardsIn(t) = {}
    BY <1>1, <2>1 DEF ClaimsInv, Bundling
  <2>3. EveryRewardBehindOneClaim'
    BY <1>1, <2>1, <2>2 DEF EveryRewardBehindOneClaim
  <2>4. ClaimsInv'
    BY <1>1, <1>2, <2>1, <2>3 DEF ClaimsInv, Listing, Bundling
  <2>5. HandedIsClaimed'
    BY <1>1, <2>1 DEF HandedIsClaimed
  <2> QED BY <2>4, <2>5
<1> QED BY <1>5, <1>6, <1>7, <1>8, <1>9, <1>10, <1>11, <1>12, <1>13, <1>14, <1>15
        DEF CollectorNext

LEMMA MoneyNext ==
  ASSUME MoneyInv, [Next]_vars
  PROVE  MoneyInv'
<1>1. TypeInv'
  BY NextType DEF MoneyInv
<1>2. CASE UNCHANGED vars
  BY <1>1, <1>2 DEF vars, chain, MoneyInv, ClaimsInv, HandedIsClaimed,
                    EveryRewardBehindOneClaim, Spent
<1> QED BY <1>1, <1>2, ChainMoney, CollectorMoney DEF MoneyInv, Next

\* No reward stands behind two claims, and what may be shared out was forwarded,
\* for any farmers, rewards, own spends of the farmers and runs cut short
\* (service.py:163-169, 240-246).
THEOREM RewardsClaimedOnce == Spec => []EveryRewardBehindOneClaim
<1>1. MoneyInv /\ [Next]_vars => MoneyInv'
  BY MoneyNext
<1>2. MoneyInv => EveryRewardBehindOneClaim
  BY DEF MoneyInv, ClaimsInv
<1> QED BY MoneyInit, <1>1, <1>2, PTL DEF Spec

\* As long as no run is cut short between submit_transaction and
\* add_reward_claim, whatever was forwarded is claimed (service.py:240-246).
THEOREM ForwardedAreClaimed == Spec => []ForwardedIsClaimed
<1>1. MoneyInv /\ [Next]_vars => MoneyInv'
  BY MoneyNext
<1>2. MoneyInv => ForwardedIsClaimed
  BY DEF MoneyInv, HandedIsClaimed, ForwardedIsClaimed
<1> QED BY MoneyInit, <1>1, <1>2, PTL DEF Spec

=============================================================================
