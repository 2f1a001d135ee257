-------------------------- MODULE DifficultyProofs --------------------------
(***************************************************************************)
(* Proofs about Difficulty, for any configuration, window and number of    *)
(* requests at a time.                                                     *)
(***************************************************************************)
EXTENDS Difficulty, StoreProofs, FiniteSetTheorems

(* Arithmetic *)

LEMMA ProductIsNat ==
  ASSUME NEW a \in Nat, NEW b \in Nat
  PROVE  a * b \in Nat
OBVIOUS

LEMMA ProductGrows ==
  ASSUME NEW a \in Nat, NEW b \in Nat, NEW c \in Nat, a <= b
  PROVE  a * c <= b * c
OBVIOUS

LEMMA QuotientIsNat ==
  ASSUME NEW a \in Nat, NEW b \in Nat \ {0}
  PROVE  a \div b \in Nat /\ (a \div b) * b <= a
OBVIOUS

\* A quotient above c needs a dividend of at least (c + 1) divisors.
LEMMA QuotientAbove ==
  ASSUME NEW a \in Nat, NEW b \in Nat \ {0}, NEW c \in Nat, a \div b > c
  PROVE  (c + 1) * b <= a
<1>1. a \div b \in Nat /\ (a \div b) * b <= a
  BY QuotientIsNat
<1>2. (c + 1) * b <= (a \div b) * b
  BY <1>1, ProductGrows
<1>3. (c + 1) * b \in Nat /\ (a \div b) * b \in Nat
  BY <1>1, ProductIsNat
<1> QED BY <1>1, <1>2, <1>3

-----------------------------------------------------------------------------
(* Windows *)

LEMMA WindowExtremes ==
  ASSUME NEW N \in Nat, NEW S, S \subseteq 0 .. N, S # {}
  PROVE  Max(S) \in S /\ Min(S) \in S /\ Min(S) <= Max(S)
<1>1. \E t \in S : \A u \in S : t >= u
  <2>1. PICK t \in S : \A u \in S : u <= t
    BY MaxExists
  <2> QED BY <2>1
<1>2. \E t \in S : \A u \in S : t <= u
  <2>1. S \subseteq Nat
    OBVIOUS
  <2> QED BY <2>1, LeastExists
<1>3. Max(S) \in S /\ \A u \in S : Max(S) >= u
  BY <1>1 DEF Max
<1>4. Min(S) \in S
  BY <1>2 DEF Min
<1> QED BY <1>3, <1>4

\* The rows that adjust_difficulty reads: confirmed ones, of times until now.
Window(rows, n) ==
  /\ rows \subseteq {p \in DOMAIN partials : partials[p].confirmed}
  /\ Cardinality(rows) \in Nat /\ Cardinality(rows) <= n
  /\ rows # {} <=> Cardinality(rows) # 0
  /\ Times(rows) \subseteq 0 .. MaxTime
  /\ rows # {} => Max(Times(rows)) \in 0 .. MaxTime /\ TimeTaken(rows) \in Nat

\* The part of TypeOK that the lemmas need
RowsTyped ==
  /\ DOMAIN partials \subseteq 1 .. stored /\ stored \in Nat
  /\ \A p \in DOMAIN partials : partials[p].timestamp \in 0 .. MaxTime

LEMMA RecentAreWindows ==
  ASSUME RowsTyped, NEW n \in Nat, NEW rows \in recent_partials(n)
  PROVE  Window(rows, n)
<1> DEFINE confirmed == {p \in DOMAIN partials : partials[p].confirmed}
<1>1. MaxTime \in Nat
  BY DifficultyAssumption
<1>2. IsFiniteSet(confirmed) /\ Cardinality(confirmed) \in Nat
  <2>1. IsFiniteSet(1 .. stored)
    BY FS_Interval DEF RowsTyped
  <2>2. confirmed \subseteq 1 .. stored
    BY DEF RowsTyped
  <2> HIDE DEF confirmed
  <2> QED BY <2>1, <2>2, FS_Subset, FS_CardinalityType
<1>3. /\ rows \subseteq confirmed
      /\ Cardinality(rows) = IF Cardinality(confirmed) < n THEN Cardinality(confirmed) ELSE n
  BY DEF recent_partials
<1>4. Cardinality(rows) \in Nat /\ Cardinality(rows) <= n
  BY <1>2, <1>3
<1>5. rows # {} <=> Cardinality(rows) # 0
  <2>1. IsFiniteSet(rows)
    BY <1>2, <1>3, FS_Subset
  <2> QED BY <2>1, FS_EmptySet
<1>6. Times(rows) \subseteq 0 .. MaxTime
  BY <1>3 DEF Times, RowsTyped
<1>7. ASSUME rows # {} PROVE Max(Times(rows)) \in 0 .. MaxTime /\ TimeTaken(rows) \in Nat
  <2>1. Times(rows) # {}
    BY <1>7 DEF Times
  <2>2. /\ Max(Times(rows)) \in Times(rows) /\ Min(Times(rows)) \in Times(rows)
        /\ Min(Times(rows)) <= Max(Times(rows))
    BY <1>1, <1>6, <2>1, WindowExtremes
  <2> QED BY <1>1, <1>6, <2>2 DEF TimeTaken
<1> QED BY <1>3, <1>4, <1>5, <1>6, <1>7 DEF Window

-----------------------------------------------------------------------------
(* What adjust_difficulty returns *)

LEMMA LargerIs ==
  ASSUME NEW a \in Int, NEW b \in Int
  PROVE  Larger(a, b) \in {a, b} /\ Larger(a, b) >= a /\ Larger(a, b) >= b
BY DEF Larger

\* In the stale cases the difficulty does not rise, but to the minimum.
LEMMA SlowIs ==
  ASSUME NEW rows, NEW current \in Uint64, NEW current_time \in Nat
  PROVE  /\ Slow(rows, current, current_time) \in Uint64
         /\ Slow(rows, current, current_time) >= min_difficulty
         /\ Slow(rows, current, current_time) > current =>
              Slow(rows, current, current_time) = min_difficulty
<1> DEFINE less == IF Silence(rows, current_time) > 3 * ONE_HOUR THEN current \div 5
                                                                ELSE (current * 2) \div 3
<1>1. current \in Nat /\ MaxUint64 \in Nat /\ current <= MaxUint64
      /\ min_difficulty \in Nat /\ min_difficulty <= MaxUint64
  BY DifficultyAssumption DEF Uint64
<1>2. less \in Nat /\ less <= current
  <2>1. current \div 5 \in Nat /\ current \div 5 <= current
    BY <1>1
  <2>2. (current * 2) \div 3 \in Nat /\ (current * 2) \div 3 <= current
    BY <1>1
  <2> QED BY <2>1, <2>2
<1>3. Slow(rows, current, current_time) = Larger(min_difficulty, less)
  BY DEF Slow
<1> HIDE DEF less
<1> QED BY <1>1, <1>2, <1>3, LargerIs DEF Uint64

\* In the regular case time_taken is not zero unless the code raises, and a rise
\* needs a full window of less than time_target.
LEMMA TargetIs ==
  ASSUME NEW rows, Window(rows, number_of_partials_target), Cardinality(rows) >= 2,
         NEW current \in Uint64, ~TooSoon(rows), TimeTaken(rows) # 0
  PROVE  /\ Target(rows, current) \in Nat
         /\ Target(rows, current) > current => Full(rows) /\ TimeTaken(rows) < time_target
<1> DEFINE taken == TimeTaken(rows)
           size  == Cardinality(rows)
           full  == number_of_partials_target
<1>1. /\ current \in Nat /\ time_target \in Nat \ {0} /\ full \in Nat \ {0}
      /\ taken \in Nat \ {0} /\ size \in Nat \ {0} /\ size <= full /\ rows # {}
  BY DifficultyAssumption DEF Uint64, Window
<1>2. current * time_target \in Nat
  BY <1>1, ProductIsNat
<1>3. CASE Full(rows)
  <2>1. Target(rows, current) = (current * time_target) \div taken
    BY <1>1, <1>2, <1>3 DEF Target, Stretched
  <2>2. Target(rows, current) \in Nat
    BY <1>1, <1>2, <2>1, QuotientIsNat
  <2>3. ASSUME Target(rows, current) > current, taken >= time_target PROVE FALSE
    <3>1. (current + 1) * taken <= current * time_target
      BY <1>1, <1>2, <2>1, <2>3, QuotientAbove
    <3>2. time_target * (current + 1) <= taken * (current + 1)
      BY <1>1, <2>3, ProductGrows
    <3>3. time_target * (current + 1) = current * time_target + time_target
      BY <1>1
    <3>4. taken * (current + 1) = (current + 1) * taken
      BY <1>1
    <3>5. (current + 1) * taken \in Nat
      BY <1>1, ProductIsNat
    <3> QED BY <1>1, <1>2, <3>1, <3>2, <3>3, <3>4, <3>5
  <2> QED BY <1>1, <1>3, <2>2, <2>3
<1>4. CASE ~Full(rows)
  <2>1. Target(rows, current) = (current * time_target * size) \div (taken * full)
    BY <1>4 DEF Target, Stretched
  <2>2. current * time_target * size \in Nat /\ taken * full \in Nat \ {0}
    <3>1. (current * time_target) * size \in Nat
      BY <1>1, <1>2, ProductIsNat
    <3>2. taken * full \in Nat /\ taken * full # 0
      BY <1>1
    <3> QED BY <3>1, <3>2
  <2>3. Target(rows, current) \in Nat
    BY <2>1, <2>2, QuotientIsNat
  <2>4. ASSUME Target(rows, current) > current PROVE FALSE
    <3>1. (current + 1) * (taken * full) <= current * time_target * size
      BY <1>1, <2>1, <2>2, <2>4, QuotientAbove
    <3>2. time_target <= taken
      BY <1>1, <1>4 DEF TooSoon
    <3>3. time_target * size <= taken * full
      <4>1. time_target * size <= taken * size
        BY <1>1, <3>2, ProductGrows
      <4>2. size * taken <= full * taken
        BY <1>1, ProductGrows
      <4>3. taken * size = size * taken /\ taken * full = full * taken
        BY <1>1
      <4>4. time_target * size \in Nat /\ taken * size \in Nat /\ taken * full \in Nat
        BY <1>1, ProductIsNat
      <4> QED BY <4>1, <4>2, <4>3, <4>4
    <3>4. (time_target * size) * (current + 1) <= (taken * full) * (current + 1)
      <4>1. time_target * size \in Nat
        BY <1>1, ProductIsNat
      <4> QED BY <1>1, <2>2, <3>3, <4>1, ProductGrows
    <3>5. (taken * full) * (current + 1) = (current + 1) * (taken * full)
      BY <1>1
    <3>6. (time_target * size) * (current + 1) = current * time_target * size + time_target * size
      BY <1>1
    <3>7. time_target * size \in Nat \ {0}
      BY <1>1
    <3>8. (current + 1) * (taken * full) \in Nat
      BY <1>1, <2>2, ProductIsNat
    <3> QED BY <2>2, <3>1, <3>4, <3>5, <3>6, <3>7, <3>8
  <2> QED BY <2>3, <2>4
<1> QED BY <1>3, <1>4

LEMMA AdjustIs ==
  ASSUME NEW rows, Window(rows, number_of_partials_target),
         NEW current \in Uint64, NEW current_time \in 0 .. MaxTime,
         ~Raises(rows, current, current_time),
         NEW new, new = adjust_difficulty(rows, current, current_time)
  PROVE  /\ new \in Uint64
         /\ new = current \/ new >= min_difficulty
         /\ new > current => \/ new = min_difficulty
                             \/ Full(rows) /\ TimeTaken(rows) < time_target
<1>1. /\ current \in Nat /\ min_difficulty \in Uint64 /\ MaxUint64 \in Nat /\ ONE_HOUR \in Nat
      /\ current_time \in Nat
  BY DifficultyAssumption DEF Uint64
<1>2. CASE new = current
  BY <1>1, <1>2
<1>3. CASE new = Slow(rows, current, current_time)
  BY <1>1, <1>3, SlowIs
<1>4. CASE /\ Settled(rows, current) /\ ~(Silence(rows, current_time) > ONE_HOUR)
           /\ ~TooSoon(rows) /\ new = Larger(min_difficulty, Target(rows, current))
  <2>1. Cardinality(rows) >= 2 /\ Cardinality(rows) \in Nat /\ rows # {}
    BY <1>4 DEF Settled, Window
  <2>2. Silence(rows, current_time) \in Int
    BY <1>1, <2>1 DEF Silence, Window
  <2>3. Regular(rows, current_time)
    BY <1>1, <1>4, <2>2 DEF Regular
  <2>4. TimeTaken(rows) # 0 /\ ~(Target(rows, current) > MaxUint64)
    BY <1>4, <2>3 DEF Raises
  <2>5. /\ Target(rows, current) \in Nat
        /\ Target(rows, current) > current => Full(rows) /\ TimeTaken(rows) < time_target
    BY <1>4, <2>1, <2>4, TargetIs
  <2>6. /\ new \in {min_difficulty, Target(rows, current)} /\ new >= min_difficulty
    BY <1>1, <1>4, <2>5, LargerIs DEF Uint64
  <2> QED BY <1>1, <2>4, <2>5, <2>6 DEF Uint64
<1> QED BY <1>2, <1>3, <1>4 DEF adjust_difficulty

-----------------------------------------------------------------------------
(* The invariant *)

\* The minimum is minded by a pool whose default is not below it (no check of
\* the configuration says so: service/config.py:43-44) until the farmer makes a
\* suggestion.
Minded == ~suggested /\ default_difficulty >= min_difficulty

Tables ==
  /\ now \in 0 .. MaxTime /\ difficulty \in Uint64
  /\ DOMAIN partials \subseteq 1 .. stored
  /\ partials \in [DOMAIN partials -> [timestamp : 0 .. MaxTime, difficulty : Uint64,
                                       confirmed : BOOLEAN]]
  /\ stored \in 0 .. MaxPartials
  /\ settings \in 0 .. MaxSettings
  /\ used \subseteq 1 .. stored /\ suggested \in BOOLEAN /\ disturbed \in BOOLEAN
  /\ Minded => difficulty >= min_difficulty

\* What is about to be written was computed from rows that are still there, and
\* is not below the minimum unless the farmer has asked for that.
Computed(r) ==
  /\ request[r] \in RequestState
  /\ Writing(r) =>
       LET q == request[r] IN
       /\ q.evidence \subseteq {p \in DOMAIN partials : partials[p].confirmed}
       /\ q.new > q.current =>
            \/ q.new = min_difficulty
            \/ Full(q.evidence) /\ TimeTaken(q.evidence) < time_target
  /\ Minded =>
       /\ request[r].pc \in {"check", "adjust"} => request[r].current >= min_difficulty
       /\ Writing(r) => request[r].new >= min_difficulty

AdjustInv ==
  /\ Tables
  /\ request = [r \in Requests |-> request[r]] /\ \A r \in Requests : Computed(r)

LEMMA AdjustInit ==
  ASSUME Init
  PROVE  AdjustInv
<1>1. Tables
  <2>1. /\ now \in 0 .. MaxTime /\ stored \in 0 .. MaxPartials /\ used \subseteq 1 .. stored
        /\ settings \in 0 .. MaxSettings
        /\ difficulty \in Uint64 /\ (Minded => difficulty >= min_difficulty)
    BY DifficultyAssumption DEF Init, Uint64, Minded
  <2>2. /\ DOMAIN partials = {} /\ partials = [p \in DOMAIN partials |-> 0]
        /\ suggested = FALSE /\ disturbed = FALSE
    BY DEF Init
  <2>3. partials \in [DOMAIN partials -> [timestamp : 0 .. MaxTime, difficulty : Uint64,
                                          confirmed : BOOLEAN]]
    BY <2>2
  <2> QED BY <2>1, <2>2, <2>3 DEF Tables
<1>2. request = [r \in Requests |-> request[r]] /\ \A r \in Requests : Computed(r)
  BY DEF Init, Computed, RequestState, Idle, Writing
<1> QED BY <1>1, <1>2 DEF AdjustInv

LEMMA StepKeeps ==
  ASSUME AdjustInv, Tables', Minded' => Minded,
         \A p \in DOMAIN partials : partials[p].confirmed =>
           /\ p \in DOMAIN partials' /\ partials'[p].confirmed
           /\ partials'[p].timestamp = partials[p].timestamp,
         request' = [r \in Requests |-> request'[r]],
         \A r \in Requests : request'[r] = request[r] \/ Computed(r)'
  PROVE  AdjustInv'
<1> SUFFICES ASSUME NEW r \in Requests, request'[r] = request[r] PROVE Computed(r)'
  BY DEF AdjustInv
<1>1. Computed(r)
  BY DEF AdjustInv
<1>2. CASE ~Writing(r)
  <2>1. request[r] \in {Idle} \cup [pc : {"check", "adjust"}, current : Uint64,
                                    current_time : 0 .. MaxTime]
    BY <1>1, <1>2 DEF Computed, RequestState, Writing
  <2> QED BY <1>1, <1>2, <2>1 DEF Computed, RequestState, Writing
<1>3. CASE Writing(r)
  <2> DEFINE q == request[r]
  <2>1. /\ q.evidence \subseteq {p \in DOMAIN partials : partials[p].confirmed}
        /\ q \in [pc : {"write"}, current : Uint64, evidence : SUBSET DOMAIN partials, new : Uint64]
    BY <1>1, <1>3 DEF Computed, RequestState, Writing, Idle
  <2>2. q.evidence \subseteq {p \in DOMAIN partials' : partials'[p].confirmed}
    BY <2>1
  <2>3. q \in [pc : {"write"}, current : Uint64, evidence : SUBSET DOMAIN partials', new : Uint64]
    BY <2>1, <2>2
  <2>4. ASSUME q.new > q.current
        PROVE  q.new = min_difficulty \/ (Full(q.evidence) /\ TimeTaken(q.evidence) < time_target)'
    <3>1. q.new = min_difficulty \/ (Full(q.evidence) /\ TimeTaken(q.evidence) < time_target)
      BY <1>1, <1>3, <2>4 DEF Computed
    <3>2. request'[r].evidence = q.evidence
      OBVIOUS
    <3>3. Full(q.evidence)' <=> Full(q.evidence)
      BY <3>2 DEF Full
    <3>4. TimeTaken(q.evidence)' = TimeTaken(q.evidence)
      <4>1. Times(q.evidence)' = Times(q.evidence)
        BY <2>1, <3>2 DEF Times
      <4> QED BY <4>1 DEF TimeTaken
    <3> QED BY <3>1, <3>3, <3>4
  <2>5. request'[r] \in RequestState'
    BY <2>3 DEF RequestState
  <2>6. Minded' => (request[r].new >= min_difficulty)'
    BY <1>1, <1>3 DEF Computed
  <2>7. Writing(r)' /\ request'[r].pc = "write"
    BY <1>3 DEF Writing
  <2>8. (request[r].evidence \subseteq {p \in DOMAIN partials : partials[p].confirmed})'
    BY <2>2
  <2>9. (request[r].new > request[r].current =>
            \/ request[r].new = min_difficulty
            \/ Full(request[r].evidence) /\ TimeTaken(request[r].evidence) < time_target)'
    BY <2>4
  <2> QED BY <2>5, <2>6, <2>7, <2>8, <2>9 DEF Computed
<1> QED BY <1>2, <1>3

\* The clock, the farmer's PUT and POST, and the confirmer
LEMMA OthersKeep ==
  ASSUME AdjustInv, Tick \/ Suggest \/ Register \/ Confirm
  PROVE  AdjustInv'
<1>1. Tables /\ request' = request /\ request = [r \in Requests |-> request[r]]
  BY DEF AdjustInv, Tick, Suggest, Register, SetDifficulty, Confirm
<1>2. CASE Tick
  <2>1. Tables'
    BY <1>1, <1>2, DifficultyAssumption DEF Tick, Tables, Minded
  <2> QED BY <1>1, <1>2, <2>1, StepKeeps DEF Tick, Minded
<1>3. ASSUME NEW d \in Uint64, SetDifficulty(d)
      PROVE  settings' \in 0 .. MaxSettings /\ difficulty' \in Uint64
  BY <1>1, <1>3, DifficultyAssumption DEF SetDifficulty, Tables
<1>5. CASE Suggest
  <2>1. PICK d \in Suggestions : SetDifficulty(d)
    BY <1>5 DEF Suggest
  <2>2. d \in Uint64 /\ suggested' = TRUE
    BY <1>5, DifficultyAssumption DEF Suggest, Uint64
  <2>3. Tables'
    BY <1>1, <1>3, <2>1, <2>2 DEF SetDifficulty, Tables, Minded
  <2> QED BY <1>1, <2>1, <2>2, <2>3, StepKeeps DEF SetDifficulty, Minded
<1>6. CASE Register
  <2>1. default_difficulty \in Uint64
    BY DifficultyAssumption DEF Uint64
  <2>2. SetDifficulty(default_difficulty) /\ suggested' = suggested
    BY <1>6 DEF Register
  <2>3. min_difficulty \in Nat /\ default_difficulty \in Nat /\ difficulty' = default_difficulty
    BY <2>2, DifficultyAssumption DEF SetDifficulty
  <2>4. Tables'
    BY <1>1, <1>3, <2>1, <2>2, <2>3 DEF SetDifficulty, Tables, Minded
  <2> QED BY <1>1, <2>2, <2>4, StepKeeps DEF SetDifficulty, Minded
<1>4. CASE Confirm
  <2>1. PICK gone \in SUBSET {p \in DOMAIN partials : Old(p)} :
          partials' = [p \in DOMAIN partials \ gone |->
                         IF Old(p) THEN [partials[p] EXCEPT !.confirmed = TRUE] ELSE partials[p]]
    BY <1>4 DEF Confirm
  <2>2. \A p \in DOMAIN partials :
          [partials[p] EXCEPT !.confirmed = TRUE]
            \in [timestamp : 0 .. MaxTime, difficulty : Uint64, confirmed : BOOLEAN]
    BY <1>1 DEF Tables
  <2>3. /\ DOMAIN partials' \subseteq DOMAIN partials
        /\ partials' \in [DOMAIN partials' -> [timestamp : 0 .. MaxTime, difficulty : Uint64,
                                               confirmed : BOOLEAN]]
    BY <1>1, <2>1, <2>2 DEF Tables
  <2>4. Tables'
    BY <1>1, <1>4, <2>3 DEF Confirm, Tables, Minded
  <2>5. \A p \in DOMAIN partials : partials[p].confirmed =>
           /\ p \in DOMAIN partials' /\ partials'[p].confirmed
           /\ partials'[p].timestamp = partials[p].timestamp
    BY <2>1 DEF Old
  <2> QED BY <1>1, <1>4, <2>4, <2>5, StepKeeps DEF Confirm, Minded
<1> QED BY <1>2, <1>4, <1>5, <1>6

LEMMA RequestsKeep ==
  ASSUME AdjustInv, NEW r \in Requests,
         \/ Read(r) \/ Reject(r) \/ StorePartial(r) \/ Adjust(r) \/ AdjustRaises(r) \/ WriteBack(r)
  PROVE  AdjustInv'
<1>0. disturbed' \in BOOLEAN
  <2>1. disturbed \in BOOLEAN
    BY DEF AdjustInv, Tables
  <2>2. CASE WriteBack(r)
    BY <2>2, Zenon DEF WriteBack
  <2>3. CASE ~WriteBack(r)
    <3>1. disturbed' = disturbed
      BY <2>3 DEF Read, Reject, StorePartial, Adjust, AdjustRaises
    <3> QED BY <2>1, <3>1
  <2> QED BY <2>2, <2>3
<1>1. /\ Tables /\ now' = now /\ settings' = settings /\ suggested' = suggested
      /\ (Minded' <=> Minded)
      /\ disturbed' \in BOOLEAN
      /\ request = [s \in Requests |-> request[s]]
      /\ \E next : request' = [request EXCEPT ![r] = next]
      /\ \A s \in Requests : Computed(s)
  <2>1. /\ now' = now /\ settings' = settings /\ suggested' = suggested
        /\ \E next : request' = [request EXCEPT ![r] = next]
    BY DEF Read, Reject, StorePartial, Adjust, AdjustRaises, WriteBack, RequestStep
  <2> QED BY <1>0, <2>1 DEF AdjustInv, Minded
<1>2. /\ request' = [s \in Requests |-> request'[s]]
      /\ \A s \in Requests : s # r => request'[s] = request[s]
  BY <1>1
<1>3. ASSUME Tables', partials' = partials, Computed(r)' PROVE AdjustInv'
  BY <1>1, <1>2, <1>3, StepKeeps
<1>4. ASSUME Tables', partials' = partials, request'[r] = Idle PROVE AdjustInv'
  <2>1. Computed(r)'
    BY <1>4 DEF Computed, RequestState, Writing, Idle
  <2> QED BY <1>3, <1>4, <2>1
<1>5. CASE Read(r)
  <2>1. /\ request'[r] = [pc |-> "check", current |-> difficulty, current_time |-> now]
        /\ partials' = partials /\ difficulty' = difficulty /\ stored' = stored
        /\ used' = used
    BY <1>1, <1>5 DEF Read, RequestStep
  <2>2. Tables'
    BY <1>1, <2>1 DEF Tables
  <2>3. Computed(r)'
    BY <1>1, <2>1 DEF Computed, RequestState, Writing, Tables
  <2> QED BY <1>3, <2>1, <2>2, <2>3
<1>6. CASE Reject(r) \/ AdjustRaises(r)
  <2>1. request'[r] = Idle /\ partials' = partials /\ Tables'
    BY <1>1, <1>6 DEF Reject, AdjustRaises, RequestStep, Tables
  <2> QED BY <1>4, <2>1
<1>7. CASE StorePartial(r)
  <2> DEFINE row == [timestamp |-> request[r].current_time, difficulty |-> request[r].current,
                     confirmed |-> FALSE]
  <2>1. /\ request[r].pc = "check" /\ request[r].current \in Uint64
        /\ request[r].current_time \in 0 .. MaxTime
        /\ request[r] = [pc |-> "check", current |-> request[r].current,
                         current_time |-> request[r].current_time]
    BY <1>1, <1>7 DEF StorePartial, Computed, RequestState, Idle
  <2>2. /\ request'[r] = [request[r] EXCEPT !.pc = "adjust", !.current_time = now]
        /\ stored' = stored + 1 /\ stored < MaxPartials /\ partials' = Upsert(partials, stored', row)
        /\ difficulty' = difficulty /\ used' = used
    BY <1>1, <1>7 DEF StorePartial, RequestStep
  <2>3. /\ request'[r].pc = "adjust" /\ request'[r].current = request[r].current
        /\ request'[r] \in [pc : {"check", "adjust"}, current : Uint64, current_time : 0 .. MaxTime]
    BY <1>1, <2>1, <2>2 DEF Tables
  <2>4. Computed(r)'
    BY <1>1, <2>1, <2>3 DEF Computed, RequestState, Writing
  <2>5. stored \in Nat /\ MaxPartials \in Nat /\ stored' \in 0 .. MaxPartials
        /\ stored' \notin DOMAIN partials
    BY <1>1, <2>2, DifficultyAssumption DEF Tables
  <2>6. row \in [timestamp : 0 .. MaxTime, difficulty : Uint64, confirmed : BOOLEAN]
    BY <2>1
  <2> HIDE DEF row
  <2>7. /\ DOMAIN partials' = DOMAIN partials \cup {stored'}
        /\ \A p \in DOMAIN partials' : partials'[p] = IF p = stored' THEN row ELSE partials[p]
        /\ partials' = [p \in DOMAIN partials' |-> partials'[p]]
    BY <2>2 DEF Upsert
  <2>8. Tables'
    <3>1. DOMAIN partials' \subseteq 1 .. stored'
      BY <1>1, <2>2, <2>5, <2>7 DEF Tables
    <3>2. partials' \in [DOMAIN partials' -> [timestamp : 0 .. MaxTime, difficulty : Uint64,
                                              confirmed : BOOLEAN]]
      BY <1>1, <2>6, <2>7 DEF Tables
    <3> QED BY <1>1, <2>2, <2>5, <3>1, <3>2 DEF Tables
  <2>9. \A p \in DOMAIN partials : p \in DOMAIN partials' /\ partials'[p] = partials[p]
    BY <2>5, <2>7
  <2> QED BY <1>1, <1>2, <2>4, <2>8, <2>9, StepKeeps
<1>8. CASE Adjust(r)
  <2> DEFINE q == request[r]
  <2>1. /\ q.pc = "adjust" /\ q.current \in Uint64 /\ q.current_time \in 0 .. MaxTime
        /\ Minded => q.current >= min_difficulty
    BY <1>1, <1>8 DEF Adjust, Computed, RequestState, Idle
  <2>2. PICK rows \in recent_partials(number_of_partials_target) :
          /\ ~Raises(rows, q.current, q.current_time)
          /\ request'[r] = [pc |-> "write", current |-> q.current, evidence |-> rows,
                            new |-> adjust_difficulty(rows, q.current, q.current_time)]
    BY <1>1, <1>8 DEF Adjust, RequestStep
  <2>3. Window(rows, number_of_partials_target)
    BY <1>1, RecentAreWindows, DifficultyAssumption DEF RowsTyped, Tables
  <2> DEFINE new == adjust_difficulty(rows, q.current, q.current_time)
  <2>4. /\ new \in Uint64 /\ (new = q.current \/ new >= min_difficulty)
        /\ new > q.current => \/ new = min_difficulty
                              \/ Full(rows) /\ TimeTaken(rows) < time_target
    BY <2>1, <2>2, <2>3, AdjustIs
  <2>5. partials' = partials /\ Tables'
    BY <1>1, <1>8 DEF Adjust, Tables
  <2>6. /\ request'[r].pc = "write" /\ request'[r].current = q.current
        /\ request'[r].evidence = rows /\ request'[r].new = new
    BY <2>2
  <2>7. rows \subseteq {p \in DOMAIN partials : partials[p].confirmed}
    BY <2>3 DEF Window
  <2>8. request'[r] \in [pc : {"write"}, current : Uint64, evidence : SUBSET DOMAIN partials',
                         new : Uint64]
    <3> HIDE DEF new
    <3>1. request'[r] = [pc |-> "write", current |-> q.current, evidence |-> rows, new |-> new]
      BY <2>2 DEF new
    <3> QED BY <2>1, <2>4, <2>5, <2>7, <3>1
  <2>9. TimeTaken(rows)' = TimeTaken(rows)
    BY <2>5 DEF TimeTaken, Times
  <2>10. Computed(r)'
    <3>1. (request[r] \in RequestState)'
      BY <2>8 DEF RequestState
    <3>2. (request[r].evidence \subseteq {p \in DOMAIN partials : partials[p].confirmed})'
      BY <2>5, <2>6, <2>7
    <3>3. (request[r].new > request[r].current =>
             \/ request[r].new = min_difficulty
             \/ Full(request[r].evidence) /\ TimeTaken(request[r].evidence) < time_target)'
      <4>1. Full(request[r].evidence)' <=> Full(rows)
        BY <2>6 DEF Full
      <4>2. TimeTaken(request[r].evidence)' = TimeTaken(rows)
        BY <2>5, <2>6 DEF TimeTaken, Times
      <4> HIDE DEF new
      <4> QED BY <2>4, <2>6, <4>1, <4>2
    <3>4. Minded' => (request[r].new >= min_difficulty)'
      <4> HIDE DEF new
      <4> QED BY <1>1, <2>1, <2>4, <2>6
    <3> QED BY <2>6, <3>1, <3>2, <3>3, <3>4 DEF Computed, Writing
  <2> QED BY <1>3, <2>5, <2>10
<1>9. CASE WriteBack(r)
  <2>1. /\ Writing(r) /\ request[r].new \in Uint64 /\ request[r].evidence \subseteq DOMAIN partials
        /\ Minded => request[r].new >= min_difficulty
    BY <1>1, <1>9 DEF WriteBack, Writing, Computed, RequestState, Idle
  <2>2. /\ difficulty' = request[r].new /\ partials' = partials
        /\ used' \in {used, used \cup request[r].evidence}
        /\ stored' = stored /\ request'[r] = Idle
    BY <1>1, <1>9 DEF WriteBack, RequestStep
  <2>3. Tables'
    BY <1>1, <2>1, <2>2 DEF Tables
  <2> QED BY <1>4, <2>2, <2>3
<1> QED BY <1>5, <1>6, <1>7, <1>8, <1>9

LEMMA NextKeeps ==
  ASSUME AdjustInv, [Next]_vars
  PROVE  AdjustInv'
<1>1. CASE UNCHANGED vars
  <2>1. Tables' /\ (Minded' <=> Minded)
    BY <1>1 DEF vars, AdjustInv, Tables, Minded
  <2> QED BY <1>1, <2>1, StepKeeps DEF vars, AdjustInv
<1> QED BY <1>1, OthersKeep, RequestsKeep DEF Next

-----------------------------------------------------------------------------

LEMMA AdjustCorrect == Spec => []AdjustInv
<1>1. Init => AdjustInv
  BY AdjustInit
<1>2. AdjustInv /\ [Next]_vars => AdjustInv'
  BY NextKeeps
<1> QED BY <1>1, <1>2, PTL DEF Spec

\* Every difficulty that is stored or about to be is a uint64, with any window,
\* targets and number of requests (v2.py:345-390).
THEOREM TypeCorrect == Spec => []TypeOK
<1>1. AdjustInv => TypeOK
  BY DEF AdjustInv, Tables, Computed, TypeOK
<1> QED BY AdjustCorrect, <1>1, PTL

\* No adjustment leads below the minimum, until the farmer asks for that, in a
\* pool whose default is not below it.
THEOREM MinimumHolds ==
  ASSUME default_difficulty >= min_difficulty
  PROVE  Spec => []NeverBelowMinimum
<1>1. AdjustInv => NeverBelowMinimum
  BY DEF AdjustInv, Tables, Minded, NeverBelowMinimum
<1> QED BY AdjustCorrect, <1>1, PTL

\* The difficulty rises above the minimum only on a full window that took less
\* than time_target: the extrapolation from a few partials never raises it.
THEOREM RisesOnFullFastWindow == Spec => []RaisedOnFullFastWindow
<1>1. AdjustInv => RaisedOnFullFastWindow
  BY DEF AdjustInv, Computed, RaisedOnFullFastWindow
<1> QED BY AdjustCorrect, <1>1, PTL

-----------------------------------------------------------------------------
(* No partial is used twice *)

Confirmed == {p \in DOMAIN partials : partials[p].confirmed}
At(p)     == partials[p].timestamp
Level(p)  == partials[p].difficulty

\* The confirmation delay covers the longest check.
Prompt == MaxRequestTime <= Delay

\* Rows are of the past, confirmed ones of more than the delay ago, and rows that
\* are still to be stored of no longer ago than a check takes.
ClockInv ==
  /\ \A p \in DOMAIN partials : At(p) <= now
  /\ \A p \in Confirmed : At(p) + Delay < now
  /\ \A r \in Requests : request[r].pc = "check" =>
       request[r].current_time <= now /\ now <= request[r].current_time + MaxRequestTime

\* All old rows are confirmed together.
OrderInv == \A p \in Confirmed : \A x \in DOMAIN partials \ Confirmed : At(x) > At(p)

\* A later row of another difficulty keeps p out of every window that counts.
Outdated(p) == \E q \in Confirmed : At(q) > At(p) /\ Level(q) # Level(p)

\* The next window of another difficulty has a row later than p: a later row of
\* its own difficulty comes before it, or all rows of its second are of its own.
Topped(rows, p) ==
  \/ \E q \in rows : At(q) > At(p) /\ Level(q) = Level(p)
  \/ \A x \in DOMAIN partials : At(x) = At(p) => Level(x) = Level(p)

\* A partial that was used is out for good, or the difficulty is below its own,
\* or above it and cannot come back before there is a later row.
Spent(p) ==
  \/ Outdated(p)
  \/ Level(p) < min_difficulty
  \/ difficulty < Level(p)
  \/ difficulty > Level(p) /\ Topped(used, p)

\* What the change that r is about to write rests on
GroundInv(r) ==
  LET q == request[r] IN
  Writing(r) /\ q.new # q.current =>
    /\ q.evidence \subseteq Confirmed /\ q.evidence \cap used = {}
    /\ \E x, y \in q.evidence : x # y
    /\ \A p \in q.evidence : Level(p) = q.current /\ \A u \in used : At(u) <= At(p)
    /\ q.new >= min_difficulty
    /\ q.new > q.current /\ q.current >= min_difficulty =>
         /\ \E x, y \in q.evidence : At(x) < At(y)
         /\ \A p \in q.evidence : Topped(q.evidence, p)

\* Until it is disturbed, every request under way has read the difficulty as it is.
RequestInv(r) ==
  (request[r].pc # "idle" => request[r].current = difficulty) /\ GroundInv(r)

UsedInv ==
  ~disturbed =>
    /\ used \subseteq Confirmed
    /\ used # {} => difficulty >= min_difficulty
    /\ \A p \in used : Spent(p)
    /\ \A r \in Requests : RequestInv(r)

FreshInv == AdjustInv /\ ClockInv /\ OrderInv /\ UsedInv

LEMMA FreshInit == Init => FreshInv
<1> SUFFICES ASSUME Init PROVE FreshInv
  OBVIOUS
<1>1. DOMAIN partials = {} /\ used = {} /\ Confirmed = {}
  BY DEF Init, Confirmed
<1>2. \A r \in Requests : request[r].pc = "idle"
  BY DEF Init, Idle
<1> QED BY AdjustInit, <1>1, <1>2
        DEF FreshInv, ClockInv, OrderInv, UsedInv, RequestInv, GroundInv, Writing

LEMMA FreshTypes ==
  ASSUME AdjustInv
  PROVE  /\ now \in Nat /\ difficulty \in Nat /\ min_difficulty \in Nat /\ Delay \in Nat
         /\ MaxRequestTime \in Nat /\ stored \in Nat /\ disturbed \in BOOLEAN
         /\ \A p \in DOMAIN partials :
              p \in Nat /\ p <= stored /\ At(p) \in Nat /\ Level(p) \in Nat
         /\ \A r \in Requests :
              /\ request[r].pc \in {"check", "adjust"} =>
                   request[r].current \in Nat /\ request[r].current_time \in Nat
              /\ Writing(r) => /\ request[r].current \in Nat /\ request[r].new \in Nat
                               /\ request[r].evidence \subseteq DOMAIN partials
<1>1. /\ Tables /\ min_difficulty \in Nat /\ Delay \in Nat /\ MaxUint64 \in Nat /\ MaxTime \in Nat
      /\ MaxPartials \in Nat /\ MaxRequestTime \in Nat
  BY DifficultyAssumption DEF AdjustInv
<1>2. /\ now \in Nat /\ difficulty \in Nat /\ stored \in Nat /\ disturbed \in BOOLEAN
      /\ \A p \in DOMAIN partials :
           p \in Nat /\ p <= stored /\ At(p) \in Nat /\ Level(p) \in Nat
  BY <1>1 DEF Tables, Uint64, At, Level
<1>3. ASSUME NEW r \in Requests
      PROVE  /\ request[r].pc \in {"check", "adjust"} =>
                  request[r].current \in Nat /\ request[r].current_time \in Nat
             /\ Writing(r) => /\ request[r].current \in Nat /\ request[r].new \in Nat
                              /\ request[r].evidence \subseteq DOMAIN partials
  BY <1>1 DEF AdjustInv, Computed, RequestState, Idle, Writing, Uint64
<1> QED BY <1>1, <1>2, <1>3

\* Confirmed rows stay, and rows that are added are later than all of them.
RowsGrow ==
  /\ \A p \in Confirmed : p \in Confirmed' /\ At(p)' = At(p) /\ Level(p)' = Level(p)
  /\ \A p \in DOMAIN partials' :
       \/ p \in DOMAIN partials /\ At(p)' = At(p) /\ Level(p)' = Level(p)
       \/ \A u \in Confirmed : At(u) < At(p)'

LEMMA RowsSame ==
  ASSUME partials' = partials
  PROVE  RowsGrow /\ Confirmed' = Confirmed /\ \A p : At(p)' = At(p) /\ Level(p)' = Level(p)
<1>1. Confirmed' = Confirmed /\ \A p : At(p)' = At(p) /\ Level(p)' = Level(p)
  BY DEF Confirmed, At, Level
<1> QED BY <1>1 DEF RowsGrow

LEMMA ToppedStays ==
  ASSUME AdjustInv, AdjustInv', RowsGrow, NEW S, S \subseteq Confirmed,
         NEW p \in Confirmed, Topped(S, p), NEW T, S \subseteq T
  PROVE  \/ \E q \in T : At(q)' > At(p)' /\ Level(q)' = Level(p)'
         \/ \A x \in DOMAIN partials' : At(x)' = At(p)' => Level(x)' = Level(p)'
<1>1. p \in Confirmed' /\ At(p)' = At(p) /\ Level(p)' = Level(p) /\ p \in DOMAIN partials
  BY DEF RowsGrow, Confirmed
<1>2. CASE \E q \in S : At(q) > At(p) /\ Level(q) = Level(p)
  BY <1>1, <1>2 DEF RowsGrow
<1>3. CASE \A x \in DOMAIN partials : At(x) = At(p) => Level(x) = Level(p)
  <2>1. ASSUME NEW x \in DOMAIN partials', At(x)' = At(p)'
        PROVE  x \in DOMAIN partials /\ At(x)' = At(x) /\ Level(x)' = Level(x)
    BY <1>1, <2>1, FreshTypes DEF RowsGrow
  <2> QED BY <1>1, <1>3, <2>1
<1> QED BY <1>2, <1>3 DEF Topped

\* A row that is spent stays so.
LEMMA SpentStays ==
  ASSUME AdjustInv, AdjustInv', RowsGrow, used \subseteq Confirmed,
         used' = used, difficulty' = difficulty,
         NEW p \in used, Spent(p)
  PROVE  Spent(p)'
<1>1. p \in Confirmed /\ At(p)' = At(p) /\ Level(p)' = Level(p)
  BY DEF RowsGrow
<1>2. CASE Outdated(p)
  BY <1>1, <1>2 DEF Outdated, Spent, RowsGrow
<1>3. CASE Level(p) < min_difficulty \/ difficulty < Level(p)
  BY <1>1, <1>3 DEF Spent
<1>4. CASE difficulty > Level(p) /\ Topped(used, p)
  <2>1. Topped(used, p)'
    BY <1>1, <1>4, ToppedStays DEF Topped
  <2> QED BY <1>1, <1>4, <2>1 DEF Spent
<1> QED BY <1>2, <1>3, <1>4 DEF Spent

\* So does what a change rests on.
LEMMA GroundStays ==
  ASSUME AdjustInv, AdjustInv', RowsGrow, used \subseteq Confirmed, used' = used,
         NEW r \in Requests, request'[r] = request[r], GroundInv(r)
  PROVE  GroundInv(r)'
<1> SUFFICES ASSUME Writing(r), request[r].new # request[r].current PROVE GroundInv(r)'
  BY DEF GroundInv, Writing
<1> DEFINE q == request[r]
<1>1. /\ q.evidence \subseteq Confirmed /\ q.evidence \cap used = {}
      /\ \E x, y \in q.evidence : x # y
      /\ \A p \in q.evidence : Level(p) = q.current /\ \A u \in used : At(u) <= At(p)
      /\ q.new >= min_difficulty
      /\ q.new > q.current /\ q.current >= min_difficulty =>
           /\ \E x, y \in q.evidence : At(x) < At(y)
           /\ \A p \in q.evidence : Topped(q.evidence, p)
  BY DEF GroundInv
<1>2. \A p \in q.evidence \cup used : p \in Confirmed' /\ At(p)' = At(p) /\ Level(p)' = Level(p)
  BY <1>1 DEF RowsGrow
<1>3. ASSUME NEW p \in q.evidence, Topped(q.evidence, p) PROVE Topped(request[r].evidence, p)'
  <2>1. request'[r].evidence = q.evidence /\ p \in Confirmed
    BY <1>1
  <2>2. \/ \E x \in q.evidence : At(x)' > At(p)' /\ Level(x)' = Level(p)'
        \/ \A x \in DOMAIN partials' : At(x)' = At(p)' => Level(x)' = Level(p)'
    BY <1>1, <1>3, <2>1, ToppedStays
  <2> QED BY <2>1, <2>2 DEF Topped
<1>4. (request[r].evidence)' = q.evidence
  OBVIOUS
<1>5. (/\ request[r].evidence \subseteq Confirmed /\ request[r].evidence \cap used = {}
       /\ \E x, y \in request[r].evidence : x # y)'
  BY <1>1, <1>2, <1>4
<1>6. (\A p \in request[r].evidence : Level(p) = request[r].current
                                       /\ \A u \in used : At(u) <= At(p))'
  BY <1>1, <1>2, <1>4
<1>7. (request[r].new > request[r].current /\ request[r].current >= min_difficulty =>
         /\ \E x, y \in request[r].evidence : At(x) < At(y)
         /\ \A p \in request[r].evidence : Topped(request[r].evidence, p))'
  BY <1>1, <1>2, <1>3, <1>4
<1>8. (request[r].new >= min_difficulty)'
  BY <1>1
<1> QED BY <1>5, <1>6, <1>7, <1>8 DEF GroundInv

\* A step that changes nothing that was used leaves to prove what its request does.
LEMMA UsedStays ==
  ASSUME FreshInv, AdjustInv', RowsGrow, used' = used, difficulty' = difficulty,
         disturbed' = disturbed,
         \A r \in Requests : request'[r] = request[r] \/ (~disturbed => RequestInv(r)')
  PROVE  UsedInv'
<1> SUFFICES ASSUME ~disturbed PROVE UsedInv'
  BY DEF UsedInv
<1>1. /\ used \subseteq Confirmed /\ (used # {} => difficulty >= min_difficulty)
      /\ \A p \in used : Spent(p)
      /\ \A r \in Requests : RequestInv(r)
      /\ AdjustInv
  BY DEF FreshInv, UsedInv
<1>2. \A p \in used : Spent(p)'
  BY <1>1, SpentStays
<1>3. ASSUME NEW r \in Requests, request'[r] = request[r] PROVE RequestInv(r)'
  <2>1. GroundInv(r)'
    BY <1>1, <1>3, GroundStays DEF RequestInv
  <2> QED BY <1>1, <1>3, <2>1 DEF RequestInv
<1>4. used' \subseteq Confirmed' /\ (used' # {} => difficulty' >= min_difficulty)
  BY <1>1 DEF RowsGrow
<1>5. \A r \in Requests : RequestInv(r)'
  BY <1>3
<1>6. \A p \in used' : Spent(p)'
  BY <1>2
<1> QED BY <1>4, <1>5, <1>6 DEF UsedInv

LEMMA OthersFresh ==
  ASSUME FreshInv, AdjustInv', Tick \/ Suggest \/ Register \/ Confirm
  PROVE  ClockInv' /\ OrderInv' /\ UsedInv'
<1>0. /\ AdjustInv /\ now \in Nat /\ Delay \in Nat /\ MaxRequestTime \in Nat
      /\ \A p \in DOMAIN partials : At(p) \in Nat
      /\ \A r \in Requests : request[r].pc = "check" => request[r].current_time \in Nat
      /\ Confirmed \subseteq DOMAIN partials
  BY FreshTypes DEF FreshInv, Confirmed
<1>1. CASE Tick
  <2>1. /\ now' = now + 1 /\ partials' = partials /\ request' = request
        /\ used' = used /\ difficulty' = difficulty /\ disturbed' = disturbed
        /\ \A r \in Requests : request[r].pc = "check" =>
             now < request[r].current_time + MaxRequestTime
    BY <1>1 DEF Tick
  <2>2. ClockInv'
    BY <1>0, <2>1, RowsSame DEF FreshInv, ClockInv
  <2>3. OrderInv'
    BY <2>1, RowsSame DEF FreshInv, OrderInv
  <2> QED BY <2>1, <2>2, <2>3, RowsSame, UsedStays
<1>2. CASE Suggest \/ Register
  <2>1. now' = now /\ partials' = partials /\ request' = request /\ disturbed' = TRUE
    BY <1>2 DEF Suggest, Register, SetDifficulty
  <2> QED BY <2>1, RowsSame DEF FreshInv, ClockInv, OrderInv, UsedInv
<1>3. CASE Confirm
  <2>1. PICK gone \in SUBSET {p \in DOMAIN partials : Old(p)} :
          partials' = [p \in DOMAIN partials \ gone |->
                         IF Old(p) THEN [partials[p] EXCEPT !.confirmed = TRUE] ELSE partials[p]]
    BY <1>3 DEF Confirm
  <2>2. now' = now /\ request' = request /\ used' = used /\ difficulty' = difficulty
        /\ disturbed' = disturbed
    BY <1>3 DEF Confirm
  <2>4. ASSUME NEW p \in DOMAIN partials'
        PROVE  /\ p \in DOMAIN partials /\ At(p)' = At(p) /\ Level(p)' = Level(p)
               /\ p \in Confirmed' <=> p \in Confirmed \/ Old(p)
    <3>1. partials[p].confirmed \in BOOLEAN /\ p \in DOMAIN partials
          /\ partials[p] \in [timestamp : 0 .. MaxTime, difficulty : Uint64, confirmed : BOOLEAN]
      BY <1>0, <2>1 DEF AdjustInv, Tables
    <3>2. partials'[p] = IF Old(p) THEN [partials[p] EXCEPT !.confirmed = TRUE] ELSE partials[p]
      BY <2>1
    <3> QED BY <3>1, <3>2 DEF At, Level, Confirmed
  <2>5. \A p \in Confirmed : p \in DOMAIN partials'
    BY <2>1 DEF Confirmed, Old
  <2>6. RowsGrow
    BY <2>4, <2>5 DEF RowsGrow
  <2>7. Confirmed' \subseteq DOMAIN partials'
    BY DEF Confirmed
  <2>8. \A p \in Confirmed' : At(p)' = At(p) /\ At(p) + Delay < now
    BY <2>4, <2>7 DEF FreshInv, ClockInv, Old, At
  <2>9. ASSUME NEW p \in Confirmed', NEW x \in DOMAIN partials' \ Confirmed' PROVE At(x)' > At(p)'
    <3>1. At(x) + Delay >= now /\ At(x)' = At(x)
      BY <1>0, <2>4, <2>9 DEF Old, At, Confirmed
    <3> QED BY <1>0, <2>4, <2>7, <2>8, <3>1
  <2>10. ClockInv'
    BY <2>2, <2>4, <2>8 DEF FreshInv, ClockInv
  <2>11. OrderInv'
    BY <2>9 DEF OrderInv
  <2> QED BY <2>2, <2>6, <2>10, <2>11, UsedStays
<1> QED BY <1>1, <1>2, <1>3

\* A step of one request that neither stores nor writes
LEMMA StepFresh ==
  ASSUME FreshInv, AdjustInv', NEW slot \in Requests,
         partials' = partials, now' = now, used' = used, difficulty' = difficulty,
         disturbed' = disturbed, \A r \in Requests \ {slot} : request'[r] = request[r],
         request'[slot].pc = "check" => request'[slot].current_time = now,
         ~disturbed => RequestInv(slot)'
  PROVE  ClockInv' /\ OrderInv' /\ UsedInv'
<1>1. now \in Nat /\ MaxRequestTime \in Nat
  BY FreshTypes DEF FreshInv
<1>2. ClockInv'
  BY <1>1, RowsSame DEF FreshInv, ClockInv
<1>3. OrderInv'
  BY RowsSame DEF FreshInv, OrderInv
<1> QED BY <1>2, <1>3, RowsSame, UsedStays

LEMMA ReadFresh ==
  ASSUME FreshInv, AdjustInv', NEW slot \in Requests,
         Read(slot) \/ Reject(slot) \/ AdjustRaises(slot)
  PROVE  ClockInv' /\ OrderInv' /\ UsedInv'
<1>1. /\ partials' = partials /\ now' = now /\ used' = used /\ difficulty' = difficulty
      /\ disturbed' = disturbed
      /\ \A r \in Requests \ {slot} : request'[r] = request[r]
      /\ \/ request'[slot] = Idle
         \/ request'[slot] = [pc |-> "check", current |-> difficulty, current_time |-> now]
  BY DEF FreshInv, AdjustInv, Read, Reject, AdjustRaises, RequestStep
<1>2. RequestInv(slot)'
  BY <1>1 DEF RequestInv, GroundInv, Writing, Idle
<1> QED BY <1>1, <1>2, StepFresh DEF Idle

LEMMA StoreFresh ==
  ASSUME FreshInv, AdjustInv', Prompt, NEW slot \in Requests, StorePartial(slot)
  PROVE  ClockInv' /\ OrderInv' /\ UsedInv'
<1> DEFINE q   == request[slot]
           new == stored + 1
<1>1. /\ AdjustInv /\ now \in Nat /\ stored \in Nat /\ Delay \in Nat /\ MaxRequestTime \in Nat
      /\ \A p \in DOMAIN partials : p \in Nat /\ p <= stored /\ At(p) \in Nat
      /\ q.pc = "check" /\ q.current_time \in Nat
  BY FreshTypes DEF FreshInv, StorePartial
<1>2. /\ request'[slot].pc = "adjust" /\ request'[slot].current = q.current
      /\ \A r \in Requests \ {slot} : request'[r] = request[r]
      /\ now' = now /\ used' = used /\ difficulty' = difficulty /\ disturbed' = disturbed
  <2>1. q = [pc |-> "check", current |-> q.current, current_time |-> q.current_time]
    BY <1>1 DEF AdjustInv, Computed, RequestState, Idle
  <2>2. request' = [request EXCEPT ![slot] = [q EXCEPT !.pc = "adjust", !.current_time = now]]
    BY DEF StorePartial, RequestStep
  <2>3. request = [r \in Requests |-> request[r]]
    BY <1>1 DEF AdjustInv
  <2>4. request'[slot] = [pc |-> "adjust", current |-> q.current, current_time |-> now]
    BY <2>1, <2>2, <2>3
  <2> QED BY <2>2, <2>3, <2>4 DEF StorePartial, RequestStep
<1>3. /\ DOMAIN partials' = DOMAIN partials \cup {new} /\ new \notin DOMAIN partials
      /\ partials'[new] = [timestamp |-> q.current_time, difficulty |-> q.current, confirmed |-> FALSE]
      /\ \A p \in DOMAIN partials : partials'[p] = partials[p]
  BY <1>1 DEF StorePartial, Upsert
<1>4. /\ Confirmed' = Confirmed /\ Confirmed \subseteq DOMAIN partials
      /\ \A p : p = new => At(p)' = q.current_time
      /\ \A p \in DOMAIN partials : At(p)' = At(p) /\ Level(p)' = Level(p)
  BY <1>3 DEF Confirmed, At, Level
<1>5. \A p \in Confirmed : At(p) < q.current_time
  <2>1. \A p \in Confirmed : At(p) + Delay < now /\ At(p) \in Nat
    BY <1>1, <1>4 DEF FreshInv, ClockInv
  <2>2. now <= q.current_time + MaxRequestTime
    BY <1>1 DEF FreshInv, ClockInv
  <2> QED BY <1>1, <2>1, <2>2 DEF Prompt
<1>6. ClockInv'
  BY <1>1, <1>2, <1>3, <1>4 DEF FreshInv, ClockInv
<1>7. OrderInv'
  BY <1>3, <1>4, <1>5 DEF FreshInv, OrderInv
<1>8. RowsGrow
  BY <1>3, <1>4, <1>5 DEF RowsGrow
<1>9. ~disturbed => RequestInv(slot)'
  BY <1>1, <1>2 DEF FreshInv, UsedInv, RequestInv, GroundInv, Writing
<1> QED BY <1>2, <1>6, <1>7, <1>8, <1>9, UsedStays

\* A change needs two rows of the current difficulty, and a rise above the
\* minimum two of different times.
LEMMA ChangeIs ==
  ASSUME RowsTyped, NEW rows \in recent_partials(number_of_partials_target),
         NEW current \in Uint64, NEW current_time \in 0 .. MaxTime,
         ~Raises(rows, current, current_time),
         NEW new, new = adjust_difficulty(rows, current, current_time), new # current
  PROVE  /\ \A p \in rows : Level(p) = current
         /\ \E x, y \in rows : x # y
         /\ new >= min_difficulty
         /\ new > current /\ current >= min_difficulty => \E x, y \in rows : At(x) < At(y)
<1>1. Window(rows, number_of_partials_target) /\ rows \subseteq DOMAIN partials
  BY RecentAreWindows, DifficultyAssumption DEF Window
<1>2. /\ Settled(rows, current)
      /\ new \in Uint64 /\ new >= min_difficulty
  BY <1>1, AdjustIs DEF adjust_difficulty
<1>3. Cardinality(rows) >= 2 /\ \A p \in rows : Level(p) = current
  BY <1>2 DEF Settled, Level
<1>4. \E x, y \in rows : x # y
  <2>1. IsFiniteSet(rows)
    <3>1. IsFiniteSet(1 .. stored)
      BY FS_Interval DEF RowsTyped
    <3>2. rows \subseteq 1 .. stored
      BY <1>1 DEF RowsTyped
    <3> QED BY <3>1, <3>2, FS_Subset
  <2>2. PICK x \in rows : TRUE
    BY <1>1, <1>3 DEF Window
  <2>3. IsFiniteSet(rows \ {x}) /\ Cardinality(rows \ {x}) = Cardinality(rows) - 1
    BY <2>1, <2>2, FS_RemoveElement
  <2>4. rows \ {x} # {}
    BY <1>1, <1>3, <2>3, FS_EmptySet DEF Window
  <2> QED BY <2>2, <2>4
<1>5. ASSUME new > current, current >= min_difficulty PROVE \E x, y \in rows : At(x) < At(y)
  <2>1. current \in Nat /\ min_difficulty \in Nat /\ current_time \in Nat /\ new \in Nat
        /\ ONE_HOUR \in Nat /\ MaxTime \in Nat
    BY <1>2, DifficultyAssumption DEF Uint64
  <2>2. new # Slow(rows, current, current_time)
    BY <1>5, <2>1, SlowIs
  <2>3. ~(Silence(rows, current_time) > ONE_HOUR) /\ ~TooSoon(rows)
    BY <1>2, <1>5, <2>1, <2>2 DEF adjust_difficulty
  <2>4. rows # {} /\ Times(rows) # {} /\ Times(rows) \subseteq 0 .. MaxTime
        /\ Max(Times(rows)) \in 0 .. MaxTime
    BY <1>1, <1>4 DEF Window, Times
  <2>5. Regular(rows, current_time)
    BY <2>1, <2>3, <2>4 DEF Regular, Silence
  <2>6. TimeTaken(rows) # 0
    BY <1>2, <2>5 DEF Raises
  <2>7. /\ Max(Times(rows)) \in Times(rows) /\ Min(Times(rows)) \in Times(rows)
        /\ Min(Times(rows)) <= Max(Times(rows))
    BY <2>1, <2>4, WindowExtremes
  <2>8. Min(Times(rows)) < Max(Times(rows))
    BY <2>1, <2>4, <2>6, <2>7 DEF TimeTaken
  <2> QED BY <2>7, <2>8 DEF Times, At
<1> QED BY <1>2, <1>3, <1>4, <1>5

\* A window of rows that counts holds none that was used before.
LEMMA GroundIsFresh ==
  ASSUME FreshInv, ~disturbed, NEW rows \in recent_partials(number_of_partials_target),
         \A p \in rows : Level(p) = difficulty
  PROVE  rows \cap used = {} /\ \A p \in rows, u \in used : At(u) <= At(p)
<1>1. /\ AdjustInv /\ difficulty \in Nat /\ min_difficulty \in Nat
      /\ \A p \in DOMAIN partials : At(p) \in Nat /\ Level(p) \in Nat
      /\ used \subseteq Confirmed /\ Confirmed \subseteq DOMAIN partials
      /\ used # {} => difficulty >= min_difficulty
      /\ \A p \in used : Spent(p)
  BY FreshTypes DEF FreshInv, UsedInv, Confirmed
<1>2. rows \subseteq Confirmed /\ \A p \in rows, q \in Confirmed \ rows : At(p) >= At(q)
  BY DEF recent_partials, Confirmed, At
<1>3. ASSUME NEW p \in rows, p \in used PROVE FALSE
  <2>1. Outdated(p)
    BY <1>1, <1>3 DEF Spent
  <2>2. PICK q \in Confirmed : At(q) > At(p) /\ Level(q) # Level(p)
    BY <2>1 DEF Outdated
  <2>3. At(p) >= At(q)
    BY <1>2, <1>3, <2>2
  <2> QED BY <1>1, <1>3, <2>2, <2>3
<1> QED BY <1>1, <1>2, <1>3

LEMMA AdjustFresh ==
  ASSUME FreshInv, AdjustInv', NEW slot \in Requests, Adjust(slot)
  PROVE  ClockInv' /\ OrderInv' /\ UsedInv'
<1> DEFINE q == request[slot]
<1>1. /\ AdjustInv /\ RowsTyped /\ q.pc = "adjust" /\ q.current \in Uint64 /\ q.current \in Nat
      /\ q.current_time \in 0 .. MaxTime /\ difficulty \in Nat /\ min_difficulty \in Nat
      /\ \A p \in DOMAIN partials : p \in Nat /\ At(p) \in Nat
      /\ disturbed \in BOOLEAN
  BY FreshTypes DEF FreshInv, AdjustInv, Tables, RowsTyped, Adjust, Computed, RequestState, Idle
<1>2. PICK rows \in recent_partials(number_of_partials_target) :
        /\ ~Raises(rows, q.current, q.current_time)
        /\ request' = [request EXCEPT
             ![slot] = [pc |-> "write", current |-> q.current, evidence |-> rows,
                        new |-> adjust_difficulty(rows, q.current, q.current_time)]]
  BY DEF Adjust, RequestStep
<1>3. /\ partials' = partials /\ now' = now /\ used' = used /\ difficulty' = difficulty
      /\ disturbed' = disturbed /\ Confirmed' = Confirmed
      /\ \A p : At(p)' = At(p) /\ Level(p)' = Level(p)
  BY DEF Adjust, RequestStep, Confirmed, At, Level
<1> DEFINE new == adjust_difficulty(rows, q.current, q.current_time)
<1>4. /\ \A r \in Requests \ {slot} : request'[r] = request[r]
      /\ request'[slot] = [pc |-> "write", current |-> q.current, evidence |-> rows, new |-> new]
  BY <1>1, <1>2 DEF AdjustInv
<1>6. ASSUME ~disturbed, new # q.current
      PROVE  GroundInv(slot)'
  <2>1. q.current = difficulty
    BY <1>1, <1>6 DEF FreshInv, UsedInv, RequestInv
  <2>2. /\ \A p \in rows : Level(p) = q.current
        /\ \E x, y \in rows : x # y
        /\ new >= min_difficulty
        /\ new > q.current /\ q.current >= min_difficulty => \E x, y \in rows : At(x) < At(y)
    BY <1>1, <1>2, <1>6, ChangeIs
  <2>3. rows \cap used = {} /\ \A p \in rows, u \in used : At(u) <= At(p)
    BY <1>6, <2>1, <2>2, GroundIsFresh
  <2>4. /\ rows \subseteq Confirmed /\ Confirmed \subseteq DOMAIN partials
        /\ \A p \in rows, x \in Confirmed \ rows : At(p) >= At(x)
    BY DEF recent_partials, Confirmed, At
  <2>5. ASSUME new > q.current, q.current >= min_difficulty, NEW p \in rows
        PROVE  Topped(rows, p)
    <3>1. PICK v \in rows, w \in rows : At(v) < At(w)
      BY <2>2, <2>5
    <3>2. CASE \E u \in rows : At(u) > At(p)
      BY <2>2, <3>2 DEF Topped
    <3>3. CASE \A u \in rows : At(u) <= At(p)
      <4>1. At(v) < At(p)
        BY <1>1, <2>4, <3>1, <3>3
      <4>2. ASSUME NEW x \in DOMAIN partials, At(x) = At(p), Level(x) # Level(p)
            PROVE  x \notin Confirmed
        BY <1>1, <2>2, <2>4, <4>1, <4>2
      <4>3. \A x \in DOMAIN partials : At(x) = At(p) => Level(x) = Level(p)
        <5> SUFFICES ASSUME NEW x \in DOMAIN partials, At(x) = At(p), Level(x) # Level(p)
                     PROVE  FALSE
          OBVIOUS
        <5>1. x \notin Confirmed /\ p \in Confirmed
          BY <2>4, <4>2
        <5>2. At(x) > At(p)
          BY <5>1 DEF FreshInv, OrderInv
        <5> QED BY <1>1, <5>2
      <4> QED BY <4>3 DEF Topped
    <3>4. \A u \in rows : At(u) > At(p) \/ At(u) <= At(p)
      BY <1>1, <2>4
    <3> QED BY <3>2, <3>3, <3>4
  <2> HIDE DEF new
  <2>6. /\ request'[slot].pc = "write" /\ request'[slot].current = q.current
        /\ request'[slot].evidence = rows /\ request'[slot].new = new
    BY <1>4
  <2>7. ASSUME NEW p \in rows, Topped(rows, p) PROVE Topped(request[slot].evidence, p)'
    BY <1>3, <2>6, <2>7 DEF Topped
  <2>8. (/\ request[slot].evidence \subseteq Confirmed /\ request[slot].evidence \cap used = {}
         /\ \E x, y \in request[slot].evidence : x # y
         /\ \A p \in request[slot].evidence : Level(p) = request[slot].current
                                               /\ \A u \in used : At(u) <= At(p)
         /\ request[slot].new >= min_difficulty)'
    BY <1>3, <2>2, <2>3, <2>4, <2>6
  <2>9. (request[slot].new > request[slot].current /\ request[slot].current >= min_difficulty =>
           /\ \E x, y \in request[slot].evidence : At(x) < At(y)
           /\ \A p \in request[slot].evidence : Topped(request[slot].evidence, p))'
    BY <1>3, <2>2, <2>5, <2>6, <2>7
  <2> QED BY <2>8, <2>9 DEF GroundInv
<1>7. ~disturbed => GroundInv(slot)'
  <2> HIDE DEF new
  <2> QED BY <1>4, <1>6 DEF GroundInv
<1>8. ~disturbed => RequestInv(slot)'
  <2>1. ~disturbed => request'[slot].current = difficulty'
    BY <1>1, <1>3, <1>4 DEF FreshInv, UsedInv, RequestInv
  <2> HIDE DEF new
  <2> QED BY <1>7, <2>1 DEF RequestInv
<1>9. request'[slot].pc = "write"
  BY <1>4
<1> HIDE DEF new
<1> QED BY <1>3, <1>4, <1>8, <1>9, StepFresh

\* A change leaves what was used before, and what it rests on, out of reach.
LEMMA WriteSpends ==
  ASSUME FreshInv, AdjustInv', ~disturbed, NEW slot \in Requests, WriteBack(slot),
         request[slot].new # request[slot].current, NEW p \in used'
  PROVE  Spent(p)'
<1> DEFINE q    == request[slot]
           rows == q.evidence
<1>1. /\ AdjustInv /\ q.current \in Nat /\ q.new \in Nat /\ min_difficulty \in Nat
      /\ \A x \in DOMAIN partials : At(x) \in Nat /\ Level(x) \in Nat
      /\ Confirmed \subseteq DOMAIN partials /\ used \subseteq Confirmed
      /\ Writing(slot) /\ q.current = difficulty
  BY FreshTypes DEF FreshInv, WriteBack, Writing, Confirmed, UsedInv, RequestInv
<1>2. /\ partials' = partials /\ Confirmed' = Confirmed /\ difficulty' = q.new
      /\ used' = used \cup rows
      /\ \A x : At(x)' = At(x) /\ Level(x)' = Level(x)
  BY DEF WriteBack, Confirmed, At, Level
<1>3. GroundInv(slot) /\ (used # {} => difficulty >= min_difficulty)
  BY DEF FreshInv, UsedInv, RequestInv
<1>4. /\ rows \subseteq Confirmed
      /\ \E x, y \in rows : x # y
      /\ \A x \in rows : Level(x) = q.current /\ \A u \in used : At(u) <= At(x)
      /\ q.new >= min_difficulty
      /\ q.new > q.current /\ q.current >= min_difficulty =>
           /\ \E x, y \in rows : At(x) < At(y)
           /\ \A x \in rows : Topped(rows, x)
  BY <1>1, <1>3 DEF GroundInv
<1>5. ASSUME NEW S, S \subseteq used', Topped(S, p)
      PROVE  Topped(used, p)'
  BY <1>2, <1>5 DEF Topped
<1>6. CASE p \in rows
  <2>1. Level(p) = q.current /\ p \in DOMAIN partials
    BY <1>1, <1>4, <1>6
  <2>2. CASE q.current < min_difficulty
    BY <1>2, <2>1, <2>2 DEF Spent
  <2>3. CASE q.new < q.current
    BY <1>2, <2>1, <2>3 DEF Spent
  <2>4. CASE q.new > q.current /\ q.current >= min_difficulty
    <3>1. Topped(used, p)'
      BY <1>2, <1>4, <1>5, <1>6, <2>4
    <3> QED BY <1>2, <2>1, <2>4, <3>1 DEF Spent
  <2> QED BY <1>1, <2>2, <2>3, <2>4
<1>7. CASE p \in used
  <2>1. Spent(p) /\ p \in DOMAIN partials /\ difficulty >= min_difficulty
    BY <1>1, <1>3, <1>7 DEF FreshInv, UsedInv
  <2>2. CASE Outdated(p)
    BY <1>2, <2>2 DEF Outdated, Spent
  <2>3. CASE Level(p) < min_difficulty
    BY <1>2, <2>3 DEF Spent
  <2>4. CASE Level(p) # difficulty /\ \E x \in rows : At(x) > At(p)
    BY <1>1, <1>2, <1>4, <2>4 DEF Outdated, Spent
  <2>5. CASE Level(p) # difficulty /\ \A x \in rows : ~(At(x) > At(p))
    <3>1. \A x \in rows : At(x) = At(p)
      BY <1>1, <1>4, <1>7, <2>1, <2>5
    <3>2. q.new < difficulty
      BY <1>1, <1>4, <2>1, <3>1
    <3>3. CASE difficulty < Level(p)
      BY <1>1, <1>2, <2>1, <3>2, <3>3 DEF Spent
    <3>4. CASE difficulty > Level(p) /\ Topped(used, p)
      <4>1. CASE \E u \in used : At(u) > At(p) /\ Level(u) = Level(p)
        BY <1>1, <1>4, <3>1, <4>1
      <4>2. CASE \A x \in DOMAIN partials : At(x) = At(p) => Level(x) = Level(p)
        BY <1>1, <1>4, <2>5, <3>1, <4>2
      <4> QED BY <3>4, <4>1, <4>2 DEF Topped
    <3> QED BY <1>2, <2>1, <2>2, <2>3, <3>3, <3>4 DEF Spent
  <2>6. Level(p) = difficulty => Outdated(p) \/ Level(p) < min_difficulty
    BY <1>1, <2>1 DEF Spent
  <2> QED BY <2>2, <2>3, <2>4, <2>5, <2>6
<1> QED BY <1>2, <1>6, <1>7

LEMMA WriteFresh ==
  ASSUME FreshInv, AdjustInv', NEW slot \in Requests, WriteBack(slot)
  PROVE  ClockInv' /\ OrderInv' /\ UsedInv'
<1> DEFINE q == request[slot]
<1>1. /\ AdjustInv /\ q.pc = "write" /\ Writing(slot)
      /\ request'[slot] = Idle /\ \A r \in Requests \ {slot} : request'[r] = request[r]
  BY DEF FreshInv, AdjustInv, WriteBack, Writing, RequestStep
<1>2. /\ partials' = partials /\ now' = now /\ difficulty' = q.new
      /\ used' = IF q.new # q.current THEN used \cup q.evidence ELSE used
      /\ disturbed' = (disturbed \/ (difficulty' # difficulty /\
                         \E other \in Requests \ {slot} : request[other].pc # "idle"))
  BY DEF WriteBack, RequestStep
<1>3. ClockInv' /\ OrderInv'
  BY <1>1, <1>2, RowsSame DEF FreshInv, ClockInv, OrderInv, Idle
<1>4. RequestInv(slot)'
  BY <1>1 DEF RequestInv, GroundInv, Writing, Idle
<1>5. UsedInv'
  <2> SUFFICES ASSUME ~disturbed' PROVE UsedInv'
    BY DEF UsedInv
  <2>1. /\ ~disturbed /\ used \subseteq Confirmed /\ (used # {} => difficulty >= min_difficulty)
        /\ GroundInv(slot) /\ q.current = difficulty
    BY <1>1, <1>2 DEF FreshInv, UsedInv, RequestInv
  <2>2. CASE q.new = q.current
    <3>1. used' = used /\ difficulty' = difficulty
      BY <1>2, <2>1, <2>2
    <3>2. disturbed = FALSE /\ disturbed' = FALSE
      BY <1>1, <2>1 DEF AdjustInv
    <3> QED BY <1>1, <1>2, <1>4, <3>1, <3>2, RowsSame, UsedStays
  <2>3. CASE q.new # q.current
    <3>1. \A r \in Requests \ {slot} : request[r].pc = "idle"
      BY <1>2, <2>1, <2>3
    <3>2. \A r \in Requests : RequestInv(r)'
      BY <1>1, <1>4, <3>1 DEF RequestInv, GroundInv, Writing
    <3>3. \A p \in used' : Spent(p)'
      BY <2>1, <2>3, WriteSpends
    <3>4. used' \subseteq Confirmed' /\ (used' # {} => difficulty' >= min_difficulty)
      BY <1>1, <1>2, <2>1, <2>3, RowsSame DEF GroundInv
    <3> QED BY <3>2, <3>3, <3>4 DEF UsedInv
  <2> QED BY <2>2, <2>3
<1> QED BY <1>3, <1>5

LEMMA FreshNext ==
  ASSUME FreshInv, [Next]_vars, Prompt
  PROVE  FreshInv'
<1>1. AdjustInv'
  BY NextKeeps DEF FreshInv
<1>2. CASE UNCHANGED vars
  <2>1. ClockInv' /\ OrderInv'
    BY <1>2, RowsSame DEF vars, FreshInv, ClockInv, OrderInv
  <2>2. UsedInv'
    BY <1>1, <1>2, RowsSame, UsedStays DEF vars
  <2> QED BY <1>1, <2>1, <2>2 DEF FreshInv
<1> QED BY <1>1, <1>2, OthersFresh, ReadFresh, StoreFresh, AdjustFresh, WriteFresh
        DEF Next, FreshInv

\* If no request outlives the confirmation delay, no partial is the ground of two
\* changes until the difficulty is disturbed: with any number of requests, window,
\* target and limits, whatever is deleted and however rows of one second are
\* ordered (v2.py:352-364).
THEOREM PartialsUsedOnce ==
  ASSUME MaxRequestTime <= Delay
  PROVE  Spec => []NoPartialUsedTwice
<1>1. Prompt
  BY DEF Prompt
<1>2. FreshInv /\ [Next]_vars => FreshInv'
  BY <1>1, FreshNext
<1>3. FreshInv => NoPartialUsedTwice
  BY DEF FreshInv, UsedInv, RequestInv, GroundInv, NoPartialUsedTwice
<1> QED BY FreshInit, <1>2, <1>3, PTL DEF Spec

=============================================================================
