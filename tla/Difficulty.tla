----------------------------- MODULE Difficulty -----------------------------
(***************************************************************************)
(* The difficulty of one farmer: what adjust_difficulty (farmer_rpc/v2.py)  *)
(* makes of it, partial after partial.  The requests are those of module    *)
(* Farmers, with the numbers kept; confirmation is the effect of module     *)
(* Ledger's, in one step.                                                   *)
(*                                                                          *)
(* time_taken and the divisions by it are floats in the code; here they are *)
(* exact fractions, rounded down where the code calls int.                  *)
(***************************************************************************)
EXTENDS Store, FiniteSetsExt

CONSTANTS
  default_difficulty, min_difficulty,
  number_of_partials_target, time_target,
  ONE_HOUR,
  MaxUint64,      \* the largest uint64
  Delay,          \* partial_confirmation_delay
  MaxRequestTime, \* longest check of a partial: the RPC timeouts and sleeps
  Suggestions,    \* difficulties the farmer may ask for
  MaxLost,        \* bound on partials that the node loses
  MaxSettings,    \* bound on requests that set the difficulty
  Requests,       \* slots for concurrent requests
  MaxTime,        \* bound of the clock
  MaxPartials     \* bound on partials ever stored

ASSUME DifficultyAssumption ==
  /\ default_difficulty \in 1 .. MaxUint64 /\ min_difficulty \in 1 .. MaxUint64
  /\ number_of_partials_target \in Nat \ {0} /\ time_target \in Nat \ {0}
  /\ ONE_HOUR \in Nat \ {0} /\ MaxUint64 \in Nat
  /\ Delay \in Nat /\ MaxRequestTime \in Nat /\ Suggestions \subseteq 0 .. MaxUint64
  /\ MaxLost \in Nat /\ MaxSettings \in Nat /\ MaxTime \in Nat /\ MaxPartials \in Nat

VARIABLES
  now,
  difficulty,   \* the farmer's row
  partials,     \* his partials, numbered as they were stored
  stored,       \* how many were stored so far
  request,
  settings,     \* requests that set the difficulty so far
  used,         \* history: the partials that a change of the difficulty was based on
  suggested,    \* history: the farmer has asked for a difficulty
  disturbed     \* history: the difficulty was set by POST or PUT, or was changed
                \* while another request of the farmer was under way

vars == <<now, difficulty, partials, stored, request, settings, used, suggested, disturbed>>

Idle == [pc |-> "idle"]

Init ==
  /\ now = 0
  /\ difficulty = default_difficulty
  /\ partials = [p \in {} |-> 0]
  /\ stored = 0
  /\ request = [r \in Requests |-> Idle]
  /\ settings = 0
  /\ used = {}
  /\ suggested = FALSE
  /\ disturbed = FALSE

-----------------------------------------------------------------------------
(* adjust_difficulty *)

Larger(a, b) == IF a > b THEN a ELSE b

Times(rows) == {partials[p].timestamp : p \in rows}

\* get_partials(confirmed=True, count=n): the latest n rows, ties as they come
recent_partials(n) ==
  LET confirmed == {p \in DOMAIN partials : partials[p].confirmed}
      count     == IF Cardinality(confirmed) < n THEN Cardinality(confirmed) ELSE n
  IN  {rows \in SUBSET confirmed :
         /\ Cardinality(rows) = count
         /\ \A p \in rows, q \in confirmed \ rows :
              partials[p].timestamp >= partials[q].timestamp}

\* Fault: rows at another difficulty count too.
Settled_Any(rows, current) == Cardinality(rows) >= 2

\* Enough rows, all at the difficulty the request has read
Settled(rows, current) ==
  /\ Cardinality(rows) >= 2
  /\ \A p \in rows : partials[p].difficulty = current

Silence(rows, current_time) == current_time - Max(Times(rows))
TimeTaken(rows) == Max(Times(rows)) - Min(Times(rows))
Full(rows) == Cardinality(rows) >= number_of_partials_target

\* Fault: a window that is not full is extrapolated however short it is.
TooSoon_Never(rows) == FALSE

TooSoon(rows) == ~Full(rows) /\ TimeTaken(rows) < time_target

\* time_taken, stretched to number_of_partials_target, as a fraction
Stretched(rows) ==
  IF Full(rows) THEN <<TimeTaken(rows), 1>>
                ELSE <<TimeTaken(rows) * number_of_partials_target, Cardinality(rows)>>

\* The last case: a window that is neither stale nor too short
Regular(rows, current_time) ==
  Silence(rows, current_time) <= ONE_HOUR /\ ~TooSoon(rows)

\* current_difficulty * time_target / time_taken
Target(rows, current) ==
  LET taken == Stretched(rows) IN (current * time_target * taken[2]) \div taken[1]

\* Fault: the result is not checked to be a uint64.
Raises_ZeroOnly(rows, current, current_time) ==
  Settled(rows, current) /\ Regular(rows, current_time) /\ TimeTaken(rows) = 0

\* ZeroDivisionError, or a value no uint64 holds
Raises(rows, current, current_time) ==
  /\ Settled(rows, current) /\ Regular(rows, current_time)
  /\ TimeTaken(rows) # 0 => Target(rows, current) > MaxUint64

\* Fault: a fifth of the difficulty, whatever the minimum.
Slow_NoMinimum(rows, current, current_time) ==
  IF Silence(rows, current_time) > 3 * ONE_HOUR THEN current \div 5
  ELSE Larger(min_difficulty, (current * 2) \div 3)

\* More than an hour, or three, since the last confirmed partial
Slow(rows, current, current_time) ==
  Larger(min_difficulty, IF Silence(rows, current_time) > 3 * ONE_HOUR
                           THEN current \div 5
                           ELSE (current * 2) \div 3)

adjust_difficulty(rows, current, current_time) ==
  IF ~Settled(rows, current) THEN current
  ELSE IF Silence(rows, current_time) > ONE_HOUR THEN Slow(rows, current, current_time)
  ELSE IF TooSoon(rows) THEN current
  ELSE Larger(min_difficulty, Target(rows, current))

-----------------------------------------------------------------------------
(* POST /v2/partial *)

RequestStep(r, next) ==
  /\ request' = [request EXCEPT ![r] = next]
  /\ UNCHANGED <<now, settings, suggested>>

Read(r) ==
  /\ request[r].pc = "idle" /\ stored < MaxPartials
  /\ RequestStep(r, [pc |-> "check", current |-> difficulty, current_time |-> now])
  /\ UNCHANGED <<difficulty, partials, stored, used, disturbed>>

Reject(r) ==
  /\ request[r].pc = "check"
  /\ RequestStep(r, Idle)
  /\ UNCHANGED <<difficulty, partials, stored, used, disturbed>>

\* add_partial; current_time is read again for adjust_difficulty.
StorePartial(r) ==
  /\ request[r].pc = "check" /\ stored < MaxPartials
  /\ stored' = stored + 1
  /\ partials' = Upsert(partials, stored', [timestamp |-> request[r].current_time,
                                            difficulty |-> request[r].current,
                                            confirmed |-> FALSE])
  /\ RequestStep(r, [request[r] EXCEPT !.pc = "adjust", !.current_time = now])
  /\ UNCHANGED <<difficulty, used, disturbed>>

Adjust(r) ==
  /\ request[r].pc = "adjust"
  /\ LET q == request[r] IN
     \E rows \in recent_partials(number_of_partials_target) :
       /\ ~Raises(rows, q.current, q.current_time)
       /\ RequestStep(r, [pc |-> "write", current |-> q.current, evidence |-> rows,
                          new |-> adjust_difficulty(rows, q.current, q.current_time)])
  /\ UNCHANGED <<difficulty, partials, stored, used, disturbed>>

\* The exception ends the request: the partial stays, the farmer reads an error.
AdjustRaises(r) ==
  /\ request[r].pc = "adjust"
  /\ \E rows \in recent_partials(number_of_partials_target) :
       Raises(rows, request[r].current, request[r].current_time)
  /\ RequestStep(r, Idle)
  /\ UNCHANGED <<difficulty, partials, stored, used, disturbed>>

\* add_farmer writes the result back, changed or not.
WriteBack(r) ==
  /\ request[r].pc = "write"
  /\ difficulty' = request[r].new
  /\ used' = IF request[r].new # request[r].current THEN used \cup request[r].evidence ELSE used
  /\ disturbed' = (disturbed \/ (difficulty' # difficulty /\
                                 \E other \in Requests \ {r} : request[other].pc # "idle"))
  /\ RequestStep(r, Idle)
  /\ UNCHANGED <<partials, stored>>

-----------------------------------------------------------------------------
(* Everything else *)

\* No partial is checked for longer than MaxRequestTime.
Tick ==
  /\ now < MaxTime
  /\ \A r \in Requests : request[r].pc = "check" =>
       now < request[r].current_time + MaxRequestTime
  /\ now' = now + 1
  /\ UNCHANGED <<difficulty, partials, stored, request, settings, used, suggested, disturbed>>

\* POST or PUT /v2/farmer writes a row with another difficulty.
SetDifficulty(d) ==
  /\ settings < MaxSettings /\ settings' = settings + 1
  /\ difficulty' = d
  /\ disturbed' = TRUE
  /\ UNCHANGED <<now, partials, stored, request, used>>

\* With a suggested_difficulty: any uint64 is taken.
Suggest ==
  /\ \E d \in Suggestions : SetDifficulty(d)
  /\ suggested' = TRUE

\* POST without one, by a farmer who is registered: add_farmer replaces his row.
Register ==
  /\ SetDifficulty(default_difficulty)
  /\ UNCHANGED suggested

Old(p) == ~partials[p].confirmed /\ partials[p].timestamp + Delay < now

\* confirm_partials has checked everything old: some rows are deleted, the
\* others confirmed.
Confirm ==
  /\ \E gone \in SUBSET {p \in DOMAIN partials : Old(p)} :
       /\ stored - Cardinality(DOMAIN partials \ gone) <= MaxLost
       /\ partials' = [p \in DOMAIN partials \ gone |->
                         IF Old(p) THEN [partials[p] EXCEPT !.confirmed = TRUE] ELSE partials[p]]
  /\ UNCHANGED <<now, difficulty, stored, request, settings, used, suggested, disturbed>>

Next ==
  \/ Tick \/ Suggest \/ Register \/ Confirm
  \/ \E r \in Requests : Read(r) \/ Reject(r) \/ StorePartial(r) \/ Adjust(r)
                         \/ AdjustRaises(r) \/ WriteBack(r)

Spec == Init /\ [][Next]_vars

-----------------------------------------------------------------------------
(* Properties *)

Writing(r) == request[r].pc = "write"

Uint64 == 0 .. MaxUint64

RequestState ==
  {Idle}
  \cup [pc : {"check", "adjust"}, current : Uint64, current_time : 0 .. MaxTime]
  \cup [pc : {"write"}, current : Uint64, evidence : SUBSET DOMAIN partials, new : Uint64]

\* Every difficulty that is stored or about to be is a uint64.
TypeOK ==
  /\ now \in 0 .. MaxTime
  /\ difficulty \in Uint64
  /\ DOMAIN partials \subseteq 1 .. stored
  /\ partials \in [DOMAIN partials -> [timestamp : 0 .. MaxTime, difficulty : Uint64,
                                       confirmed : BOOLEAN]]
  /\ stored \in 0 .. MaxPartials
  /\ request \in [Requests -> RequestState]
  /\ settings \in 0 .. MaxSettings /\ used \subseteq 1 .. stored
  /\ suggested \in BOOLEAN /\ disturbed \in BOOLEAN

\* No adjustment leads below the minimum the pool advertises (README.md:188,
\* v2.py:366-390).  It holds of farmers who suggest nothing: POST and PUT take
\* any suggestion, and adjust_difficulty may return it unchanged; and in a pool
\* whose default is not below the minimum (the configuration accepts any two).
NeverBelowMinimum == ~suggested => difficulty >= min_difficulty

\* The difficulty rises only on a full window of partials that came in within
\* time_target: never on an extrapolation from a few (v2.py:374-390).
RaisedOnFullFastWindow ==
  \A r \in Requests : (Writing(r) /\ request[r].new > request[r].current) =>
    \/ request[r].new = min_difficulty
    \/ LET rows == request[r].evidence IN Full(rows) /\ TimeTaken(rows) < time_target

\* Two changes never rest on the same partials, although the difficulty may come
\* back to the value that those already used were submitted at ("If we recently
\* updated difficulty, don't update again", v2.py:362-364).  It takes that no request
\* outlives the delay, and ends where the check cannot help: with a difficulty that
\* POST or PUT has set, and with a change that another request under way did not
\* read and will write over.
NoPartialUsedTwice ==
  ~disturbed => \A r \in Requests : (Writing(r) /\ request[r].new # request[r].current) =>
    request[r].evidence \cap used = {}

=============================================================================
