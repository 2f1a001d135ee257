---------------------------- MODULE ServerProofs ----------------------------
(***************************************************************************)
(* Proofs about Server, for any number of loops, handlers, restarts and    *)
(* tokens.                                                                 *)
(***************************************************************************)
EXTENDS Server, TLAPS

\* What is alive when: loops that may still make a call exist only while all
\* contexts up to theirs are open, and handlers only while the HTTP server is.
OpenInv ==
  /\ main.pc = "down" => Live = {}
  /\ main.pc = "serving" => main.level = 5
  /\ \A k \in Live \ cancel : main.level >= 4 \/ loop[k] = "ending"
  /\ \A r \in Requests : request[r] # Idle => main.level = 5 /\ main.pc \in {"serving", "leaving"}

LEMMA InitSafe == Init => TypeOK /\ OpenInv
BY ServerAssumption
   DEF Init, TypeOK, OpenInv, Live, Idle, RequestState, Token, Expiry

\* The steps of start_async
LEMMA MainStepSafe ==
  ASSUME TypeOK, OpenInv, MainNext \/ Start \/ Interrupt \/ Crash
  PROVE  TypeOK' /\ OpenInv'
<1> USE ServerAssumption DEF TypeOK, OpenInv, MainStep, Live
<1>1. CASE Start
  <2>1. main' \in [pc : {"entering"}, level : {0}, key : Keys, timeout : Timeouts]
    BY <1>1 DEF Start
  <2>2. starts' \in 0 .. MaxStarts
    BY <1>1 DEF Start
  <2>3. Live' = {} /\ cancel = {}
    BY <1>1 DEF Start
  <2>4. \A r \in Requests : request'[r] = Idle
    BY <1>1 DEF Start
  <2> QED BY <1>1, <2>1, <2>2, <2>3, <2>4 DEF Start, Token, Expiry
<1>2. CASE Enter
  BY <1>2 DEF Enter
<1>3. CASE Serve
  BY <1>3 DEF Serve
<1>4. CASE Interrupt
  BY <1>4 DEF Interrupt
<1>5. CASE LeaveServers
  BY <1>5 DEF LeaveServers
<1>6. CASE Leave
  BY <1>6 DEF Leave
<1>7. CASE CancelAll
  BY <1>7 DEF CancelAll
<1>8. CASE End
  BY <1>8 DEF End
<1>9. CASE Crash
  <2>1. /\ main' \in [pc : {"down"}, level : {0}, key : Keys, timeout : Timeouts]
        /\ UNCHANGED <<now, farmers, tokens, starts>>
    BY <1>9 DEF Crash
  <2>2. Live' = {} /\ cancel' = {} /\ loop' \in [Loops -> {"none"}]
    BY <1>9 DEF Crash
  <2>3. /\ \A r \in Requests : request'[r] = Idle
        /\ request' \in [Requests -> RequestState]
    BY <1>9 DEF Crash, RequestState
  <2>4. TypeOK'
    BY <2>1, <2>2, <2>3 DEF Token, Expiry
  <2>5. \A r \in Requests : request'[r].pc = "idle"
    BY <2>3 DEF Idle
  <2> QED BY <2>1, <2>2, <2>3, <2>4, <2>5
<1> QED BY <1>1, <1>2, <1>3, <1>4, <1>5, <1>6, <1>7, <1>8, <1>9 DEF MainNext

\* The steps of a loop
LEMMA LoopStepSafe ==
  ASSUME TypeOK, OpenInv, NEW k \in Loops, LoopNext(k)
  PROVE  TypeOK' /\ OpenInv'
<1> USE DEF TypeOK, OpenInv, Live
<1>1. ASSUME NEW from, NEW to, LoopGoes(k, from, to),
             <<from, to>> \in {<<"created", "running">>, <<"running", "sleeping">>,
                               <<"sleeping", "running">>, <<"ending", "done">>}
      PROVE  TypeOK' /\ OpenInv'
  BY <1>1 DEF LoopGoes
<1>2. CASE LoopCancelled(k)
  BY <1>2 DEF LoopCancelled
<1> QED BY <1>1, <1>2
        DEF LoopNext, LoopStarts, LoopReturns, LoopRaises, LoopWakes, LoopEnds

\* The steps of a handler
LEMMA RequestStepSafe ==
  ASSUME TypeOK, OpenInv, NEW r \in Requests, NEW next \in RequestState,
         RequestStep(r, next), tokens' \subseteq Token,
         next # Idle => main.level = 5 /\ main.pc = "serving"
  PROVE  TypeOK' /\ OpenInv'
BY DEF TypeOK, OpenInv, Live, RequestStep

LEMMA HandlerSafe ==
  ASSUME TypeOK, OpenInv, NEW r \in Requests,
         \/ HandlerNext(r) \/ HandlerCancelled(r)
         \/ \E l \in Launchers : GetAuth(r, l)
         \/ \E l \in Launchers, t \in tokens : GetFarmer(r, l, t)
  PROVE  TypeOK' /\ OpenInv'
<1> USE ServerAssumption
<1>0. /\ Idle \in RequestState /\ request[r] \in RequestState /\ tokens \subseteq Token
      /\ main.key \in Keys /\ now \in 0 .. MaxTime
      /\ \A l \in Launchers : {[pc |-> "auth", launcher |-> l], [pc |-> "farmer", launcher |-> l]}
                                \subseteq RequestState
  BY DEF TypeOK, RequestState
<1>1. ASSUME NEW l \in Launchers, GetAuth(r, l) PROVE TypeOK' /\ OpenInv'
  <2>1. main.pc = "serving" /\ main.level = 5
    BY <1>1 DEF GetAuth, Accepts, OpenInv
  <2> QED BY <1>0, <1>1, <2>1, RequestStepSafe DEF GetAuth
<1>2. CASE AuthToken(r)
  <2>1. request[r].launcher \in Launchers
    BY <1>2, <1>0 DEF AuthToken, RequestState, Idle
  <2>2. main.timeout \in 0 .. MaxMinutes /\ now + main.timeout \in Expiry
    BY <1>2, <1>0 DEF AuthToken, Expiry
  <2>3. create_token(request[r].launcher) \in Token
    BY <1>0, <2>1, <2>2 DEF create_token, Token
  <2>4. tokens' \subseteq Token
    BY <1>0, <1>2, <2>3 DEF AuthToken
  <2> QED BY <1>0, <1>2, <2>4, RequestStepSafe DEF AuthToken
<1>3. CASE AuthRefused(r)
  BY <1>0, <1>3, RequestStepSafe DEF AuthRefused
<1>4. ASSUME NEW l \in Launchers, NEW t \in tokens, GetFarmer(r, l, t)
      PROVE  TypeOK' /\ OpenInv'
  <2>1. main.pc = "serving" /\ main.level = 5
    BY <1>4 DEF GetFarmer, Accepts, OpenInv
  <2> QED BY <1>0, <1>4, <2>1, RequestStepSafe DEF GetFarmer
<1>5. CASE GetFarmerAnswers(r)
  BY <1>0, <1>5, RequestStepSafe DEF GetFarmerAnswers
<1>6. CASE HandlerCancelled(r)
  BY <1>0, <1>6, RequestStepSafe DEF HandlerCancelled
<1> QED BY <1>1, <1>2, <1>3, <1>4, <1>5, <1>6 DEF HandlerNext

LEMMA NextSafe == TypeOK /\ OpenInv /\ [Next]_vars => TypeOK' /\ OpenInv'
<1> USE ServerAssumption
<1> SUFFICES ASSUME TypeOK, OpenInv, [Next]_vars PROVE TypeOK' /\ OpenInv'
  OBVIOUS
<1>1. CASE Tick
  <2>1. now' \in 0 .. MaxTime
    BY <1>1 DEF Tick, TypeOK
  <2> QED BY <1>1, <2>1 DEF Tick, TypeOK, OpenInv, Live
<1>2. CASE FarmersChange
  BY <1>2 DEF FarmersChange, TypeOK, OpenInv, Live
<1>3. CASE MainNext \/ Start \/ Interrupt \/ Crash
  BY <1>3, MainStepSafe
<1>4. CASE \E k \in Loops : LoopNext(k)
  BY <1>4, LoopStepSafe
<1>5. ASSUME NEW r \in Requests,
             \/ HandlerNext(r) \/ HandlerCancelled(r)
             \/ \E l \in Launchers : GetAuth(r, l)
             \/ \E l \in Launchers, t \in tokens : GetFarmer(r, l, t)
      PROVE  TypeOK' /\ OpenInv'
  BY <1>5, HandlerSafe
<1>6. CASE UNCHANGED vars
  BY <1>6 DEF vars, TypeOK, OpenInv, Live
<1> QED BY <1>1, <1>2, <1>3, <1>4, <1>5, <1>6 DEF Next

\* The process, its tasks and its handlers keep to their states.
THEOREM TypeCorrect == Spec => []TypeOK
<1> QED BY InitSafe, NextSafe, PTL DEF Spec

\* Nothing is called that is not open, whenever and however the server stops.
THEOREM OnlyOpenIsCalled == Spec => []CallsOnlyWhatIsOpen
<1>1. TypeOK /\ OpenInv => CallsOnlyWhatIsOpen
  <2> SUFFICES ASSUME TypeOK, OpenInv,
                      \/ \E k \in Loops \ cancel : loop[k] = "running"
                      \/ \E r \in Requests : request[r] # Idle
               PROVE  {"node", "wallet", "store"} \subseteq Open
    BY DEF CallsOnlyWhatIsOpen
  <2>1. main.level \in 4 .. 5
    BY DEF TypeOK, OpenInv, Live
  <2>2. {1, 2, 3} \subseteq 1 .. main.level
    BY <2>1
  <2>3. Contexts[1] = "node" /\ Contexts[2] = "wallet" /\ Contexts[3] = "store"
    BY DEF Contexts
  <2> QED BY <2>2, <2>3 DEF Open
<1> QED BY <1>1, InitSafe, NextSafe, PTL DEF Spec

=============================================================================
