------------------------------- MODULE Server -------------------------------
(***************************************************************************)
(* The process around the handlers and the loops: reference.py opens the   *)
(* node, the wallet and the store, starts the four loops of                *)
(* server/pooling_tasks.py and then the HTTP server, and on the way out    *)
(* closes them in reverse.  All of it shares one event loop with           *)
(*                                                                         *)
(*   loop k     _create_loop around one method of Service;                 *)
(*   request r  a handler inside _wrap_http_handler.  Only those about     *)
(*              tokens are shown: GET /v2/auth, and GET /v2/farmer for the *)
(*              handlers that take one.                                    *)
(*                                                                         *)
(* Stopping does not wait for the loops: they are cancelled and left to    *)
(* the event loop, which cancels once more what is left at the end.        *)
(***************************************************************************)
EXTENDS Integers, FiniteSets

CONSTANTS
  Loops, Requests, Launchers,
  Keys,           \* values of --auth-sk
  Timeouts,       \* values of authentication_token_timeout
  MaxMinutes,     \* the largest uint8
  MaxTime,        \* bound of the clock
  MaxStarts,      \* bound on starts of the process
  MaxTokens       \* bound on tokens in circulation

ASSUME ServerAssumption ==
  /\ MaxMinutes \in Nat /\ MaxTime \in Nat /\ MaxStarts \in Nat /\ MaxTokens \in Nat
  /\ Timeouts \subseteq Int

VARIABLES
  now,
  main,      \* start_async: where it is, how many contexts are open, its options
  loop,      \* the loops' tasks
  cancel,    \* the loops whose cancellation is requested and not yet delivered
  request,   \* handlers under way
  farmers,   \* the store's farmers, as far as they exist
  tokens,    \* the tokens in the farmers' hands
  starts     \* starts of the process so far

vars == <<now, main, loop, cancel, request, farmers, tokens, starts>>

Contexts == <<"node", "wallet", "store", "tasks", "http">>
Open     == {Contexts[j] : j \in 1 .. main.level}

Idle     == [pc |-> "idle"]
Live     == {k \in Loops : loop[k] \notin {"none", "done"}}

Init ==
  /\ now = 0
  /\ \E key \in Keys, timeout \in Timeouts :
       main = [pc |-> "down", level |-> 0, key |-> key, timeout |-> timeout]
  /\ loop = [k \in Loops |-> "none"] /\ cancel = {}
  /\ request = [r \in Requests |-> Idle]
  /\ farmers = {} /\ tokens = {}
  /\ starts = 0

Tick ==
  /\ now < MaxTime /\ now' = now + 1
  /\ UNCHANGED <<main, loop, cancel, request, farmers, tokens, starts>>

-----------------------------------------------------------------------------
(* start_async *)

MainStep(next) ==
  /\ main' = next
  /\ UNCHANGED <<now, farmers, tokens>>

\* The operator chooses the secret key and the configuration.
Start ==
  /\ main.pc = "down" /\ starts < MaxStarts /\ starts' = starts + 1
  /\ \E key \in Keys, timeout \in Timeouts :
       MainStep([pc |-> "entering", level |-> 0, key |-> key, timeout |-> timeout])
  /\ loop' = [k \in Loops |-> "none"]
  /\ UNCHANGED <<cancel, request>>

\* The next context is entered; that of the loops creates their tasks.
Enter ==
  /\ main.pc = "entering" /\ main.level < 5
  /\ MainStep([main EXCEPT !.level = @ + 1])
  /\ loop' = IF main.level = 3 THEN [k \in Loops |-> "created"] ELSE loop
  /\ UNCHANGED <<cancel, request, starts>>

Serve ==
  /\ main.pc = "entering" /\ main.level = 5
  /\ MainStep([main EXCEPT !.pc = "serving"])
  /\ UNCHANGED <<loop, cancel, request, starts>>

\* A context cannot be entered, or the process is interrupted.
Interrupt ==
  /\ main.pc \in {"entering", "serving"}
  /\ MainStep([main EXCEPT !.pc = "leaving"])
  /\ UNCHANGED <<loop, cancel, request, starts>>

\* Fault: the tasks are not cancelled here.
LeaveServers_Uncancelled ==
  /\ main.pc = "leaving" /\ main.level \in {4, 5}
  /\ \A r \in Requests : request[r] = Idle
  /\ MainStep([main EXCEPT !.level = 3])
  /\ UNCHANGED <<loop, cancel, request, starts>>

\* The HTTP server waits for its handlers, or cancels them; then, with no await in between, the
\* loops are cancelled.
LeaveServers ==
  /\ main.pc = "leaving" /\ main.level \in {4, 5}
  /\ \A r \in Requests : request[r] = Idle
  /\ MainStep([main EXCEPT !.level = 3])
  /\ cancel' = Live
  /\ UNCHANGED <<loop, request, starts>>

\* The store, the wallet and the node are closed, one after the other.
Leave ==
  /\ main.pc = "leaving" /\ main.level \in 1 .. 3
  /\ MainStep([main EXCEPT !.level = @ - 1])
  /\ UNCHANGED <<loop, cancel, request, starts>>

\* asyncio.run cancels every task that is left and waits for all of them.
CancelAll ==
  /\ main.pc = "leaving" /\ main.level = 0
  /\ MainStep([main EXCEPT !.pc = "cancelling"])
  /\ cancel' = Live
  /\ UNCHANGED <<loop, request, starts>>

End ==
  /\ main.pc = "cancelling" /\ Live = {}
  /\ MainStep([main EXCEPT !.pc = "down"])
  /\ UNCHANGED <<loop, cancel, request, starts>>

\* The process is killed.
Crash ==
  /\ main.pc # "down"
  /\ MainStep([main EXCEPT !.pc = "down", !.level = 0])
  /\ loop' = [k \in Loops |-> "none"] /\ cancel' = {}
  /\ request' = [r \in Requests |-> Idle]
  /\ UNCHANGED starts

-----------------------------------------------------------------------------
(* _create_loop *)

LoopGoes(k, from, to) ==
  /\ loop[k] = from /\ k \notin cancel
  /\ loop' = [loop EXCEPT ![k] = to]
  /\ UNCHANGED <<now, main, cancel, request, farmers, tokens, starts>>

LoopStarts(k)  == LoopGoes(k, "created", "running")
LoopReturns(k) == LoopGoes(k, "running", "sleeping")

\* Fault: an exception leaves the while.
LoopRaises_Ends(k) == LoopGoes(k, "running", "done")

\* The method raises: logged, and the sleep is in the finally.
LoopRaises(k) == LoopGoes(k, "running", "sleeping")

LoopWakes(k) == LoopGoes(k, "sleeping", "running")

\* The sleep after a cancelled run is over: CancelledError goes on.
LoopEnds(k) == LoopGoes(k, "ending", "done")

\* Fault: CancelledError is caught with the other exceptions.
LoopCancelled_Caught(k) ==
  /\ k \in cancel /\ cancel' = cancel \ {k}
  /\ loop' = [loop EXCEPT ![k] = IF @ = "running" THEN "sleeping" ELSE "done"]
  /\ UNCHANGED <<now, main, request, farmers, tokens, starts>>

\* CancelledError is no Exception: a run that gets it still sleeps in the
\* finally; a task that sleeps or has not begun ends.
LoopCancelled(k) ==
  /\ k \in cancel /\ cancel' = cancel \ {k}
  /\ loop' = [loop EXCEPT ![k] = IF @ = "running" THEN "ending" ELSE "done"]
  /\ UNCHANGED <<now, main, request, farmers, tokens, starts>>

-----------------------------------------------------------------------------
(* The handlers.  An exception becomes an error response.                  *)

RequestStep(r, next) ==
  /\ request' = [request EXCEPT ![r] = next]
  /\ UNCHANGED <<now, main, loop, cancel, farmers, starts>>

Accepts(r) == main.pc = "serving" /\ request[r] = Idle

\* GET /v2/auth: the farmer's row is looked up.
GetAuth(r, l) ==
  /\ Accepts(r)
  /\ RequestStep(r, [pc |-> "auth", launcher |-> l])
  /\ UNCHANGED tokens

\* create_token
create_token(l) == [sub |-> l, key |-> main.key, exp |-> now + main.timeout]

\* Fault: the timeout is taken whatever it is.
AuthToken_AnyTimeout(r) ==
  /\ request[r].pc = "auth" /\ request[r].launcher \in farmers
  /\ Cardinality(tokens) < MaxTokens
  /\ tokens' = tokens \cup {create_token(request[r].launcher)}
  /\ RequestStep(r, Idle)

\* Refused if the row is missing, the signature is not the farmer's or the
\* timeout is no uint8.
AuthToken(r) ==
  /\ request[r].pc = "auth" /\ request[r].launcher \in farmers
  /\ main.timeout \in 0 .. MaxMinutes /\ Cardinality(tokens) < MaxTokens
  /\ tokens' = tokens \cup {create_token(request[r].launcher)}
  /\ RequestStep(r, Idle)

AuthRefused(r) ==
  /\ request[r].pc = "auth"
  /\ RequestStep(r, Idle)
  /\ UNCHANGED tokens

verify_token(t, l) == t.sub = l /\ t.exp >= now

\* GET /v2/farmer, and the others with a token: jwt.decode, which checks the
\* key, and verify_token come before the first await.  Without them the answer
\* is an error and nothing is called.
GetFarmer(r, l, t) ==
  /\ Accepts(r)
  /\ t.key = main.key /\ verify_token(t, l)
  /\ RequestStep(r, [pc |-> "farmer", launcher |-> l])
  /\ UNCHANGED tokens

\* The row and the points are read, or the farmer is not known any more.
GetFarmerAnswers(r) ==
  /\ request[r].pc = "farmer"
  /\ RequestStep(r, Idle)
  /\ UNCHANGED tokens

\* The HTTP server waits only so long before it cancels the handlers.
HandlerCancelled(r) ==
  /\ main.pc = "leaving" /\ main.level = 5 /\ request[r] # Idle
  /\ RequestStep(r, Idle)
  /\ UNCHANGED tokens

\* What the other handlers and check_for_singletons do to the farmers table
FarmersChange ==
  /\ Live # {} \/ main.pc = "serving"
  /\ farmers' \in SUBSET Launchers
  /\ UNCHANGED <<now, main, loop, cancel, request, tokens, starts>>

-----------------------------------------------------------------------------

MainNext == Enter \/ Serve \/ LeaveServers \/ Leave \/ CancelAll \/ End

LoopNext(k) ==
  \/ LoopStarts(k) \/ LoopReturns(k) \/ LoopRaises(k) \/ LoopWakes(k)
  \/ LoopEnds(k) \/ LoopCancelled(k)

HandlerNext(r) == AuthToken(r) \/ AuthRefused(r) \/ GetFarmerAnswers(r)

Next ==
  \/ Tick \/ FarmersChange
  \/ Start \/ Interrupt \/ Crash \/ MainNext
  \/ \E k \in Loops : LoopNext(k)
  \/ \E r \in Requests :
       \/ HandlerNext(r) \/ HandlerCancelled(r)
       \/ \E l \in Launchers : GetAuth(r, l)
       \/ \E l \in Launchers, t \in tokens : GetFarmer(r, l, t)

Spec == Init /\ [][Next]_vars

\* Every await returns or raises, and the event loop runs what is ready.  Nobody
\* has to start, use or stop the server.
FairSpec ==
  /\ Spec /\ WF_vars(MainNext)
  /\ \A k \in Loops : WF_vars(LoopNext(k))
  /\ \A r \in Requests : WF_vars(HandlerNext(r))

-----------------------------------------------------------------------------
(* Properties *)

Expiry == 0 .. MaxTime + MaxMinutes
Token  == [sub : Launchers, exp : Expiry, key : Keys]

RequestState == {Idle} \cup [pc : {"auth", "farmer"}, launcher : Launchers]

\* The process, its tasks and its handlers are in states their code has, only
\* live tasks are to be cancelled, and no token outlives the largest timeout.
TypeOK ==
  /\ now \in 0 .. MaxTime
  /\ main \in [pc : {"down", "entering", "serving", "leaving", "cancelling"},
               level : 0 .. 5, key : Keys, timeout : Timeouts]
  /\ loop \in [Loops -> {"none", "created", "running", "sleeping", "ending", "done"}]
  /\ cancel \subseteq Live
  /\ request \in [Requests -> RequestState]
  /\ farmers \subseteq Launchers /\ tokens \subseteq Token
  /\ starts \in 0 .. MaxStarts

\* No loop and no handler makes a call on a store, wallet or node that is not
\* open, although the loops are not awaited when they are closed: a task that
\* has been cancelled takes no further step of its run (reference.py:29-43,
\* pooling_tasks.py:72-79).
CallsOnlyWhatIsOpen ==
  (\/ \E k \in Loops \ cancel : loop[k] = "running"
   \/ \E r \in Requests : request[r] # Idle) => {"node", "wallet", "store"} \subseteq Open

\* While the server serves, every loop is triggered again and again, whatever
\* its runs raise (pooling_tasks.py:21-30).
LoopsKeepTriggering ==
  \A k \in Loops : []<>(main.pc # "serving" \/ loop[k] = "running")

\* A server that is told to stop, or could not start, ends: no loop holds it up
\* (pooling_tasks.py:29, 72-79).
StopsWhenTold == main.pc = "leaving" ~> main.pc = "down"

=============================================================================
